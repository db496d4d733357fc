----------------------------- MODULE GameProofs -----------------------------
(***************************************************************************)
(* The safety of Game for every pack, every number of players and every    *)
(* setting: the agreement of the board with the snakes, the walls and the  *)
(* number; the connectedness of the snakes; the growth they are owed; and  *)
(* the fairness of the loop over the players.  First what the operations   *)
(* of Level preserve, then what the actions of Game make of them.          *)
(***************************************************************************)
EXTENDS Game, SequenceTheorems, FiniteSetTheorems, TLAPS

-----------------------------------------------------------------------------
(* Types. *)

\* Board::adjacent stays on the board.
LEMMA AdjacentType ==
  ASSUME NEW c \in Cells, NEW d \in Direction
  PROVE  Adjacent(c, d) \in Cells
BY GridAssumption, SMT DEF Cells, Direction, Adjacent

LEMMA InitialBoardType ==
  ASSUME NEW walls \in SUBSET Cells
  PROVE  InitialBoard(walls) \in [Cells -> BoardState]
BY DEF InitialBoard, BoardState

\* A number's block lies on the board.
LEMMA BlockOnBoard ==
  ASSUME NEW blk \in NumberBlocks
  PROVE  blk \subseteq Cells
BY GridAssumption, SMT DEF NumberBlocks, NumberBlock, Cells

\* A snake fresh from its constructor is a snake, and has a point.
LEMMA NewSnakeType ==
  ASSUME NEW s \in [point : Cells, direction : Direction]
  PROVE  /\ NewSnake(s) \in SnakeType
         /\ NewSnake(s).points # << >>
BY LevelAssumption, SMT DEF NewSnake, SnakeType

\* A level from its constructor is a level.
LEMMA NewLevelType ==
  ASSUME NEW walls \in SUBSET Cells, NEW starts,
         \A p \in Player : starts[p] \in [point : Cells, direction : Direction]
  PROVE  NewLevel(walls, starts) \in LevelType
<1>1. [p \in Player |-> NewSnake(starts[p])] \in [Player -> SnakeType]
  BY NewSnakeType
<1>2. InitialBoard(walls) \in [Cells -> BoardState]
  BY InitialBoardType
<1> QED
  BY <1>1, <1>2, LevelAssumption, SMT DEF NewLevel, LevelType

\* setNumber keeps a level a level.
LEMMA WithNumberType ==
  ASSUME NEW lv \in LevelType, NEW blk \in NumberBlocks,
         NEW val \in 0 .. LastNumber
  PROVE  WithNumber(lv, blk, val) \in LevelType
<1> DEFINE b == [c \in Cells |->
                   IF c \in blk THEN "number"
                   ELSE IF c \in lv.number /\ lv.board[c] = "number"
                        THEN "empty" ELSE lv.board[c]]
<1>1. b \in [Cells -> BoardState]
  BY DEF LevelType, BoardState
<1> QED
  BY <1>1 DEF WithNumber, LevelType

\* Turning changes directions only.
LEMMA TurnedType ==
  ASSUME NEW lv \in LevelType, NEW mv \in Moves
  PROVE  /\ Turned(lv, mv) \in LevelType
         /\ \A p \in Player :
              Turned(lv, mv).snakes[p].points = lv.snakes[p].points
         /\ Turned(lv, mv).board = lv.board
         /\ Turned(lv, mv).walls = lv.walls
         /\ Turned(lv, mv).number = lv.number
         /\ Turned(lv, mv).value = lv.value
<1> DEFINE sn == [p \in Player |->
                    IF p \in DOMAIN mv THEN Turn(lv.snakes[p], mv[p])
                                       ELSE lv.snakes[p]]
<1>1. \A p \in Player : sn[p] \in SnakeType /\ sn[p].points = lv.snakes[p].points
  <2> TAKE p \in Player
  <2>1. lv.snakes[p] \in SnakeType
    BY DEF LevelType
  <2>2. p \in DOMAIN mv => mv[p] \in Direction
    BY DEF Moves
  <2> QED
    BY <2>1, <2>2 DEF Turn, SnakeType
<1>2. sn \in [Player -> SnakeType]
  BY <1>1
<1> QED
  BY <1>1, <1>2 DEF Turned, LevelType

-----------------------------------------------------------------------------
(* One tick of one snake. *)

\* Every snake of the level has a point, as nextHead needs.
HasHeads(lv) == \A p \in Player : lv.snakes[p].points # << >>

LEMMA SnakeFacts ==
  ASSUME NEW lv \in LevelType, HasHeads(lv), NEW p \in Player
  PROVE  /\ lv.snakes[p].points \in Seq(Cells)
         /\ Len(lv.snakes[p].points) \in Nat \ {0}
         /\ lv.snakes[p].direction \in Direction
         /\ lv.snakes[p].pending \in Nat
         /\ NextHead(lv.snakes[p]) \in Cells
         /\ Pending(lv, p) \in Nat
<1>1. lv.snakes[p] \in SnakeType
  BY DEF LevelType
<1>2. /\ lv.snakes[p].points \in Seq(Cells)
      /\ lv.snakes[p].direction \in Direction
      /\ lv.snakes[p].pending \in Nat
  BY <1>1 DEF SnakeType
<1>3. Len(lv.snakes[p].points) \in Nat \ {0}
  BY <1>2, EmptySeq DEF HasHeads
<1>4. HeadOf(lv.snakes[p]) \in Cells
  BY <1>2, <1>3, ElementOfSeq, SMT DEF HeadOf
<1>5. NextHead(lv.snakes[p]) \in Cells
  BY <1>2, <1>4, AdjacentType DEF NextHead
<1>6. lv.value \in Nat
  BY LevelAssumption, SMT DEF LevelType
<1>7. lv.value * GrowthFactor \in Nat
  BY <1>6, LevelAssumption, SMT
<1>8. Pending(lv, p) \in Nat
  BY <1>2, <1>7, SMT DEF Pending
<1> QED
  BY <1>2, <1>3, <1>5, <1>8

\* A snake after a tick is a snake, dead or alive.
LEMMA MovedSnakeType ==
  ASSUME NEW lv \in LevelType, HasHeads(lv), NEW p \in Player
  PROVE  MovedSnake(lv, p) \in SnakeType
<1>1. Extended(lv, p) \in Seq(Cells) /\ Extended(lv, p) # << >>
  BY SnakeFacts, AppendProperties DEF Extended, HasHeads
<1>2. Tail(Extended(lv, p)) \in Seq(Cells)
  BY <1>1, HeadTailProperties
<1>3. p \notin Vacating(lv) => Pending(lv, p) - 1 \in Nat
  BY SnakeFacts, SMT DEF Vacating
<1> QED
  BY <1>1, <1>2, <1>3, SnakeFacts DEF MovedSnake, SnakeType

LEMMA MovedType ==
  ASSUME NEW lv \in LevelType, HasHeads(lv)
  PROVE  Moved(lv) \in LevelType
<1> DEFINE b == [c \in Cells |-> IF c \in Vacated(lv) THEN "empty"
                                ELSE IF c \in Claimed(lv) THEN "snake"
                                ELSE lv.board[c]]
           sn == [p \in Player |-> MovedSnake(lv, p)]
<1>1. b \in [Cells -> BoardState]
  BY DEF LevelType, BoardState
<1>2. sn \in [Player -> SnakeType]
  BY MovedSnakeType
<1>3. Moved(lv) = [lv EXCEPT !.snakes = sn, !.board = b]
  BY DEF Moved
<1> HIDE DEF b, sn
<1> QED
  BY <1>1, <1>2, <1>3 DEF LevelType

\* The points of a snake that lives: the next head in front, and the last point
\* gone exactly if it has no growth left.
LEMMA MovedPoints ==
  ASSUME NEW lv \in LevelType, HasHeads(lv), NEW p \in Player \ Dead(lv)
  PROVE  LET n == Len(lv.snakes[p].points)
             old == lv.snakes[p].points
             new == MovedSnake(lv, p).points
         IN  /\ p \in Vacating(lv) =>
                  /\ Len(new) = n
                  /\ \A i \in 1 .. n :
                       new[i] = IF i = n THEN NextHead(lv.snakes[p])
                                         ELSE old[i + 1]
                  /\ Head(Extended(lv, p)) = old[1]
             /\ p \notin Vacating(lv) =>
                  /\ Len(new) = n + 1
                  /\ \A i \in 1 .. n + 1 :
                       new[i] = IF i = n + 1 THEN NextHead(lv.snakes[p])
                                             ELSE old[i]
             /\ new # << >>
<1> DEFINE P == lv.snakes[p].points
           n == Len(P)
           E == Append(P, NextHead(lv.snakes[p]))
<1>1. /\ P \in Seq(Cells)
      /\ n \in Nat \ {0}
      /\ NextHead(lv.snakes[p]) \in Cells
  BY SnakeFacts
<1> HIDE DEF P
<1>2. /\ E \in Seq(Cells)
      /\ E # << >>
      /\ Len(E) = n + 1
      /\ \A i \in 1 .. n : E[i] = P[i]
      /\ E[n + 1] = NextHead(lv.snakes[p])
  BY <1>1, AppendProperties
<1>3. Extended(lv, p) = E
  BY DEF Extended, P
<1>4. /\ Tail(E) \in Seq(Cells)
      /\ Len(Tail(E)) = n
      /\ \A i \in 1 .. n : Tail(E)[i] = E[i + 1]
      /\ Head(E) = P[1]
  <2> HIDE DEF E, P, n
  <2>1. Len(Tail(E)) = Len(E) - 1
    BY <1>2, HeadTailProperties
  <2>2. Len(Tail(E)) = n
    BY <2>1, <1>2, <1>1
  <2>3. \A i \in 1 .. n : Tail(E)[i] = E[i + 1]
    BY <2>2, <1>2, HeadTailProperties
  <2>4. Head(E) = P[1]
    BY <1>1, <1>2
  <2> QED
    BY <1>2, <2>2, <2>3, <2>4, HeadTailProperties
<1> HIDE DEF E, P, n
<1>5. CASE p \in Vacating(lv)
  <2>1. MovedSnake(lv, p).points = Tail(E)
    BY <1>3, <1>5 DEF MovedSnake
  <2>2. \A i \in 1 .. n : Tail(E)[i] = IF i = n THEN NextHead(lv.snakes[p])
                                              ELSE P[i + 1]
    BY <1>1, <1>2, <1>4
  <2>3. Tail(E) # << >>
    BY <1>1, <1>4, EmptySeq
  <2> QED
    BY <1>3, <1>4, <1>5, <2>1, <2>2, <2>3 DEF P, n
<1>6. CASE p \notin Vacating(lv)
  <2>1. MovedSnake(lv, p).points = E
    BY <1>3, <1>6 DEF MovedSnake
  <2>2. \A i \in 1 .. n + 1 : E[i] = IF i = n + 1 THEN NextHead(lv.snakes[p])
                                              ELSE P[i]
    BY <1>1, <1>2
  <2> QED
    BY <1>2, <1>6, <2>1, <2>2 DEF P, n
<1> QED
  BY <1>5, <1>6

-----------------------------------------------------------------------------
(* A tick that nobody dies in keeps the level consistent. *)

\* The number on the board, if any, is the current one: what a snake that eats
\* leaves of NumberMarked until the next number is placed.
NumberWithin(lv, except) ==
  \A c \in Cells \ except : lv.board[c] = "number" => c \in lv.number

\* A consistent level, but for the number.
BodiesSound(lv, except) == /\ HasHeads(lv)
                           /\ SnakesMarked(lv, except)
                           /\ BodiesDisjoint(lv, except)
                           /\ WallsMarked(lv, except)

\* The next cell of a snake that lives is in no body.
LEMMA HeadFree ==
  ASSUME NEW lv \in LevelType, NEW except, BodiesSound(lv, except),
         NEW p \in Player \ Dead(lv), NextHead(lv.snakes[p]) \notin except,
         NEW q \in Player
  PROVE  NextHead(lv.snakes[p]) \notin Body(lv, q)
BY SnakeFacts DEF BodiesSound, SnakesMarked, Dead

\* The cell a tail leaves was the last point of the snake, and was marked.
LEMMA VacatedIsTail ==
  ASSUME NEW lv \in LevelType, NEW except, BodiesSound(lv, except),
         Dead(lv) = {}, NEW c \in Vacated(lv), c \notin except
  PROVE  /\ \E q \in Vacating(lv) : c = lv.snakes[q].points[1]
         /\ c \in Cells
         /\ lv.board[c] = "snake"
<1>1. PICK q \in Vacating(lv) : c = Head(Extended(lv, q))
  BY DEF Vacated
<1>2. q \in Player \ Dead(lv)
  BY DEF Vacating
<1>3. c = lv.snakes[q].points[1]
  BY <1>1, <1>2, MovedPoints DEF BodiesSound
<1>4. /\ lv.snakes[q].points \in Seq(Cells)
      /\ 1 \in 1 .. Len(lv.snakes[q].points)
      /\ DOMAIN lv.snakes[q].points = 1 .. Len(lv.snakes[q].points)
  BY <1>2, SnakeFacts, LenProperties DEF BodiesSound
<1>5. c \in Cells /\ c \in Body(lv, q)
  BY <1>3, <1>4, ElementOfSeq DEF Body
<1> QED
  BY <1>2, <1>3, <1>5 DEF BodiesSound, SnakesMarked

\* Every point of a snake after the tick is the cell that was ahead of it or a
\* point it had, and not the one its tail has left.
LEMMA PointsAfter ==
  ASSUME NEW lv \in LevelType, HasHeads(lv), NEW p \in Player \ Dead(lv),
         NEW i \in DOMAIN MovedSnake(lv, p).points
  PROVE  LET new == MovedSnake(lv, p).points
             old == lv.snakes[p].points
         IN  \/ i = Len(new) /\ new[i] = NextHead(lv.snakes[p])
             \/ /\ i # Len(new)
                /\ p \in Vacating(lv)
                /\ i + 1 \in DOMAIN old /\ new[i] = old[i + 1]
             \/ /\ i # Len(new)
                /\ p \notin Vacating(lv)
                /\ i \in DOMAIN old /\ new[i] = old[i]
<1> DEFINE n == Len(lv.snakes[p].points)
           new == MovedSnake(lv, p).points
<1>1. n \in Nat \ {0} /\ DOMAIN lv.snakes[p].points = 1 .. n
  BY SnakeFacts, LenProperties
<1>2. new \in Seq(Cells)
  BY MovedSnakeType DEF SnakeType
<1>3. DOMAIN new = 1 .. Len(new)
  BY <1>2, LenProperties
<1>4. /\ p \in Vacating(lv) =>
            /\ Len(new) = n
            /\ \A k \in 1 .. n : new[k] = IF k = n THEN NextHead(lv.snakes[p])
                                           ELSE lv.snakes[p].points[k + 1]
      /\ p \notin Vacating(lv) =>
            /\ Len(new) = n + 1
            /\ \A k \in 1 .. n + 1 :
                 new[k] = IF k = n + 1 THEN NextHead(lv.snakes[p])
                                       ELSE lv.snakes[p].points[k]
  BY MovedPoints
<1> HIDE DEF n, new
<1>5. i \in 1 .. Len(new)
  BY <1>3 DEF new
<1>6. CASE p \in Vacating(lv)
  BY <1>1, <1>4, <1>5, <1>6 DEF new
<1>7. CASE p \notin Vacating(lv)
  BY <1>1, <1>4, <1>5, <1>7 DEF new
<1> QED
  BY <1>6, <1>7

\* The other way round: the cell ahead, and every old point but the one its tail
\* leaves, is a point after the tick.
LEMMA PointsKept ==
  ASSUME NEW lv \in LevelType, HasHeads(lv), NEW p \in Player \ Dead(lv)
  PROVE  LET new == MovedSnake(lv, p).points
             old == lv.snakes[p].points
         IN  /\ \E i \in DOMAIN new : new[i] = NextHead(lv.snakes[p])
             /\ \A k \in DOMAIN old :
                  (k = 1 => p \notin Vacating(lv))
                    => \E i \in DOMAIN new : new[i] = old[k]
<1> DEFINE n == Len(lv.snakes[p].points)
           new == MovedSnake(lv, p).points
           old == lv.snakes[p].points
<1>1. n \in Nat \ {0} /\ DOMAIN old = 1 .. n
  BY SnakeFacts, LenProperties
<1>2. new \in Seq(Cells)
  BY MovedSnakeType DEF SnakeType
<1>3. DOMAIN new = 1 .. Len(new)
  BY <1>2, LenProperties
<1>4. /\ p \in Vacating(lv) =>
            /\ Len(new) = n
            /\ \A k \in 1 .. n : new[k] = IF k = n THEN NextHead(lv.snakes[p])
                                           ELSE old[k + 1]
      /\ p \notin Vacating(lv) =>
            /\ Len(new) = n + 1
            /\ \A k \in 1 .. n + 1 :
                 new[k] = IF k = n + 1 THEN NextHead(lv.snakes[p]) ELSE old[k]
  BY MovedPoints
<1> HIDE DEF n, new, old
<1>5. \E i \in DOMAIN new : new[i] = NextHead(lv.snakes[p])
  <2>1. CASE p \in Vacating(lv)
    <3>1. n \in 1 .. n
      BY <1>1
    <3>2. /\ Len(new) = n
          /\ \A k \in 1 .. n : new[k] = IF k = n THEN NextHead(lv.snakes[p])
                                         ELSE old[k + 1]
      BY <1>4, <2>1
    <3>3. n \in DOMAIN new
      BY <1>3, <3>1, <3>2
    <3>4. new[n] = NextHead(lv.snakes[p])
      BY <3>1, <3>2
    <3> QED
      BY <3>3, <3>4
  <2>2. CASE p \notin Vacating(lv)
    <3>1. n + 1 \in 1 .. n + 1
      BY <1>1
    <3>2. n + 1 \in DOMAIN new /\ new[n + 1] = NextHead(lv.snakes[p])
      BY <1>3, <1>4, <2>2, <3>1
    <3> QED
      BY <3>2
  <2> QED
    BY <2>1, <2>2
<1>6. ASSUME NEW k \in DOMAIN old, k = 1 => p \notin Vacating(lv)
      PROVE  \E i \in DOMAIN new : new[i] = old[k]
  <2>1. CASE p \in Vacating(lv)
    <3>1. k - 1 \in 1 .. n /\ k - 1 # n /\ (k - 1) + 1 = k
      BY <1>1, <1>6, <2>1, SMTT(20)
    <3>2. k - 1 \in DOMAIN new /\ new[k - 1] = old[k]
      BY <1>1, <1>3, <1>4, <2>1, <3>1, Zenon
    <3> QED
      BY <3>2
  <2>2. CASE p \notin Vacating(lv)
    <3>1. k \in 1 .. n + 1 /\ k # n + 1
      BY <1>1
    <3>2. k \in DOMAIN new /\ new[k] = old[k]
      BY <1>3, <1>4, <2>2, <3>1
    <3> QED
      BY <3>2
  <2> QED
    BY <2>1, <2>2
<1> QED
  BY <1>5, <1>6 DEF new, old

\* What a tick without deaths does to one cell of the board.
LEMMA BoardAfter ==
  ASSUME NEW lv \in LevelType
  PROVE  /\ \A c \in Cells : Moved(lv).board[c] =
               IF c \in Vacated(lv) THEN "empty"
               ELSE IF c \in Claimed(lv) THEN "snake" ELSE lv.board[c]
         /\ \A p \in Player : Moved(lv).snakes[p] = MovedSnake(lv, p)
         /\ Moved(lv).walls = lv.walls
         /\ Moved(lv).number = lv.number
         /\ Moved(lv).value = lv.value
BY DEF Moved, LevelType

\* No two parts of snakes share a cell after the tick: an old point and a new
\* head do not because the board was free ahead, two new heads do not because
\* both snakes would be dead.
LEMMA MovedDisjoint ==
  ASSUME NEW lv \in LevelType, NEW except, BodiesSound(lv, except),
         Dead(lv) = {}
  PROVE  BodiesDisjoint(Moved(lv), except)
<1> DEFINE new(p) == MovedSnake(lv, p).points
           old(p) == lv.snakes[p].points
           ahead(p) == NextHead(lv.snakes[p])
<1>1. SUFFICES ASSUME NEW p \in Player, NEW q \in Player,
                      NEW i \in DOMAIN new(p), NEW j \in DOMAIN new(q),
                      new(p)[i] = new(q)[j], new(p)[i] \notin except
               PROVE  p = q /\ i = j
  BY BoardAfter DEF BodiesDisjoint
<1>2. \A r \in Player : r \in Player \ Dead(lv)
  OBVIOUS
<1>3. HasHeads(lv)
  BY DEF BodiesSound
<1>4. \A r, t \in Player : r # t => ahead(r) # ahead(t)
  BY DEF Dead
<1>5. \A r, t \in Player : \A k \in DOMAIN old(t) :
        ahead(r) = old(t)[k] => ahead(r) \in except
  BY <1>2, HeadFree DEF Body
<1>6. \A r, t \in Player : \A k \in DOMAIN old(r) : \A m \in DOMAIN old(t) :
        old(r)[k] = old(t)[m] /\ old(r)[k] \notin except => r = t /\ k = m
  BY DEF BodiesSound, BodiesDisjoint
<1>7. i \in Int /\ j \in Int
  <2>1. new(p) \in Seq(Cells) /\ new(q) \in Seq(Cells)
    BY <1>3, MovedSnakeType DEF SnakeType
  <2> QED
    BY <2>1, LenProperties
<1>8. \/ i = Len(new(p)) /\ new(p)[i] = ahead(p)
      \/ i # Len(new(p)) /\ p \in Vacating(lv)
           /\ i + 1 \in DOMAIN old(p) /\ new(p)[i] = old(p)[i + 1]
      \/ i # Len(new(p)) /\ p \notin Vacating(lv)
           /\ i \in DOMAIN old(p) /\ new(p)[i] = old(p)[i]
  BY <1>2, <1>3, PointsAfter
<1>9. \/ j = Len(new(q)) /\ new(q)[j] = ahead(q)
      \/ j # Len(new(q)) /\ q \in Vacating(lv)
           /\ j + 1 \in DOMAIN old(q) /\ new(q)[j] = old(q)[j + 1]
      \/ j # Len(new(q)) /\ q \notin Vacating(lv)
           /\ j \in DOMAIN old(q) /\ new(q)[j] = old(q)[j]
  BY <1>2, <1>3, PointsAfter
<1> HIDE DEF new, old, ahead
<1>10. CASE i = Len(new(p)) /\ new(p)[i] = ahead(p)
  BY <1>1, <1>4, <1>5, <1>9, <1>10
<1>11. CASE j = Len(new(q)) /\ new(q)[j] = ahead(q)
  BY <1>1, <1>4, <1>5, <1>8, <1>11
<1>12. CASE i # Len(new(p)) /\ j # Len(new(q))
  <2>1. PICK k \in DOMAIN old(p) : /\ new(p)[i] = old(p)[k]
                                   /\ k = IF p \in Vacating(lv) THEN i + 1 ELSE i
    BY <1>8, <1>12
  <2>2. PICK m \in DOMAIN old(q) : /\ new(q)[j] = old(q)[m]
                                   /\ m = IF q \in Vacating(lv) THEN j + 1 ELSE j
    BY <1>9, <1>12
  <2>3. p = q /\ k = m
    BY <1>1, <1>6, <2>1, <2>2, ZenonT(40)
  <2> QED
    BY <1>7, <2>1, <2>2, <2>3
<1> QED
  BY <1>8, <1>9, <1>10, <1>11, <1>12

\* The board shows the snakes after the tick.
LEMMA MovedMarked ==
  ASSUME NEW lv \in LevelType, NEW except, BodiesSound(lv, except),
         Dead(lv) = {}
  PROVE  SnakesMarked(Moved(lv), except)
<1> DEFINE new(p) == MovedSnake(lv, p).points
           old(p) == lv.snakes[p].points
           ahead(p) == NextHead(lv.snakes[p])
<1>1. SUFFICES ASSUME NEW c \in Cells \ except
               PROVE  Moved(lv).board[c] = "snake" <=>
                        \E p \in Player : \E i \in DOMAIN new(p) : c = new(p)[i]
  BY BoardAfter DEF SnakesMarked, Body
<1>2. \A r \in Player : r \in Player \ Dead(lv)
  OBVIOUS
<1>3. HasHeads(lv)
  BY DEF BodiesSound
<1>4. lv.board[c] = "snake" <=>
        \E p \in Player : \E k \in DOMAIN old(p) : c = old(p)[k]
  BY DEF BodiesSound, SnakesMarked, Body
<1>5. \A r, u \in Player : \A k \in DOMAIN old(u) :
        ahead(r) = old(u)[k] => ahead(r) \in except
  BY <1>2, HeadFree DEF Body
<1>6. ASSUME Moved(lv).board[c] = "snake"
      PROVE  \E p \in Player : \E i \in DOMAIN new(p) : c = new(p)[i]
  <2>1. c \notin Vacated(lv) /\ (c \in Claimed(lv) \/ lv.board[c] = "snake")
    BY <1>6, BoardAfter
  <2>2. CASE c \in Claimed(lv)
    <3>1. PICK p \in Player : c = ahead(p)
      BY <2>2 DEF Claimed
    <3> QED
      BY <1>2, <1>3, <3>1, PointsKept
  <2>3. CASE lv.board[c] = "snake"
    <3>0. PICK p \in Player : \E k \in DOMAIN old(p) : c = old(p)[k]
      BY <1>4, <2>3
    <3>1. PICK k \in DOMAIN old(p) : c = old(p)[k]
      BY <3>0
    <3>2. ASSUME k = 1, p \in Vacating(lv) PROVE FALSE
      <4>1. Head(Extended(lv, p)) = old(p)[1]
        BY <1>2, <1>3, <3>2, MovedPoints
      <4> QED
        BY <2>1, <3>1, <3>2, <4>1 DEF Vacated
    <3> QED
      BY <1>2, <1>3, <3>1, <3>2, PointsKept
  <2> QED
    BY <2>1, <2>2, <2>3
<1>7. ASSUME NEW p \in Player, NEW i \in DOMAIN new(p), c = new(p)[i]
      PROVE  Moved(lv).board[c] = "snake"
  <2>1. \/ c = ahead(p)
        \/ \E k \in DOMAIN old(p) : /\ c = old(p)[k]
                                    /\ p \in Vacating(lv) => k = i + 1
    BY <1>2, <1>3, <1>7, PointsAfter
  <2>2. i >= 1 /\ i \in Int
    <3>1. new(p) \in Seq(Cells)
      BY <1>3, MovedSnakeType DEF SnakeType
    <3> QED
      BY <3>1, LenProperties
  <2>3. ASSUME c \in Vacated(lv) PROVE FALSE
    <3>1. PICK q \in Vacating(lv) : c = old(q)[1]
      BY <2>3, VacatedIsTail
    <3>2. q \in Player /\ 1 \in DOMAIN old(q)
      <4>1. q \in Player
        BY DEF Vacating
      <4>2. /\ old(q) \in Seq(Cells)
            /\ Len(old(q)) \in Nat \ {0}
        BY <1>3, <4>1, SnakeFacts
      <4> QED
        BY <4>1, <4>2, LenProperties
    <3>3. CASE c = ahead(p)
      BY <1>1, <1>5, <3>1, <3>2, <3>3
    <3>4. ASSUME NEW k \in DOMAIN old(p), c = old(p)[k],
                 p \in Vacating(lv) => k = i + 1
          PROVE  FALSE
      <4>1. p = q /\ k = 1
        BY <3>1, <3>2, <3>4 DEF BodiesSound, BodiesDisjoint
      <4> QED
        BY <2>2, <3>4, <4>1
    <3>5. CASE c # ahead(p)
      <4> HIDE DEF old, ahead
      <4>1. PICK k \in DOMAIN old(p) : /\ c = old(p)[k]
                                       /\ p \in Vacating(lv) => k = i + 1
        BY <2>1, <3>5
      <4> QED
        BY <3>4, <4>1
    <3> QED
      BY <3>3, <3>5
  <2>4. c = ahead(p) => c \in Claimed(lv)
    BY <1>2 DEF Claimed
  <2>5. ASSUME c # ahead(p) PROVE lv.board[c] = "snake"
    <3> HIDE DEF old, ahead
    <3>1. PICK k \in DOMAIN old(p) : c = old(p)[k]
      BY <2>1, <2>5
    <3> QED
      BY <1>4, <3>1
  <2> QED
    BY <2>3, <2>4, <2>5, BoardAfter
<1> QED
  BY <1>6, <1>7

\* A tick without deaths leaves the bodies, the walls and their marks sound.
LEMMA MovedSound ==
  ASSUME NEW lv \in LevelType, NEW except, BodiesSound(lv, except),
         Dead(lv) = {}
  PROVE  BodiesSound(Moved(lv), except)
<1>1. HasHeads(Moved(lv))
  <2>1. ASSUME NEW p \in Player PROVE Moved(lv).snakes[p].points # << >>
    BY MovedPoints, BoardAfter DEF BodiesSound
  <2> QED
    BY <2>1 DEF HasHeads
<1>2. WallsMarked(Moved(lv), except)
  <2>1. SUFFICES ASSUME NEW c \in Cells \ except
                 PROVE  Moved(lv).board[c] = "wall" <=> lv.board[c] = "wall"
    BY BoardAfter DEF WallsMarked, BodiesSound
  <2>2. c \in Vacated(lv) => lv.board[c] = "snake"
    BY VacatedIsTail
  <2>3. c \in Claimed(lv) => lv.board[c] # "wall"
    BY DEF Claimed, Dead
  <2> QED
    BY <2>2, <2>3, BoardAfter
<1> QED
  BY <1>1, <1>2, MovedDisjoint, MovedMarked DEF BodiesSound

\* The number is where it was after such a tick, unless somebody ate of it.
LEMMA MovedNumber ==
  ASSUME NEW lv \in LevelType, NEW except, BodiesSound(lv, except),
         Dead(lv) = {}, NumberMarked(lv, except)
  PROVE  /\ NumberWithin(Moved(lv), except)
         /\ Eaters(lv) = {} => NumberMarked(Moved(lv), except)
<1>1. ASSUME NEW c \in Cells \ except
      PROVE  /\ Moved(lv).board[c] = "number" => lv.board[c] = "number"
             /\ Eaters(lv) = {} /\ lv.board[c] = "number"
                  => Moved(lv).board[c] = "number"
  <2>1. c \in Vacated(lv) => lv.board[c] = "snake"
    BY VacatedIsTail
  <2>2. Eaters(lv) = {} /\ c \in Claimed(lv) => lv.board[c] # "number"
    BY DEF Claimed, Eaters
  <2> QED
    BY <2>1, <2>2, BoardAfter
<1> QED
  BY <1>1, BoardAfter DEF NumberWithin, NumberMarked

\* Placing a number on free cells completes a level whose bodies are sound.
LEMMA WithNumberSound ==
  ASSUME NEW lv \in LevelType, NEW except, BodiesSound(lv, except),
         NumberWithin(lv, except), NEW blk \in FreeBlocks(lv), NEW val
  PROVE  /\ BodiesSound(WithNumber(lv, blk, val), except)
         /\ NumberMarked(WithNumber(lv, blk, val), except)
<1> DEFINE to == WithNumber(lv, blk, val)
<1>1. /\ to.snakes = lv.snakes
      /\ to.walls = lv.walls
      /\ to.number = blk
      /\ \A c \in Cells :
           to.board[c] = IF c \in blk THEN "number"
                         ELSE IF c \in lv.number /\ lv.board[c] = "number"
                              THEN "empty" ELSE lv.board[c]
  BY DEF WithNumber, LevelType
<1>2. \A c \in blk : lv.board[c] = "empty"
  BY DEF FreeBlocks
<1> HIDE DEF to
<1>3. \A c \in Cells : /\ to.board[c] = "snake" <=> lv.board[c] = "snake"
                       /\ to.board[c] = "wall" <=> lv.board[c] = "wall"
  BY <1>1, <1>2
<1>4. BodiesSound(to, except)
  <2>1. HasHeads(to) /\ BodiesDisjoint(to, except)
    BY <1>1 DEF BodiesSound, HasHeads, BodiesDisjoint
  <2>2. SnakesMarked(to, except) /\ WallsMarked(to, except)
    BY <1>1, <1>3 DEF BodiesSound, SnakesMarked, WallsMarked, Body
  <2> QED
    BY <2>1, <2>2 DEF BodiesSound
<1>5. NumberMarked(to, except)
  BY <1>1, <1>2 DEF NumberMarked, NumberWithin
<1> QED
  BY <1>4, <1>5 DEF to

\* A level from its constructor is sound but for the starts of its snakes.
LEMMA NewLevelSound ==
  ASSUME NEW walls \in SUBSET Cells, NEW starts, NEW except,
         \A p \in Player : starts[p] \in [point : Cells, direction : Direction],
         \A p \in Player : starts[p].point \in except
  PROVE  /\ BodiesSound(NewLevel(walls, starts), except)
         /\ NumberMarked(NewLevel(walls, starts), except)
<1> DEFINE lv == NewLevel(walls, starts)
<1>1. /\ \A p \in Player : lv.snakes[p].points = << starts[p].point >>
      /\ lv.number = {}
      /\ lv.walls = walls
      /\ lv.board = InitialBoard(walls)
  BY DEF NewLevel, NewSnake
<1> HIDE DEF lv
<1>2. \A p \in Player : /\ DOMAIN lv.snakes[p].points = {1}
                        /\ lv.snakes[p].points[1] = starts[p].point
                        /\ lv.snakes[p].points # << >>
  BY <1>1
<1>3. HasHeads(lv) /\ BodiesDisjoint(lv, except)
  BY <1>2 DEF HasHeads, BodiesDisjoint
<1>4. \A c \in Cells : lv.board[c] \in {"wall", "empty"}
                     /\ (lv.board[c] = "wall" <=> c \in Border \cup lv.walls)
  BY <1>1 DEF InitialBoard
<1>5. SnakesMarked(lv, except)
  BY <1>2, <1>4 DEF SnakesMarked, Body
<1>6. WallsMarked(lv, except) /\ NumberMarked(lv, except)
  BY <1>1, <1>4 DEF WallsMarked, NumberMarked
<1> QED
  BY <1>3, <1>5, <1>6 DEF BodiesSound, lv

\* Soundness does not look at directions.
LEMMA TurnedSound ==
  ASSUME NEW lv \in LevelType, NEW mv \in Moves, NEW except
  PROVE  /\ BodiesSound(lv, except) => BodiesSound(Turned(lv, mv), except)
         /\ NumberMarked(lv, except) => NumberMarked(Turned(lv, mv), except)
BY TurnedType DEF BodiesSound, HasHeads, BodiesDisjoint, SnakesMarked,
   WallsMarked, Body, NumberMarked

-----------------------------------------------------------------------------
(* The games. *)

\* None of the four properties of the board is inductive alone: a head stays out
\* of the bodies because they are marked, the marks stay because the bodies are
\* disjoint, and a number or a wall is not claimed because of both.
Sound == status = "playing" => /\ BodiesSound(level, StartCells)
                               /\ NumberMarked(level, StartCells)

IInv == TypeOK /\ Sound

-----------------------------------------------------------------------------
(* The pack. *)

LEMMA CappedInPack ==
  ASSUME NEW id \in Nat \ {0}
  PROVE  Capped(id) \in DOMAIN LevelDefs
<1>1. Len(LevelDefs) \in Nat \ {0} /\ DOMAIN LevelDefs = 1 .. Len(LevelDefs)
  BY GameAssumption, EmptySeq, LenProperties
<1> QED
  BY <1>1 DEF Capped

\* Every player of the game has a start on every level.
LEMMA PackFacts ==
  ASSUME NEW id \in DOMAIN LevelDefs
  PROVE  /\ id \in Nat \ {0}
         /\ LevelDefs[id].walls \in SUBSET Cells
         /\ LevelDefs[id].random \in SUBSET Cells
         /\ \A p \in Player : LevelDefs[id].starts[p]
                                \in [point : Cells, direction : Direction]
<1>1. id \in 1 .. Len(LevelDefs) /\ Len(LevelDefs) \in Nat
  BY GameAssumption, LenProperties
<1>2. LevelDefs[id] \in LevelDefType
  BY <1>1, GameAssumption, ElementOfSeq
<1>3. LevelDefs[id].starts \in Seq([point : Cells, direction : Direction])
  BY <1>2 DEF LevelDefType
<1>4. \A p \in Player : p \in 1 .. Len(LevelDefs[id].starts)
  <2>1. Len(LevelDefs[id].starts) >= NumPlayers
    BY GameAssumption
  <2>2. Len(LevelDefs[id].starts) \in Nat
    BY <1>3, LenProperties
  <2> QED
    BY <2>1, <2>2, LevelAssumption DEF Player
<1>5. \A p \in Player : LevelDefs[id].starts[p]
                          \in [point : Cells, direction : Direction]
  BY <1>3, <1>4, ElementOfSeq
<1> QED
  BY <1>1, <1>2, <1>5 DEF LevelDefType

-----------------------------------------------------------------------------
(* The operations the actions are made of. *)

\* Placing a number in a sound level, or looking for a place in vain.
LEMMA RandomNumberKeeps ==
  ASSUME NEW lv \in LevelType, NEW except, BodiesSound(lv, except),
         NumberWithin(lv, except), NEW val \in 0 .. LastNumber,
         RandomNumber(lv, val)
  PROVE  /\ level' \in LevelType
         /\ status' \in {"playing", "stuck"}
         /\ status' = "playing" => /\ BodiesSound(level', except)
                                   /\ NumberMarked(level', except)
<1>1. CASE \E blk \in FreeBlocks(lv) :
             level' = WithNumber(lv, blk, val) /\ status' = "playing"
  <2>1. PICK blk \in FreeBlocks(lv) :
          level' = WithNumber(lv, blk, val) /\ status' = "playing"
    BY <1>1
  <2>2. blk \in NumberBlocks
    BY DEF FreeBlocks
  <2> QED
    BY <2>1, <2>2, WithNumberType, WithNumberSound
<1>2. CASE level' = lv /\ status' = "stuck"
  BY <1>2
<1> QED
  BY <1>1, <1>2 DEF RandomNumber

\* A new level is sound, whichever of its random cells became walls.
LEMMA BeginLevelKeeps ==
  ASSUME NEW id \in DOMAIN LevelDefs, BeginLevel(id)
  PROVE  /\ levelId' \in DOMAIN LevelDefs
         /\ level' \in LevelType
         /\ status' \in Status
         /\ Sound'
<1> DEFINE starts == LevelDefs[id].starts
           except == {starts[p].point : p \in Player}
<1>1. PICK extra \in SUBSET LevelDefs[id].random :
        RandomNumber(NewLevel(LevelDefs[id].walls \cup extra, starts), 1)
  BY DEF BeginLevel
<1> DEFINE lv == NewLevel(LevelDefs[id].walls \cup extra, starts)
<1>2. LevelDefs[id].walls \cup extra \in SUBSET Cells
  BY PackFacts
<1>3. \A p \in Player : /\ starts[p] \in [point : Cells, direction : Direction]
                        /\ starts[p].point \in except
  BY PackFacts
<1>4. lv \in LevelType /\ BodiesSound(lv, except) /\ NumberMarked(lv, except)
  BY <1>2, <1>3, NewLevelType, NewLevelSound
<1>5. NumberWithin(lv, except)
  BY <1>4 DEF NumberMarked, NumberWithin
<1>6. 1 \in 0 .. LastNumber
  BY LevelAssumption
<1>7. levelId' = id
  BY DEF BeginLevel
<1>8. StartCells' = except
  BY <1>7 DEF StartCells
<1>9. RandomNumber(lv, 1)
  BY <1>1
<1> HIDE DEF lv, except
<1>10. /\ level' \in LevelType
       /\ status' \in {"playing", "stuck"}
       /\ status' = "playing" => /\ BodiesSound(level', except)
                                 /\ NumberMarked(level', except)
  BY <1>4, <1>5, <1>6, <1>9, RandomNumberKeeps
<1> QED
  BY <1>7, <1>8, <1>10 DEF Sound, Status

-----------------------------------------------------------------------------
(* The invariant. *)

LEMMA InitIInv == Init => IInv
<1> SUFFICES ASSUME Init PROVE IInv
  OBVIOUS
<1>1. levelId \in DOMAIN LevelDefs
  BY GameAssumption, CappedInPack DEF Init
<1>2. level \in LevelType
  <2>1. [points |-> << >>, direction |-> "up", pending |-> 0] \in SnakeType
    BY EmptySeq DEF SnakeType, Direction
  <2>2. InitialBoard({}) \in [Cells -> BoardState]
    BY InitialBoardType
  <2> QED
    BY <2>1, <2>2, LevelAssumption DEF Init, NoLevel, LevelType
<1>3. lives \in [Player -> Nat]
  BY GameAssumption DEF Init
<1> QED
  BY <1>1, <1>2, <1>3 DEF Init, IInv, TypeOK, Sound, Status

\* What deaths leave of the lives.
LEMMA DyingType ==
  ASSUME TypeOK, NEW lv, Dying(lv)
  PROVE  lives' \in [Player -> Nat]
<1>1. \A p \in Player : Deducted(lv)[p] \in Nat
  BY DEF TypeOK, Dying, Deducted
<1> QED
  BY <1>1 DEF Dying, Deducted

LEMMA StartKeeps == ASSUME IInv, Start PROVE IInv'
BY BeginLevelKeeps DEF IInv, TypeOK, Start

LEMMA TickKeeps ==
  ASSUME IInv, NEW mv \in Moves, Tick(mv)
  PROVE  IInv'
<1> DEFINE lv == Turned(level, mv)
<1>1. /\ lv \in LevelType
      /\ BodiesSound(lv, StartCells)
      /\ NumberMarked(lv, StartCells)
      /\ lv.value = level.value
  BY TurnedType, TurnedSound DEF IInv, TypeOK, Sound, Tick
<1>2. \/ Abort(lv) \/ GameOver(lv) \/ LoseLife(lv)
      \/ Advance(lv) \/ EatNumber(lv) \/ Move(lv)
  BY DEF Tick
<1> HIDE DEF lv
<1>3. Moved(lv) \in LevelType
  BY <1>1, MovedType DEF BodiesSound
<1>4. status = "playing" /\ TypeOK
  BY DEF IInv, Tick
<1>5. CASE Abort(lv)
  BY <1>4, <1>5 DEF Abort, IInv, TypeOK, Sound, Status
<1>6. CASE GameOver(lv)
  <2>1. lives' \in [Player -> Nat]
    BY <1>4, <1>6, DyingType DEF GameOver
  <2> QED
    BY <1>3, <1>4, <1>6, <2>1 DEF GameOver, IInv, TypeOK, Sound, Status
<1>7. CASE LoseLife(lv)
  <2>1. lives' \in [Player -> Nat]
    BY <1>4, <1>7, DyingType DEF LoseLife
  <2> QED
    BY <1>4, <1>7, <2>1, BeginLevelKeeps DEF LoseLife, IInv, TypeOK
<1>8. CASE Advance(lv)
  <2>1. Capped(levelId + 1) \in DOMAIN LevelDefs
    BY <1>4, PackFacts, CappedInPack DEF TypeOK
  <2> QED
    BY <1>4, <1>8, <2>1, BeginLevelKeeps DEF Advance, IInv, TypeOK
<1>9. CASE EatNumber(lv)
  <2>1. lv.value + 1 \in 0 .. LastNumber
    BY <1>1, <1>9, LevelAssumption DEF EatNumber, LevelType
  <2>2. BodiesSound(Moved(lv), StartCells) /\ NumberWithin(Moved(lv), StartCells)
    BY <1>1, <1>9, MovedSound, MovedNumber DEF EatNumber
  <2>3. RandomNumber(Moved(lv), lv.value + 1) /\ levelId' = levelId /\ lives' = lives
    BY <1>9 DEF EatNumber
  <2>4. /\ level' \in LevelType
        /\ status' \in {"playing", "stuck"}
        /\ status' = "playing" => /\ BodiesSound(level', StartCells)
                                  /\ NumberMarked(level', StartCells)
    BY <1>3, <2>1, <2>2, <2>3, RandomNumberKeeps
  <2>5. StartCells' = StartCells
    BY <2>3 DEF StartCells
  <2> QED
    BY <1>4, <2>3, <2>4, <2>5 DEF IInv, TypeOK, Sound, Status
<1>10. CASE Move(lv)
  <2>1. BodiesSound(Moved(lv), StartCells) /\ NumberMarked(Moved(lv), StartCells)
    BY <1>1, <1>10, MovedSound, MovedNumber DEF Move
  <2>2. StartCells' = StartCells
    BY <1>10 DEF StartCells, Move
  <2> QED
    BY <1>3, <1>4, <1>10, <2>1, <2>2 DEF Move, IInv, TypeOK, Sound
<1> QED
  BY <1>2, <1>5, <1>6, <1>7, <1>8, <1>9, <1>10

LEMMA NextIInv == IInv /\ [Next]_vars => IInv'
<1> SUFFICES ASSUME IInv, [Next]_vars PROVE IInv'
  OBVIOUS
<1>1. CASE Start
  BY <1>1, StartKeeps
<1>2. ASSUME NEW mv \in Moves, Tick(mv) PROVE IInv'
  BY <1>2, TickKeeps
<1>3. CASE UNCHANGED vars
  BY <1>3 DEF vars, IInv, TypeOK, Sound, StartCells
<1> QED
  BY <1>1, <1>2, <1>3 DEF Next

-----------------------------------------------------------------------------

\* The strengthened invariant holds of every game.
THEOREM Invariance == Spec => []IInv
BY InitIInv, NextIInv, PTL DEF Spec

\* Type correctness: among others, lives are never negative, the number is never
\* past the last one and the level never past the pack.
THEOREM TypeCorrect == Spec => []TypeOK
<1>1. IInv => TypeOK
  BY DEF IInv
<1> QED
  BY <1>1, Invariance, PTL

\* The board a collision is decided on shows the snakes where they are.
THEOREM BoardIsRight == Spec => []BoardShowsSnakes
<1>1. IInv => BoardShowsSnakes
  BY DEF IInv, Sound, BodiesSound, BoardShowsSnakes
<1> QED
  BY <1>1, Invariance, PTL

\* No two parts of snakes are ever in one cell that is not a start.
THEOREM SnakesApart == Spec => []NoOverlap
<1>1. IInv => NoOverlap
  BY DEF IInv, Sound, BodiesSound, NoOverlap
<1> QED
  BY <1>1, Invariance, PTL

\* The walls of a level stay up.
THEOREM WallsStay == Spec => []WallsStand
<1>1. IInv => WallsStand
  BY DEF IInv, Sound, BodiesSound, WallsStand
<1> QED
  BY <1>1, Invariance, PTL

\* The number is on the board, whole and alone.
THEOREM NumberStays == Spec => []NumberShown
<1>1. IInv => NumberShown
  BY DEF IInv, Sound, NumberShown
<1> QED
  BY <1>1, Invariance, PTL

\* So the board a collision, a meal and a number are decided on is always the level.
THEOREM BoardStaysFaithful == Spec => []BoardFaithful
<1>1. BoardShowsSnakes /\ NoOverlap /\ WallsStand /\ NumberShown => BoardFaithful
  BY DEF BoardFaithful
<1> QED
  BY <1>1, BoardIsRight, SnakesApart, WallsStay, NumberStays, PTL

-----------------------------------------------------------------------------
(* Snakes are connected, and cannot turn back on themselves. *)

\* On a board with a field inside its frame, two steps that are not there and
\* back lead elsewhere, whatever edge they cross.
LEMMA StepsAway ==
  ASSUME Width >= 3, Height >= 3, NEW c \in Cells, NEW d \in Direction, NEW e \in Direction,
         e # Opposite(d)
  PROVE  Adjacent(Adjacent(c, d), e) # c
<1>1. Width \in Nat /\ Height \in Nat
  BY GridAssumption
<1>2. PICK x \in 0 .. Width - 1, y \in 0 .. Height - 1 : c = << x, y >>
  BY DEF Cells
<1>3. CASE d = "up"
  BY <1>1, <1>2, <1>3, SMTT(20) DEF Adjacent, Opposite, Direction
<1>4. CASE d = "down"
  BY <1>1, <1>2, <1>4, SMTT(20) DEF Adjacent, Opposite, Direction
<1>5. CASE d = "left"
  BY <1>1, <1>2, <1>5, SMTT(20) DEF Adjacent, Opposite, Direction
<1>6. CASE d = "right"
  BY <1>1, <1>2, <1>6, SMTT(20) DEF Adjacent, Opposite, Direction
<1> QED
  BY <1>3, <1>4, <1>5, <1>6 DEF Direction

\* The snake's head is where its last step took it.
Heading(snake) ==
  Len(snake.points) >= 2 =>
    snake.points[Len(snake.points)] =
      Adjacent(snake.points[Len(snake.points) - 1], snake.direction)

Connected(lv) == \A p \in Player : IsLine(lv.snakes[p]) /\ Heading(lv.snakes[p])

\* Snake::turn refuses a reversal.
LEMMA TurnAhead ==
  ASSUME NEW snake \in SnakeType, NEW d \in Direction
  PROVE  /\ Turn(snake, d).points = snake.points
         /\ Turn(snake, d).direction \in Direction
         /\ Turn(snake, d).direction # Opposite(snake.direction)
<1>1. snake.direction \in Direction
  BY DEF SnakeType
<1>2. Opposite(snake.direction) # snake.direction
  BY <1>1 DEF Opposite, Direction
<1>3. CASE SameAxis(snake.direction, d)
  BY <1>1, <1>2, <1>3 DEF Turn
<1>4. CASE ~SameAxis(snake.direction, d)
  <2>1. d # Opposite(snake.direction)
    BY <1>4 DEF SameAxis
  <2>2. Turn(snake, d) = [snake EXCEPT !.direction = d]
    BY <1>4 DEF Turn
  <2> QED
    BY <2>1, <2>2 DEF SnakeType
<1> QED
  BY <1>3, <1>4

LEMMA NeckStaysClear ==
  ASSUME Width >= 3, Height >= 3, NEW snake \in SnakeType, Heading(snake)
  PROVE  NeckClear(snake)
<1> SUFFICES ASSUME Len(snake.points) >= 2, NEW d \in Direction
             PROVE  NextHead(Turn(snake, d)) # snake.points[Len(snake.points) - 1]
  BY DEF NeckClear
<1> DEFINE n == Len(snake.points)
           neck == snake.points[n - 1]
           e == Turn(snake, d).direction
<1>1. snake.points \in Seq(Cells) /\ n \in Nat /\ snake.direction \in Direction
  BY DEF SnakeType
<1>2. n - 1 \in 1 .. n
  BY <1>1
<1>3. neck \in Cells
  <2> HIDE DEF n
  <2>1. n = Len(snake.points)
    BY DEF n
  <2> QED
    BY <1>1, <1>2, <2>1, ElementOfSeq
<1>4. snake.points[n] = Adjacent(neck, snake.direction)
  BY DEF Heading
<1>5. /\ Turn(snake, d).points = snake.points /\ e \in Direction /\ e # Opposite(snake.direction)
  BY TurnAhead
<1>6. NextHead(Turn(snake, d)) = Adjacent(snake.points[n], e)
  BY <1>5 DEF NextHead, HeadOf
<1> HIDE DEF n, neck, e
<1>7. Adjacent(Adjacent(neck, snake.direction), e) # neck
  BY <1>1, <1>3, <1>5, StepsAway
<1> QED
  BY <1>4, <1>6, <1>7 DEF n, neck

\* A step that nobody dies of keeps the lines, whatever the turns before it.
LEMMA MovedConnected ==
  ASSUME NEW old \in LevelType, NEW mv \in Moves, HasHeads(old), Connected(old),
         Dead(Turned(old, mv)) = {}
  PROVE  Connected(Moved(Turned(old, mv)))
<1> DEFINE lv == Turned(old, mv)
<1>1. lv \in LevelType /\ \A p \in Player : lv.snakes[p].points = old.snakes[p].points
  BY TurnedType
<1>2. HasHeads(lv) /\ Dead(lv) = {}
  BY <1>1 DEF HasHeads
<1> HIDE DEF lv
<1> SUFFICES ASSUME NEW p \in Player
             PROVE  IsLine(MovedSnake(lv, p)) /\ Heading(MovedSnake(lv, p))
  BY <1>1, BoardAfter DEF Connected, lv
<1> DEFINE P == lv.snakes[p].points
           n == Len(P)
           d == lv.snakes[p].direction
           new == MovedSnake(lv, p).points
           Step(a, b) == \E e \in Direction : b = Adjacent(a, e)
<1>3. /\ n \in Nat /\ n # 0 /\ d \in Direction
  BY <1>1, <1>2, SnakeFacts
<1>4. NextHead(lv.snakes[p]) = Adjacent(P[n], d) /\ MovedSnake(lv, p).direction = d
  BY DEF NextHead, HeadOf, MovedSnake
<1>5. \A i \in 1 .. n - 1 : Step(P[i], P[i + 1])
  BY <1>1 DEF Connected, IsLine
<1>6. /\ p \in Vacating(lv) => /\ Len(new) = n
                               /\ \A i \in 1 .. n : new[i] = IF i = n THEN Adjacent(P[n], d) ELSE P[i + 1]
      /\ p \notin Vacating(lv) => /\ Len(new) = n + 1
                                  /\ \A i \in 1 .. n + 1 : new[i] = IF i = n + 1 THEN Adjacent(P[n], d) ELSE P[i]
  BY <1>1, <1>2, <1>4, MovedPoints
<1> HIDE DEF P, n, d, new
<1>7. Step(P[n], Adjacent(P[n], d))
  BY <1>3
<1> HIDE DEF Step
<1>8. CASE p \in Vacating(lv)
  <2>1. ASSUME NEW i \in 1 .. Len(new) - 1
        PROVE  Step(new[i], new[i + 1])
    <3>1. /\ i \in 1 .. n /\ i # n /\ i + 1 \in 1 .. n /\ Len(new) = n
      BY <1>3, <1>6, <1>8
    <3>2. new[i] = P[i + 1]
      BY <1>6, <1>8, <3>1
    <3>3. CASE i + 1 = n
      BY <1>6, <1>7, <1>8, <3>1, <3>2, <3>3
    <3>4. CASE i + 1 # n
      <4>1. new[i + 1] = P[(i + 1) + 1]
        BY <1>6, <1>8, <3>1, <3>4
      <4>2. i + 1 \in 1 .. n - 1
        BY <1>3, <3>1, <3>4
      <4> QED
        BY <1>5, <3>2, <4>1, <4>2
    <3> QED
      BY <3>3, <3>4
  <2>2. ASSUME Len(new) >= 2
        PROVE  new[Len(new)] = Adjacent(new[Len(new) - 1], d)
    <3>1. n \in 1 .. n /\ n - 1 \in 1 .. n /\ n - 1 # n /\ (n - 1) + 1 = n /\ Len(new) = n
      BY <1>3, <1>6, <1>8, <2>2
    <3>2. new[n] = Adjacent(P[n], d) /\ new[n - 1] = P[(n - 1) + 1]
      BY <1>6, <1>8, <3>1
    <3> QED
      BY <3>1, <3>2
  <2> QED
    BY <1>4, <2>1, <2>2 DEF IsLine, Heading, Step, new
<1>9. CASE p \notin Vacating(lv)
  <2>1. ASSUME NEW i \in 1 .. Len(new) - 1
        PROVE  Step(new[i], new[i + 1])
    <3>1. /\ i \in 1 .. n /\ i \in 1 .. n + 1 /\ i # n + 1 /\ i + 1 \in 1 .. n + 1
      BY <1>3, <1>6, <1>9
    <3>2. new[i] = P[i]
      BY <1>6, <1>9, <3>1
    <3>3. CASE i = n
      BY <1>6, <1>7, <1>9, <3>1, <3>2, <3>3
    <3>4. CASE i # n
      <4>1. i + 1 # n + 1 /\ i \in 1 .. n - 1
        BY <1>3, <3>1, <3>4
      <4>2. new[i + 1] = P[i + 1]
        BY <1>6, <1>9, <3>1, <4>1
      <4> QED
        BY <1>5, <3>2, <4>1, <4>2
    <3> QED
      BY <3>3, <3>4
  <2>2. new[Len(new)] = Adjacent(new[Len(new) - 1], d)
    <3>1. n + 1 \in 1 .. n + 1 /\ n \in 1 .. n + 1 /\ n # n + 1 /\ (n + 1) - 1 = n
      BY <1>3
    <3>2. new[n + 1] = Adjacent(P[n], d) /\ new[n] = P[n] /\ Len(new) = n + 1
      BY <1>6, <1>9, <3>1
    <3> QED
      BY <3>1, <3>2
  <2> QED
    BY <1>4, <2>1, <2>2 DEF IsLine, Heading, Step, new
<1> QED
  BY <1>8, <1>9

-----------------------------------------------------------------------------
(* Sums over the players.  FoldFunction is defined by recursion on sets;    *)
(* counting up to the size of a set makes up for induction on it.           *)

LEMMA Ascent ==
  ASSUME NEW n \in Nat, NEW T, 0 \in T, \A m \in 0 .. n - 1 : m \in T => m + 1 \in T
  PROVE  n \in T
<1> SUFFICES ASSUME n \notin T
             PROVE  FALSE
  OBVIOUS
<1> DEFINE W == {m \in 0 .. n : m \notin T}
           f == [m \in W |-> m - 1]
<1>1. IsFiniteSet(W) /\ Cardinality(W) \in Nat
  <2>1. IsFiniteSet(0 .. n) /\ W \in SUBSET (0 .. n)
    BY FS_Interval
  <2> QED
    BY <2>1, FS_Subset, FS_CardinalityType
<1>2. n \in W
  OBVIOUS
<1>3. ASSUME NEW m \in W
      PROVE  m \in Nat /\ m - 1 \in W \ {n}
  <2>1. m \in 0 .. n /\ m \notin T /\ m # 0
    OBVIOUS
  <2>2. m - 1 \in 0 .. n - 1 /\ (m - 1) + 1 = m
    BY <2>1
  <2>3. m - 1 \notin T
    BY <2>1, <2>2
  <2> QED
    BY <2>2, <2>3
<1> HIDE DEF W
<1>4. f \in Injection(W, W \ {n})
  <2>1. f \in [W -> W \ {n}]
    BY <1>3
  <2>2. \A x, y \in W : f[x] = f[y] => x = y
    BY <1>3
  <2> QED
    BY <2>1, <2>2 DEF Injection, IsInjective
<1>5. IsFiniteSet(W \ {n}) /\ Cardinality(W \ {n}) = Cardinality(W) - 1
  BY <1>1, <1>2, FS_RemoveElement
<1> HIDE DEF f
<1>6. Cardinality(W) <= Cardinality(W \ {n})
  BY <1>4, <1>5, FS_Injection
<1> QED
  BY <1>1, <1>5, <1>6

Added(iter, f, s) == IF s = {} THEN 0 ELSE LET x == CHOOSE x \in s : TRUE IN f[x] + iter[s \ {x}]

\* The sets of at most m players.
Teams(m) == {s \in SUBSET Player : Cardinality(s) <= m}

Sums(iter, f, m) == iter = [s \in Teams(m) |-> Added(iter, f, s)]

LEMMA TeamFacts ==
  /\ NumPlayers \in Nat /\ IsFiniteSet(Player) /\ Teams(NumPlayers) = SUBSET Player
  /\ Teams(0) = {{}}
  /\ \A m \in Nat : Teams(m) \subseteq Teams(m + 1)
  /\ \A m \in Nat : \A s \in Teams(m + 1) : \A x \in s : s \ {x} \in Teams(m)
<1>1. NumPlayers \in Nat /\ IsFiniteSet(Player) /\ Cardinality(Player) = NumPlayers
  BY LevelAssumption, FS_Interval DEF Player
<1>2. \A s \in SUBSET Player : IsFiniteSet(s) /\ Cardinality(s) \in Nat /\ Cardinality(s) <= NumPlayers
  BY <1>1, FS_Subset, FS_CardinalityType
<1>3. Teams(NumPlayers) = SUBSET Player
  BY <1>2 DEF Teams
<1>4. Teams(0) = {{}}
  <2>1. \A s \in SUBSET Player : Cardinality(s) <= 0 <=> s = {}
    BY <1>2, FS_EmptySet
  <2> QED
    BY <2>1, FS_EmptySet DEF Teams
<1>5. \A m \in Nat : Teams(m) \subseteq Teams(m + 1)
  BY <1>2 DEF Teams
<1>6. ASSUME NEW m \in Nat, NEW s \in Teams(m + 1), NEW x \in s
      PROVE  s \ {x} \in Teams(m)
  <2>1. s \in SUBSET Player /\ Cardinality(s) <= m + 1 /\ IsFiniteSet(s) /\ Cardinality(s) \in Nat
    BY <1>2 DEF Teams
  <2>2. Cardinality(s \ {x}) = Cardinality(s) - 1
    BY <2>1, FS_RemoveElement
  <2> QED
    BY <2>1, <2>2 DEF Teams
<1> QED
  BY <1>1, <1>3, <1>4, <1>5, <1>6

LEMMA SumExists ==
  ASSUME NEW f
  PROVE  \E iter : Sums(iter, f, NumPlayers)
<1> DEFINE T == {m \in Nat : \E iter : Sums(iter, f, m)}
<1>1. 0 \in T
  <2> DEFINE g == [s \in Teams(0) |-> 0]
  <2>1. \A s \in Teams(0) : Added(g, f, s) = 0
    BY TeamFacts DEF Added
  <2>2. Sums(g, f, 0)
    BY <2>1 DEF Sums
  <2> QED
    BY <2>2
<1>2. ASSUME NEW m \in 0 .. NumPlayers - 1, m \in T
      PROVE  m + 1 \in T
  <2>1. m \in Nat
    BY TeamFacts
  <2>2. PICK h : Sums(h, f, m)
    BY <1>2
  <2> DEFINE g == [s \in Teams(m + 1) |-> Added(h, f, s)]
  <2>3. \A s \in Teams(m) : s \in Teams(m + 1) /\ g[s] = h[s]
    BY <2>1, <2>2, TeamFacts DEF Sums
  <2> HIDE DEF g
  <2>4. ASSUME NEW s \in Teams(m + 1)
        PROVE  Added(g, f, s) = Added(h, f, s)
    <3>1. CASE s = {}
      BY <3>1 DEF Added
    <3>2. CASE s # {}
      <4> DEFINE x == CHOOSE x \in s : TRUE
      <4>1. x \in s
        BY <3>2
      <4>2. s \ {x} \in Teams(m)
        BY <2>1, <4>1, TeamFacts
      <4> QED
        BY <2>3, <3>2, <4>2 DEF Added
    <3> QED
      BY <3>1, <3>2
  <2>5. Sums(g, f, m + 1)
    BY <2>4 DEF Sums, g
  <2> QED
    BY <2>1, <2>5
<1> HIDE DEF T
<1>3. NumPlayers \in T
  BY <1>1, <1>2, TeamFacts, Ascent
<1> QED
  BY <1>3 DEF T

LEMMA SumIs ==
  ASSUME NEW f, DOMAIN f = Player
  PROVE  \E iter : Sums(iter, f, NumPlayers) /\ FoldFunction(+, 0, f) = iter[Player]
<1> DEFINE F == CHOOSE iter : iter = [s \in SUBSET Player |-> Added(iter, f, s)]
<1>1. \E iter : iter = [s \in SUBSET Player |-> Added(iter, f, s)]
  <2>1. PICK g : Sums(g, f, NumPlayers)
    BY SumExists, Zenon
  <2>2. g = [s \in SUBSET Player |-> Added(g, f, s)]
    BY <2>1, TeamFacts, Zenon DEF Sums
  <2> QED
    BY <2>2, Zenon
<1>2. F = [s \in SUBSET Player |-> Added(F, f, s)]
  BY <1>1, Zenon
<1>3. FoldFunction(+, 0, f) = F[Player]
  BY DEF FoldFunction, FoldFunctionOnSet, MapThenFoldSet, Added
<1> HIDE DEF F
<1> QED
  BY <1>2, <1>3, TeamFacts, Zenon DEF Sums

Total(f) == FoldFunction(+, 0, f)

\* If no term is less than it was, and one is more by d, so is the sum.
LEMMA SumGrows ==
  ASSUME NEW f \in [Player -> Nat], NEW g \in [Player -> Nat], NEW q \in Player, NEW d \in Nat,
         \A p \in Player : f[p] <= g[p], f[q] + d <= g[q]
  PROVE  Total(f) \in Nat /\ Total(g) \in Nat /\ Total(f) + d <= Total(g)
<1>1. PICK F : Sums(F, f, NumPlayers) /\ Total(f) = F[Player]
  BY SumIs DEF Total
<1>2. PICK G : Sums(G, g, NumPlayers) /\ Total(g) = G[Player]
  BY SumIs DEF Total
<1> DEFINE Good(s) == /\ F[s] \in Nat /\ G[s] \in Nat
                      /\ IF q \in s THEN F[s] + d <= G[s] ELSE F[s] <= G[s]
           T == {m \in Nat : \A s \in Teams(m) : Good(s)}
<1>3. \A s \in SUBSET Player : F[s] = Added(F, f, s) /\ G[s] = Added(G, g, s)
  BY <1>1, <1>2, TeamFacts DEF Sums
<1>4. 0 \in T
  <2>1. F[{}] = 0 /\ G[{}] = 0
    BY <1>3 DEF Added
  <2>2. Good({})
    BY <2>1
  <2>3. \A s \in Teams(0) : Good(s)
    <3> HIDE DEF Good
    <3> QED
      BY <2>2, TeamFacts
  <2> QED
    BY <2>3
<1>5. ASSUME NEW m \in 0 .. NumPlayers - 1, m \in T
      PROVE  m + 1 \in T
  <2>1. m \in Nat
    BY TeamFacts
  <2>2. \A s \in Teams(m) : Good(s)
    BY <1>5
  <2>3. ASSUME NEW s \in Teams(m + 1)
        PROVE  Good(s)
    <3>1. s \in SUBSET Player
      BY DEF Teams
    <3>2. CASE s = {}
      BY <2>1, <2>2, <3>2, TeamFacts, FS_EmptySet DEF Teams
    <3>3. CASE s # {}
      <4> DEFINE x == CHOOSE x \in s : TRUE
                 t == s \ {x}
      <4>1. x \in s
        BY <3>3
      <4>2. t \in Teams(m)
        BY <2>1, <4>1, TeamFacts
      <4>3. Good(t)
        BY <2>2, <4>2
      <4>4. F[s] = f[x] + F[t] /\ G[s] = g[x] + G[t]
        BY <1>3, <3>1, <3>3 DEF Added
      <4>5. x \in Player /\ f[x] \in Nat /\ g[x] \in Nat /\ f[x] <= g[x] /\ (x = q => f[x] + d <= g[x])
        BY <3>1, <4>1
      <4>6. q \in s <=> q \in t \/ q = x
        BY <4>1
      <4>7. q = x => q \notin t
        OBVIOUS
      <4> HIDE DEF x, t
      <4> QED
        BY <4>3, <4>4, <4>5, <4>6, <4>7
    <3> QED
      BY <3>2, <3>3
  <2> QED
    BY <2>1, <2>3
<1> HIDE DEF T
<1>6. NumPlayers \in T
  BY <1>4, <1>5, TeamFacts, Ascent
<1>7. Good(Player)
  BY <1>6, TeamFacts DEF T
<1> QED
  BY <1>1, <1>2, <1>7

-----------------------------------------------------------------------------
(* The lines of a game. *)

\* Where a number fits, the frame has a field inside: that is why StepsAway applies.
Lines == status = "playing" => Width >= 3 /\ Height >= 3 /\ Connected(level)

LEMMA FieldHasRoom ==
  ASSUME NEW walls \in SUBSET Cells, NEW starts, FreeBlocks(NewLevel(walls, starts)) # {}
  PROVE  Width >= 3 /\ Height >= 3
<1>1. PICK blk \in NumberBlocks : \A c \in blk : InitialBoard(walls)[c] = "empty"
  BY DEF FreeBlocks, NewLevel
<1>2. PICK c \in (0 .. Width - 1) \X (0 .. Height - 2) : blk = {c, << c[1], c[2] + 1 >>}
  BY DEF NumberBlocks, NumberBlock
<1>3. Width \in Nat /\ Height \in Nat
  BY GridAssumption
<1>4. PICK x \in 0 .. Width - 1, y \in 0 .. Height - 2 : c = << x, y >>
  BY <1>2
<1>5. y \in 0 .. Height - 1
  BY <1>3
<1>6. c \in Cells
  BY <1>4, <1>5 DEF Cells
<1>7. c \notin Border
  BY <1>1, <1>2, <1>6 DEF InitialBoard
<1>8. x # 0 /\ x # Width - 1 /\ y # 0 /\ y # Height - 1
  BY <1>4, <1>6, <1>7 DEF Border
<1> QED
  BY <1>3, <1>4, <1>8

LEMMA NewLevelConnected ==
  ASSUME NEW walls, NEW starts
  PROVE  Connected(NewLevel(walls, starts))
<1> SUFFICES ASSUME NEW p \in Player
             PROVE  IsLine(NewSnake(starts[p])) /\ Heading(NewSnake(starts[p]))
  BY DEF Connected, NewLevel
<1>1. Len(NewSnake(starts[p]).points) = 1
  BY DEF NewSnake
<1> QED
  BY <1>1 DEF IsLine, Heading

\* Placing a number touches no snake.
LEMMA RandomNumberConnected ==
  ASSUME NEW lv \in LevelType, NEW val, Connected(lv), RandomNumber(lv, val), status' = "playing"
  PROVE  Connected(level') /\ FreeBlocks(lv) # {}
<1>1. PICK blk \in FreeBlocks(lv) : level' = WithNumber(lv, blk, val)
  BY DEF RandomNumber
<1>2. level'.snakes = lv.snakes
  BY <1>1 DEF WithNumber, LevelType
<1> QED
  BY <1>1, <1>2 DEF Connected

LEMMA BeginLevelConnected ==
  ASSUME NEW id \in DOMAIN LevelDefs, BeginLevel(id)
  PROVE  Lines'
<1> SUFFICES ASSUME status' = "playing"
             PROVE  Width >= 3 /\ Height >= 3 /\ Connected(level')
  BY DEF Lines, Connected
<1> DEFINE starts == LevelDefs[id].starts
<1>1. PICK extra \in SUBSET LevelDefs[id].random :
        RandomNumber(NewLevel(LevelDefs[id].walls \cup extra, starts), 1)
  BY DEF BeginLevel
<1> DEFINE walls == LevelDefs[id].walls \cup extra
<1>2. walls \in SUBSET Cells
  BY PackFacts
<1>3. NewLevel(walls, starts) \in LevelType
  BY <1>2, PackFacts, NewLevelType
<1>4. RandomNumber(NewLevel(walls, starts), 1)
  BY <1>1
<1> HIDE DEF walls, starts
<1>5. Connected(level') /\ FreeBlocks(NewLevel(walls, starts)) # {}
  BY <1>3, <1>4, NewLevelConnected, RandomNumberConnected
<1> QED
  BY <1>2, <1>5, FieldHasRoom

LEMMA TickConnected ==
  ASSUME IInv, Lines, NEW mv \in Moves, Tick(mv)
  PROVE  Lines'
<1> DEFINE lv == Turned(level, mv)
<1>1. status = "playing" /\ TypeOK /\ Connected(level) /\ Width >= 3 /\ Height >= 3
  BY DEF Tick, IInv, Lines
<1>2. level \in LevelType /\ levelId \in DOMAIN LevelDefs /\ HasHeads(level)
  BY <1>1 DEF IInv, TypeOK, Sound, BodiesSound
<1>3. lv \in LevelType /\ HasHeads(lv)
  BY <1>2, TurnedType DEF HasHeads
<1>4. Dead(lv) = {} => Connected(Moved(lv))
  BY <1>1, <1>2, MovedConnected
<1>5. \/ Abort(lv) \/ GameOver(lv) \/ LoseLife(lv)
      \/ Advance(lv) \/ EatNumber(lv) \/ Move(lv)
  BY DEF Tick
<1> HIDE DEF lv
<1>6. CASE Abort(lv) \/ GameOver(lv)
  BY <1>6 DEF Abort, GameOver, Lines
<1>7. CASE LoseLife(lv)
  BY <1>2, <1>7, BeginLevelConnected DEF LoseLife
<1>8. CASE Advance(lv)
  <2>1. Capped(levelId + 1) \in DOMAIN LevelDefs
    BY <1>2, PackFacts, CappedInPack
  <2> QED
    BY <1>8, <2>1, BeginLevelConnected DEF Advance
<1>9. CASE EatNumber(lv)
  <2>1. Moved(lv) \in LevelType /\ Connected(Moved(lv))
    BY <1>3, <1>4, <1>9, MovedType DEF EatNumber
  <2>2. RandomNumber(Moved(lv), lv.value + 1)
    BY <1>9 DEF EatNumber
  <2>3. status' = "playing" => Connected(level')
    BY <2>1, <2>2, RandomNumberConnected
  <2> QED
    BY <1>1, <2>3 DEF Lines, Connected
<1>10. CASE Move(lv)
  <2>1. Connected(Moved(lv)) /\ level' = Moved(lv)
    BY <1>4, <1>10 DEF Move
  <2>2. Connected(level')
    BY <2>1
  <2> QED
    BY <1>1, <2>2 DEF Lines, Connected
<1> QED
  BY <1>5, <1>6, <1>7, <1>8, <1>9, <1>10

\* A snake is one connected line, and however it is steered its next cell is never
\* its own neck (Snake::turn, and the one turn a tick allows).
THEOREM SnakesStayConnected == Spec => []SnakesConnected
<1>1. Init => Lines
  BY DEF Init, Lines
<1>2. IInv /\ Lines /\ [Next]_vars => Lines'
  <2> SUFFICES ASSUME IInv, Lines, [Next]_vars PROVE Lines'
    OBVIOUS
  <2>1. CASE Start
    BY <2>1, BeginLevelConnected DEF Start, IInv, TypeOK
  <2>2. ASSUME NEW mv \in Moves, Tick(mv) PROVE Lines'
    BY <2>2, TickConnected
  <2>3. CASE UNCHANGED vars
    BY <2>3 DEF vars, Lines, Connected
  <2> QED
    BY <2>1, <2>2, <2>3 DEF Next
<1>3. IInv /\ Lines => SnakesConnected
  <2> SUFFICES ASSUME IInv, Lines, status = "playing", NEW p \in Player
               PROVE  /\ level.snakes[p].points # << >>
                      /\ IsLine(level.snakes[p])
                      /\ NeckClear(level.snakes[p])
    BY DEF SnakesConnected
  <2>1. level.snakes[p] \in SnakeType /\ level.snakes[p].points # << >>
    BY DEF IInv, TypeOK, LevelType, Sound, BodiesSound, HasHeads
  <2>2. Width >= 3 /\ Height >= 3 /\ IsLine(level.snakes[p]) /\ Heading(level.snakes[p])
    BY DEF Lines, Connected
  <2> QED
    BY <2>1, <2>2, NeckStaysClear
<1> QED
  BY <1>1, <1>2, <1>3, Invariance, PTL DEF Spec

-----------------------------------------------------------------------------
(* Growth is paid for exactly once. *)

\* The points of a snake and those it is still to grow.
Owed(lv, p) == Len(lv.snakes[p].points) + lv.snakes[p].pending

\* What a snake has when a level starts.
Initially == IF StartLength = 0 THEN 1 ELSE StartLength

\* The sum of the numbers below v.
Triangle(v) == (v * (v - 1)) \div 2

LEMMA TriangleGrows ==
  ASSUME NEW v \in Nat
  PROVE  Triangle(v) \in Nat /\ Triangle(v + 1) = Triangle(v) + v
<1>1. v * (v - 1) \in Nat
  <2>1. CASE v = 0
    BY <2>1
  <2>2. CASE v # 0
    <3>1. PICK u \in Nat : v = u + 1
      <4>1. v - 1 \in Nat /\ v = (v - 1) + 1
        BY <2>2
      <4> QED
        BY <4>1
    <3>2. \A m \in Nat : m - 0 = m /\ (m + 1) - 1 = m /\ (m + 1) * m \in Nat
      OBVIOUS
    <3> QED
      BY <3>1, <3>2
  <2> QED
    BY <2>1, <2>2
<1>2. (v + 1) * ((v + 1) - 1) = v * (v - 1) + 2 * v
  OBVIOUS
<1>3. \A m, n \in Nat : m \div 2 \in Nat /\ (m + 2 * n) \div 2 = (m \div 2) + n
  OBVIOUS
<1> QED
  BY <1>1, <1>2, <1>3, Zenon DEF Triangle

\* A step without deaths owes the growth it is worth to those who ate, and no more.
LEMMA StepOwes ==
  ASSUME NEW lv \in LevelType, HasHeads(lv), Dead(lv) = {}, NEW p \in Player
  PROVE  /\ Owed(lv, p) \in Nat
         /\ Owed(Moved(lv), p) = Owed(lv, p) + (IF p \in Eaters(lv) THEN lv.value * GrowthFactor ELSE 0)
<1> DEFINE n == Len(lv.snakes[p].points)
           new == MovedSnake(lv, p).points
<1>1. /\ n \in Nat /\ lv.snakes[p].pending \in Nat /\ Pending(lv, p) \in Nat
  BY SnakeFacts
<1>2. /\ p \in Vacating(lv) => Len(new) = n
      /\ p \notin Vacating(lv) => Len(new) = n + 1
  BY MovedPoints
<1>3. MovedSnake(lv, p).pending = IF p \in Vacating(lv) THEN 0 ELSE Pending(lv, p) - 1
  BY DEF MovedSnake
<1>4. p \in Vacating(lv) <=> Pending(lv, p) = 0
  BY DEF Vacating
<1>5. Owed(Moved(lv), p) = Len(new) + MovedSnake(lv, p).pending
  BY BoardAfter DEF Owed
<1>6. Owed(lv, p) = n + lv.snakes[p].pending
  BY DEF Owed
<1>7. PICK e \in Nat : /\ Pending(lv, p) = lv.snakes[p].pending + e
                       /\ e = IF p \in Eaters(lv) THEN lv.value * GrowthFactor ELSE 0
  <2>1. lv.value * GrowthFactor \in Nat
    BY LevelAssumption DEF LevelType
  <2> QED
    BY <2>1 DEF Pending
<1> HIDE DEF n, new
<1>8. Owed(Moved(lv), p) = n + Pending(lv, p)
  <2>1. CASE p \in Vacating(lv)
    BY <1>1, <1>2, <1>3, <1>4, <1>5, <2>1
  <2>2. CASE p \notin Vacating(lv)
    BY <1>1, <1>2, <1>3, <1>4, <1>5, <2>2
  <2> QED
    BY <2>1, <2>2
<1>9. Owed(lv, p) \in Nat /\ Owed(Moved(lv), p) = Owed(lv, p) + e
  BY <1>1, <1>6, <1>7, <1>8
<1> QED
  BY <1>7, <1>9

LEMMA NewLevelOwes ==
  ASSUME NEW walls, NEW starts, NEW p \in Player
  PROVE  Owed(NewLevel(walls, starts), p) = Initially
<1>1. /\ Len(NewSnake(starts[p]).points) = 1
      /\ NewSnake(starts[p]).pending = IF StartLength = 0 THEN 0 ELSE StartLength - 1
  BY DEF NewSnake
<1>2. Owed(NewLevel(walls, starts), p) = Len(NewSnake(starts[p]).points) + NewSnake(starts[p]).pending
  BY DEF Owed, NewLevel
<1>3. 1 + (IF StartLength = 0 THEN 0 ELSE StartLength - 1) = Initially
  BY LevelAssumption DEF Initially
<1> QED
  BY <1>1, <1>2, <1>3, Zenon

\* A number that found a place is the level's, and every snake is as it was.
LEMMA RandomNumberOwes ==
  ASSUME NEW lv \in LevelType, NEW val, RandomNumber(lv, val), status' = "playing"
  PROVE  level'.value = val /\ \A p \in Player : Owed(level', p) = Owed(lv, p)
<1>1. PICK blk \in FreeBlocks(lv) : level' = WithNumber(lv, blk, val)
  BY DEF RandomNumber
<1>2. level'.snakes = lv.snakes /\ level'.value = val
  BY <1>1 DEF WithNumber, LevelType
<1> QED
  BY <1>2 DEF Owed

Growths == [p \in Player |-> Growth(p)]

LEMMA TotalIs == TotalGrowth = Total(Growths)
BY DEF TotalGrowth, Total, Growths

LEMMA GrowthIs ==
  /\ \A p \in Player : Growth(p) = Owed(level, p) - Initially
  /\ Worth = GrowthFactor * Triangle(level.value)
  /\ GrowthPaid <=> (status = "playing" => /\ \A p \in Player : Growth(p) \in 0 .. Worth
                                           /\ Total(Growths) >= Worth)
<1>1. \A p \in Player : Growth(p) = Owed(level, p) - Initially
  BY Zenon DEF Growth, Owed, Initially
<1>2. Worth = GrowthFactor * Triangle(level.value)
  BY Zenon DEF Worth, Triangle
<1>3. GrowthPaid <=> (status = "playing" => /\ \A p \in Player : Growth(p) \in 0 .. Worth
                                           /\ Total(Growths) >= Worth)
  BY TotalIs, Zenon DEF GrowthPaid
<1> QED
  BY <1>1, <1>2, <1>3, Zenon

\* The same of the state after a step.
LEMMA GrowthIsAfter ==
  /\ \A p \in Player : Growth(p)' = Owed(level', p) - Initially
  /\ Worth' = GrowthFactor * Triangle(level'.value)
  /\ GrowthPaid' <=> (status' = "playing" => /\ \A p \in Player : Growth(p)' \in 0 .. Worth'
                                             /\ Total(Growths') >= Worth')
<1>1. \A p \in Player : Growth(p)' = Owed(level', p) - Initially
  BY Zenon DEF Growth, Owed, Initially
<1>2. Worth' = GrowthFactor * Triangle(level'.value)
  BY Zenon DEF Worth, Triangle
<1>3. GrowthPaid' <=> (status' = "playing" => /\ \A p \in Player : Growth(p)' \in 0 .. Worth'
                                             /\ Total(Growths') >= Worth')
  <2>1. (TotalGrowth = Total(Growths))'
    BY TotalIs, PTL
  <2> QED
    BY <2>1, Zenon DEF GrowthPaid
<1> QED
  BY <1>1, <1>2, <1>3, Zenon

LEMMA BeginLevelPaid ==
  ASSUME NEW id \in DOMAIN LevelDefs, BeginLevel(id)
  PROVE  GrowthPaid'
<1> SUFFICES ASSUME status' = "playing"
             PROVE  /\ \A p \in Player : Growth(p)' \in 0 .. Worth'
                    /\ Total(Growths') >= Worth'
  BY GrowthIsAfter, Zenon
<1> DEFINE starts == LevelDefs[id].starts
<1>1. PICK extra \in SUBSET LevelDefs[id].random :
        RandomNumber(NewLevel(LevelDefs[id].walls \cup extra, starts), 1)
  BY DEF BeginLevel
<1> DEFINE lv == NewLevel(LevelDefs[id].walls \cup extra, starts)
<1>2. lv \in LevelType
  BY PackFacts, NewLevelType
<1>3. level'.value = 1 /\ \A p \in Player : Owed(level', p) = Initially
  <2>1. RandomNumber(lv, 1)
    BY <1>1
  <2>2. \A p \in Player : Owed(lv, p) = Initially
    BY NewLevelOwes
  <2> HIDE DEF lv
  <2> QED
    BY <1>2, <2>1, <2>2, RandomNumberOwes
<1>4. Worth' = 0
  <2>1. Worth' = GrowthFactor * Triangle(level'.value)
    BY GrowthIsAfter
  <2>2. Triangle(1) = 0 /\ GrowthFactor * 0 = 0
    BY LevelAssumption DEF Triangle
  <2> QED
    BY <1>3, <2>1, <2>2
<1>5. \A p \in Player : Growth(p)' = 0
  <2>1. \A p \in Player : Growth(p)' = Owed(level', p) - Initially
    BY GrowthIsAfter
  <2>2. Initially - Initially = 0
    BY LevelAssumption DEF Initially
  <2> QED
    BY <1>3, <2>1, <2>2
<1>6. Total(Growths') \in Nat
  <2> DEFINE f == Growths'
  <2>1. f \in [Player -> Nat] /\ (\A p \in Player : f[p] <= f[p]) /\ 0 \in Nat
    BY <1>5 DEF Growths
  <2>2. 1 \in Player /\ f[1] + 0 <= f[1]
    BY <1>5, LevelAssumption DEF Player, Growths
  <2> HIDE DEF f
  <2>3. Total(f) \in Nat
    BY <2>1, <2>2, SumGrows
  <2> QED
    BY <2>3 DEF f
<1> QED
  BY <1>4, <1>5, <1>6

\* What the snakes of a step are owed together, when somebody ate.
LEMMA TickPaid ==
  ASSUME IInv, GrowthPaid, NEW mv \in Moves, Tick(mv)
  PROVE  GrowthPaid'
<1> DEFINE lv == Turned(level, mv)
<1>1. status = "playing" /\ level \in LevelType /\ levelId \in DOMAIN LevelDefs /\ HasHeads(level)
  BY DEF Tick, IInv, TypeOK, Sound, BodiesSound
<1>2. /\ lv \in LevelType /\ HasHeads(lv) /\ lv.value = level.value
      /\ \A p \in Player : Owed(lv, p) = Owed(level, p)
  <2>1. /\ lv \in LevelType /\ lv.value = level.value
        /\ \A p \in Player : lv.snakes[p].points = level.snakes[p].points
    BY <1>1, TurnedType
  <2>2. \A p \in Player : lv.snakes[p].pending = level.snakes[p].pending
    <3> SUFFICES ASSUME NEW p \in Player PROVE lv.snakes[p].pending = level.snakes[p].pending
      OBVIOUS
    <3>1. level.snakes[p] \in SnakeType
      BY <1>1 DEF LevelType
    <3>2. \A d : Turn(level.snakes[p], d).pending = level.snakes[p].pending
      BY <3>1 DEF Turn, SnakeType
    <3>3. lv.snakes[p] = IF p \in DOMAIN mv THEN Turn(level.snakes[p], mv[p]) ELSE level.snakes[p]
      BY <1>1 DEF Turned, LevelType
    <3> QED
      BY <3>2, <3>3
  <2> QED
    BY <1>1, <2>1, <2>2 DEF HasHeads, Owed
<1>3. \/ Abort(lv) \/ GameOver(lv) \/ LoseLife(lv)
      \/ Advance(lv) \/ EatNumber(lv) \/ Move(lv)
  BY DEF Tick
<1> HIDE DEF lv
<1>4. /\ \A p \in Player : Growth(p) \in 0 .. Worth
      /\ Total(Growths) >= Worth
  BY <1>1, GrowthIs, Zenon
<1>5. PICK v \in Nat : v = level.value
  BY <1>1, LevelAssumption DEF LevelType
<1>6. PICK w \in Nat : w = Worth /\ w = GrowthFactor * Triangle(v)
  <2>1. GrowthFactor * Triangle(v) \in Nat
    BY <1>5, TriangleGrows, LevelAssumption
  <2> QED
    BY <1>5, <2>1, GrowthIs
<1>7. \A p \in Player : Growth(p) \in Nat /\ Growth(p) <= w
  BY <1>4, <1>6
<1>8. \A p \in Player : Growth(p) = Owed(level, p) - Initially
  BY GrowthIs
<1>9. \A p \in Player : Growth(p)' = Owed(level', p) - Initially
  BY GrowthIsAfter
<1>10. Worth' = GrowthFactor * Triangle(level'.value)
  BY GrowthIsAfter
<1>11. CASE Abort(lv) \/ GameOver(lv)
  <2>1. status' # "playing"
    BY <1>11 DEF Abort, GameOver
  <2> QED
    BY <2>1, GrowthIsAfter, Zenon
<1>12. CASE LoseLife(lv)
  BY <1>1, <1>12, BeginLevelPaid DEF LoseLife
<1>13. CASE Advance(lv)
  <2>1. Capped(levelId + 1) \in DOMAIN LevelDefs
    BY <1>1, PackFacts, CappedInPack
  <2> QED
    BY <1>13, <2>1, BeginLevelPaid DEF Advance
<1>14. CASE EatNumber(lv)
  <2> SUFFICES ASSUME status' = "playing" PROVE GrowthPaid'
    BY GrowthIsAfter, Zenon
  <2>1. PICK d \in Nat : d = lv.value * GrowthFactor
    BY <1>2, <1>5, LevelAssumption
  <2>2. /\ Moved(lv) \in LevelType /\ Dead(lv) = {} /\ Eaters(lv) # {}
        /\ RandomNumber(Moved(lv), lv.value + 1)
    BY <1>2, <1>14, MovedType DEF EatNumber
  <2>3. level'.value = v + 1 /\ \A p \in Player : Owed(level', p) = Owed(Moved(lv), p)
    BY <1>2, <1>5, <2>2, RandomNumberOwes
  <2>4. \A p \in Player : /\ Owed(level, p) \in Nat
                          /\ Owed(level', p) = Owed(level, p) + (IF p \in Eaters(lv) THEN d ELSE 0)
    BY <1>2, <2>1, <2>2, <2>3, StepOwes
  <2>5. Initially \in Nat
    BY LevelAssumption DEF Initially
  <2>6. \A p \in Player : Growth(p)' = Growth(p) + (IF p \in Eaters(lv) THEN d ELSE 0)
    BY <1>8, <1>9, <2>4, <2>5
  <2>7. Worth' = w + d
    <3>1. \A a, b, c \in Nat : a * (b + c) = a * b + c * a
      OBVIOUS
    <3>2. Triangle(v) \in Nat /\ Triangle(v + 1) = Triangle(v) + v
      BY TriangleGrows
    <3> QED
      BY <1>2, <1>5, <1>6, <1>10, <2>1, <2>3, <3>1, <3>2, LevelAssumption
  <2>8. \A p \in Player : Growth(p)' \in 0 .. Worth'
    BY <1>7, <2>6, <2>7
  <2>9. Total(Growths') >= Worth'
    <3> DEFINE f == Growths
               g == Growths'
    <3>1. PICK q \in Player : q \in Eaters(lv)
      BY <2>2 DEF Eaters
    <3>2. f \in [Player -> Nat] /\ g \in [Player -> Nat]
      BY <1>7, <2>6 DEF Growths
    <3>3. (\A p \in Player : f[p] <= g[p]) /\ f[q] + d <= g[q]
      BY <1>7, <2>6, <3>1 DEF Growths
    <3>4. Total(f) >= w
      BY <1>4, <1>6, Zenon
    <3> HIDE DEF f, g
    <3>5. /\ Total(f) \in Nat /\ Total(g) \in Nat
          /\ Total(f) + d <= Total(g)
      BY <3>2, <3>3, SumGrows
    <3>6. Total(g) >= w + d
      BY <3>4, <3>5
    <3> QED
      BY <2>7, <3>6 DEF g
  <2> QED
    BY <2>8, <2>9, GrowthIsAfter, Zenon
<1>15. CASE Move(lv)
  <2>1. Dead(lv) = {} /\ Eaters(lv) = {} /\ level' = Moved(lv)
    BY <1>15 DEF Move
  <2>2. level'.value = v
    BY <1>2, <1>5, <2>1, BoardAfter
  <2>3. \A p \in Player : Owed(level, p) \in Nat /\ Owed(level', p) = Owed(level, p)
    BY <1>2, <2>1, StepOwes
  <2>4. \A p \in Player : Growth(p)' = Growth(p)
    BY <1>8, <1>9, <2>3
  <2>5. Worth' = Worth
    BY <1>6, <1>10, <2>2
  <2>6. Growths' = Growths
    BY <2>4 DEF Growths
  <2> QED
    BY <1>4, <2>4, <2>5, <2>6, GrowthIsAfter
<1> QED
  BY <1>3, <1>11, <1>12, <1>13, <1>14, <1>15

\* What a round's snakes have grown, or will, is what its numbers were worth: every
\* number is paid for, in full and once to each snake that ate of it.
THEOREM GrowthIsPaid == Spec => []GrowthPaid
<1>1. Init => GrowthPaid
  BY DEF Init, GrowthPaid
<1>2. IInv /\ GrowthPaid /\ [Next]_vars => GrowthPaid'
  <2> SUFFICES ASSUME IInv, GrowthPaid, [Next]_vars PROVE GrowthPaid'
    OBVIOUS
  <2>1. CASE Start
    BY <2>1, BeginLevelPaid DEF Start, IInv, TypeOK
  <2>2. ASSUME NEW mv \in Moves, Tick(mv) PROVE GrowthPaid'
    BY <2>2, TickPaid
  <2>3. CASE UNCHANGED vars
    <3>1. Growths' = Growths /\ Worth' = Worth /\ status' = status
      BY <2>3 DEF vars, Growths, Growth, Worth
    <3>2. \A p \in Player : Growth(p)' = Growth(p)
      BY <2>3 DEF vars, Growth
    <3> QED
      BY <3>1, <3>2, GrowthIs, GrowthIsAfter, Zenon
  <2> QED
    BY <2>1, <2>2, <2>3 DEF Next
<1> QED
  BY <1>1, <1>2, Invariance, PTL DEF Spec

-----------------------------------------------------------------------------
(* The loop over the heads.                                                *)

\* The cells the first k players of the order have moved into.
TakenBy(lv, order, k) ==
  {c \in Cells : \E i \in 1 .. k : order[i] \notin Dead(lv) /\ NextHead(lv.snakes[order[i]]) = c}

First(order, k) == {order[i] : i \in 1 .. k}

\* What the loop has come to after the first k players.
Come(lv, order, k) ==
  [dead  |-> Dead(lv) \cap First(order, k),
   ate   |-> Eaters(lv) \cap First(order, k),
   board |-> [c \in Cells |-> IF c \in TakenBy(lv, order, k) THEN "snake" ELSE lv.board[c]]]

LEMMA OrderFacts ==
  ASSUME NEW order \in Bijection(Player, Player)
  PROVE  /\ \A i \in Player : order[i] \in Player
         /\ \A i, j \in Player : order[i] = order[j] => i = j
         /\ \A p \in Player : \E i \in Player : order[i] = p
BY DEF Bijection, Injection, IsInjective, Surjection

\* No cell ahead of a snake has been taken by one before it, unless both are dead:
\* what it reads is the board the loop began with.
LEMMA LoopStep ==
  ASSUME NEW lv \in LevelType, HasHeads(lv), NEW order \in Bijection(Player, Player), NEW k \in Player
  PROVE  AdvanceHead(lv, Come(lv, order, k - 1), order[k]) = Come(lv, order, k)
<1> DEFINE p == order[k]
           next == NextHead(lv.snakes[p])
           acc == Come(lv, order, k - 1)
           Met == \E q \in Player \ {p} : NextHead(lv.snakes[q]) = next
<1>1. p \in Player /\ next \in Cells /\ lv.board \in [Cells -> BoardState]
  BY OrderFacts, SnakeFacts DEF LevelType
<1>2. k \in Nat /\ 1 .. k = (1 .. k - 1) \cup {k} /\ 1 .. k \subseteq Player
  BY LevelAssumption DEF Player
<1>3. First(order, k) = First(order, k - 1) \cup {p}
  BY <1>2 DEF First
<1>4. p \in Dead(lv) <=> Met \/ lv.board[next] \in {"wall", "snake"}
  BY <1>1 DEF Dead
<1>5. p \in Eaters(lv) <=> p \notin Dead(lv) /\ lv.board[next] = "number"
  BY <1>1 DEF Eaters
<1>6. ~Met => acc.board[next] = lv.board[next]
  <2> SUFFICES ASSUME ~Met, next \in TakenBy(lv, order, k - 1) PROVE FALSE
    BY <1>1 DEF Come
  <2>1. PICK i \in 1 .. k - 1 : NextHead(lv.snakes[order[i]]) = next
    BY DEF TakenBy
  <2>2. i \in Player /\ i # k
    BY <1>2
  <2>3. order[i] \in Player /\ order[i] # p
    BY <2>2, OrderFacts
  <2> QED
    BY <2>1, <2>3
<1>7. \A c : c \in TakenBy(lv, order, k) <=>
               \/ c \in TakenBy(lv, order, k - 1)
               \/ c = next /\ p \notin Dead(lv)
  BY <1>1, <1>2 DEF TakenBy
<1>8. /\ acc.dead = Dead(lv) \cap First(order, k - 1)
      /\ acc.ate = Eaters(lv) \cap First(order, k - 1)
      /\ acc.board = [c \in Cells |-> IF c \in TakenBy(lv, order, k - 1) THEN "snake" ELSE lv.board[c]]
  BY DEF Come
<1>9. CASE p \in Dead(lv)
  <2>1. AdvanceHead(lv, acc, p) = [acc EXCEPT !.dead = @ \cup {p}]
    BY <1>4, <1>6, <1>9 DEF AdvanceHead
  <2>2. acc.dead \cup {p} = Dead(lv) \cap First(order, k)
    BY <1>3, <1>8, <1>9
  <2>3. acc.ate = Eaters(lv) \cap First(order, k)
    BY <1>3, <1>5, <1>8, <1>9
  <2>4. acc.board = [c \in Cells |-> IF c \in TakenBy(lv, order, k) THEN "snake" ELSE lv.board[c]]
    BY <1>7, <1>8, <1>9
  <2>5. [acc EXCEPT !.dead = @ \cup {p}] = [dead |-> acc.dead \cup {p}, ate |-> acc.ate, board |-> acc.board]
    <3>1. PICK D, A, B : acc = [dead |-> D, ate |-> A, board |-> B]
      BY Zenon DEF Come
    <3> HIDE DEF acc, p
    <3> QED
      BY <3>1
  <2> HIDE DEF acc, p
  <2> QED
    BY <2>1, <2>2, <2>3, <2>4, <2>5, Zenon DEF Come, acc, p
<1>10. CASE p \notin Dead(lv)
  <2>1. AdvanceHead(lv, acc, p) =
          [dead  |-> acc.dead,
           ate   |-> IF acc.board[next] = "number" THEN acc.ate \cup {p} ELSE acc.ate,
           board |-> [acc.board EXCEPT ![next] = "snake"]]
    BY <1>4, <1>6, <1>10 DEF AdvanceHead
  <2>2. acc.dead = Dead(lv) \cap First(order, k)
    BY <1>3, <1>8, <1>10
  <2>3. (IF acc.board[next] = "number" THEN acc.ate \cup {p} ELSE acc.ate) = Eaters(lv) \cap First(order, k)
    <3>1. acc.board[next] = "number" <=> p \in Eaters(lv)
      BY <1>4, <1>5, <1>6, <1>10
    <3> QED
      BY <1>3, <1>8, <3>1
  <2>4. [acc.board EXCEPT ![next] = "snake"] =
          [c \in Cells |-> IF c \in TakenBy(lv, order, k) THEN "snake" ELSE lv.board[c]]
    BY <1>1, <1>7, <1>8, <1>10
  <2> HIDE DEF acc, p, next
  <2> QED
    BY <2>1, <2>2, <2>3, <2>4, Zenon DEF Come, acc, p
<1> QED
  BY <1>9, <1>10

\* Whatever the order, the loop finds the dead and the eaters Dead and Eaters name.
LEMMA LoopIs ==
  ASSUME NEW lv \in LevelType, HasHeads(lv), NEW order \in Bijection(Player, Player)
  PROVE  HeadLoop(lv, order).dead = Dead(lv) /\ HeadLoop(lv, order).ate = Eaters(lv)
<1> DEFINE N == NumPlayers
           begin == [dead |-> {}, ate |-> {}, board |-> lv.board]
           Loop(h) == h = [k \in 0 .. N |-> IF k = 0 THEN begin ELSE AdvanceHead(lv, h[k - 1], order[k])]
           g == [k \in 0 .. N |-> Come(lv, order, k)]
           after == CHOOSE h : Loop(h)
           T == {k \in 0 .. N : after[k] = Come(lv, order, k)}
<1>1. N \in Nat /\ Player = 1 .. N
  BY LevelAssumption DEF Player
<1>2. Come(lv, order, 0) = begin
  <2>1. First(order, 0) = {} /\ TakenBy(lv, order, 0) = {}
    BY DEF First, TakenBy
  <2>2. [c \in Cells |-> IF c \in {} THEN "snake" ELSE lv.board[c]] = lv.board
    BY DEF LevelType
  <2> QED
    BY <2>1, <2>2 DEF Come
<1>3. \A k \in 0 .. N : k # 0 => k \in Player /\ k - 1 \in 0 .. N
  BY <1>1
<1> HIDE DEF N, begin
<1>4. Loop(g)
  <2>1. \A k \in 0 .. N : k # 0 => AdvanceHead(lv, g[k - 1], order[k]) = Come(lv, order, k)
    BY <1>3, LoopStep
  <2> QED
    BY <1>2, <2>1
<1>5. Loop(after)
  <2> HIDE DEF g, Loop
  <2> QED
    BY <1>4, Zenon
<1>6. HeadLoop(lv, order) = after[N]
  BY Zenon DEF HeadLoop, N, begin
<1> HIDE DEF after, g
<1>7. 0 \in T
  BY <1>1, <1>2, <1>5
<1>8. ASSUME NEW m \in 0 .. N - 1, m \in T
      PROVE  m + 1 \in T
  <2>1. m + 1 \in 0 .. N /\ m + 1 # 0 /\ (m + 1) - 1 = m
    BY <1>1
  <2>2. after[m + 1] = AdvanceHead(lv, after[m], order[m + 1])
    BY <1>5, <2>1
  <2>3. after[m] = Come(lv, order, m)
    BY <1>8
  <2>4. AdvanceHead(lv, Come(lv, order, m), order[m + 1]) = Come(lv, order, m + 1)
    BY <1>3, <2>1, LoopStep
  <2> QED
    BY <2>1, <2>2, <2>3, <2>4
<1> HIDE DEF Loop
<1>9. N \in T
  <2> HIDE DEF T
  <2> QED
    BY <1>1, <1>7, <1>8, Ascent
<1>10. HeadLoop(lv, order) = Come(lv, order, N)
  BY <1>6, <1>9
<1>11. Player \subseteq First(order, N)
  <2> SUFFICES ASSUME NEW p \in Player PROVE p \in First(order, N)
    OBVIOUS
  <2>1. PICK i \in 1 .. N : order[i] = p
    BY <1>1, OrderFacts
  <2> QED
    BY <2>1 DEF First
<1>12. Dead(lv) \subseteq Player /\ Eaters(lv) \subseteq Player
  BY DEF Dead, Eaters
<1> QED
  BY <1>10, <1>11, <1>12 DEF Come

\* No player has an advantage from his place in the list of players: the loop of
\* Level::tick comes to the same in every order.
THEOREM NobodyIsFirst == Spec => []NobodyGoesFirst
<1>1. IInv => NobodyGoesFirst
  <2> SUFFICES ASSUME IInv, status = "playing", NEW mv \in Moves, NEW order \in Bijection(Player, Player)
               PROVE  /\ HeadLoop(Turned(level, mv), order).dead = Dead(Turned(level, mv))
                      /\ HeadLoop(Turned(level, mv), order).ate = Eaters(Turned(level, mv))
    BY Zenon DEF NobodyGoesFirst
  <2>1. level \in LevelType /\ HasHeads(level)
    BY DEF IInv, TypeOK, Sound, BodiesSound
  <2>2. Turned(level, mv) \in LevelType /\ HasHeads(Turned(level, mv))
    BY <2>1, TurnedType DEF HasHeads
  <2> QED
    BY <2>2, LoopIs
<1> QED
  BY <1>1, Invariance, PTL
=============================================================================
