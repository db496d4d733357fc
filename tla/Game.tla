-------------------------------- MODULE Game --------------------------------
(***************************************************************************)
(* The rules of a game (game.hpp, game.cpp, the outer Level::tick of       *)
(* level.hpp, leveldefinition.cpp, and the lives of scoretracker.cpp): the *)
(* levels of a pack played in turn by snakes that have lives.  Scores and  *)
(* the tick interval are left out: nothing the rules decide depends on     *)
(* them.                                                                   *)
(***************************************************************************)
EXTENDS Level, Functions

CONSTANTS
  LevelDefs,    \* the pack: a sequence of [walls, random, starts]
  StartLevel,   \* GameSettings::startLevel, counted from 1
  StartLives    \* GameSettings::startLives

LevelDefType == [walls : SUBSET Cells, random : SUBSET Cells,
                 starts : Seq([point : Cells, direction : Direction])]

\* Level::initSnakes throws "level has insufficient starts" for a game of more
\* players; this module is about the games it does not throw for.
ASSUME GameAssumption ==
  /\ LevelDefs \in Seq(LevelDefType)
  /\ LevelDefs # << >>
  /\ \A i \in DOMAIN LevelDefs : Len(LevelDefs[i].starts) >= NumPlayers
  /\ StartLevel \in Nat \ {0}
  /\ StartLives \in Nat

VARIABLES
  status,    \* "new", "playing", "over"; "stuck" inside randomNumber's loop;
             \* "aborted" by an assertion
  levelId,   \* the level being played; past the pack it stays at the last one
  level,     \* Game::level
  lives      \* ScoreTracker::lives_

vars == << status, levelId, level, lives >>

Status == {"new", "playing", "over", "stuck", "aborted"}

\* startLevel keeps counting levelId and plays min(levelId, size - 1).  Nothing
\* else reads it, so it is capped where the minimum is taken.
Capped(id) == IF id > Len(LevelDefs) THEN Len(LevelDefs) ELSE id

NoLevel == [walls  |-> {},
            snakes |-> [p \in Player |-> [points |-> << >>, direction |-> "up",
                                          pending |-> 0]],
            number |-> {}, value |-> 0, board |-> InitialBoard({})]

Init == /\ status = "new"
        /\ levelId = Capped(StartLevel)
        /\ level = NoLevel
        /\ lives = [p \in Player |-> StartLives]

\* Level::randomNumber in level lv: it draws blocks until one is free, for ever
\* if none is.
RandomNumber(lv, val) ==
  \/ \E blk \in FreeBlocks(lv) :
       level' = WithNumber(lv, blk, val) /\ status' = "playing"
  \/ FreeBlocks(lv) = {} /\ level' = lv /\ status' = "stuck"

\* Game::startLevel: realise the definition, each of its random cells a wall or
\* not, then build the level, first number included.
BeginLevel(id) ==
  /\ levelId' = id
  /\ \E extra \in SUBSET LevelDefs[id].random :
       RandomNumber(NewLevel(LevelDefs[id].walls \cup extra,
                             LevelDefs[id].starts), 1)

\* Game::start.
Start == /\ status = "new"
         /\ BeginLevel(levelId)
         /\ UNCHANGED lives

-----------------------------------------------------------------------------
(* Game::tick, one action for each TickResult.  The results are ordered    *)
(* none < number < advanceLevel < dead < gameOver and the tick returns the *)
(* greatest of its snakes' results.  lv is the level already turned.       *)

\* Mutant of Deducted: dying costs nothing.
Deducted_None(lv) == lives

\* ScoreTracker::deductLife for every snake that died.
Deducted(lv) == [p \in Player |-> IF p \in Dead(lv) THEN lives[p] - 1
                                                    ELSE lives[p]]

Dying(lv) == /\ Dead(lv) # {}
             /\ \A p \in Dead(lv) : lives[p] > 0
             /\ lives' = Deducted(lv)

\* deductLife asserts that there is a life to deduct.
Abort(lv) == /\ \E p \in Dead(lv) : lives[p] = 0
             /\ status' = "aborted"
             /\ UNCHANGED << levelId, level, lives >>

GameOver(lv) == /\ Dying(lv)
                /\ \E p \in Dead(lv) : lives'[p] = 0
                /\ status' = "over"
                /\ level' = Moved(lv)
                /\ UNCHANGED levelId

\* dead: the same level from its start, for everyone.
LoseLife(lv) == /\ Dying(lv)
                /\ \A p \in Dead(lv) : lives'[p] > 0
                /\ BeginLevel(levelId)

Advance(lv) == /\ Dead(lv) = {}
               /\ Eaters(lv) # {}
               /\ lv.value = LastNumber
               /\ BeginLevel(Capped(levelId + 1))
               /\ UNCHANGED lives

EatNumber(lv) == /\ Dead(lv) = {}
                 /\ Eaters(lv) # {}
                 /\ lv.value # LastNumber
                 /\ RandomNumber(Moved(lv), lv.value + 1)
                 /\ UNCHANGED << levelId, lives >>

Move(lv) == /\ Dead(lv) = {}
            /\ Eaters(lv) = {}
            /\ level' = Moved(lv)
            /\ UNCHANGED << status, levelId, lives >>

Tick(mv) == /\ status = "playing"
            /\ LET lv == Turned(level, mv)
               IN  \/ Abort(lv)
                   \/ GameOver(lv)
                   \/ LoseLife(lv)
                   \/ Advance(lv)
                   \/ EatNumber(lv)
                   \/ Move(lv)

Next == Start \/ \E mv \in Moves : Tick(mv)

Spec == Init /\ [][Next]_vars

-----------------------------------------------------------------------------
(* Properties. *)

TypeOK == /\ status \in Status
          /\ levelId \in DOMAIN LevelDefs
          /\ level \in LevelType
          /\ lives \in [Player -> Nat]

\* Where the level's snakes start: Level.tla says why these cells are apart.
StartCells == {LevelDefs[levelId].starts[p].point : p \in Player}

\* The board, which is all a snake sees of the others, agrees with the bodies
\* (the collisions of Snake::advanceHead are decided on the board alone).
BoardShowsSnakes == status = "playing" => SnakesMarked(level, StartCells)

\* No cell holds two parts of snakes: no head ever enters a body, and two heads
\* never enter one cell (the loop of Level::tick moves them one by one).
NoOverlap == status = "playing" => BodiesDisjoint(level, StartCells)

\* Tails and numbers never erase a wall (advanceTail and setNumber write to the
\* board without looking at it).
WallsStand == status = "playing" => WallsMarked(level, StartCells)

\* The current number can be eaten, all of it, and nothing of an earlier one can
\* (a snake eats one of its two cells, setNumber has to clear the other).
NumberShown == status = "playing" => NumberMarked(level, StartCells)

\* The board and the level never part: what a collision, a meal and the next
\* number are decided on is where the snakes, the walls and the number are.
BoardFaithful == BoardShowsSnakes /\ NoOverlap /\ WallsStand /\ NumberShown

\* A body is one connected line of cells, and a player cannot die by turning
\* back on himself: Snake::turn refuses a reversal, and there is at most one
\* turn between two steps.
SnakesConnected ==
  status = "playing" =>
    \A p \in Player : /\ level.snakes[p].points # << >>
                      /\ IsLine(level.snakes[p])
                      /\ NeckClear(level.snakes[p])

\* Who dies and who eats does not depend on the place a player has in the game's
\* list, and is what Dead and Eaters say, in whatever order the loop goes.
NobodyGoesFirst ==
  status = "playing" =>
    \A mv \in Moves : \A order \in Bijection(Player, Player) :
      LET lv == Turned(level, mv)
          loop == HeadLoop(lv, order)
      IN  loop.dead = Dead(lv) /\ loop.ate = Eaters(lv)

\* Numbers are paid for exactly once: all the growth the snakes of a round have
\* had or are still owed is what the numbers eaten in it (1 .. value - 1) are
\* worth, each paid in full to every snake that ate of it, at most once to each.
Growth(p) == (Len(level.snakes[p].points) + level.snakes[p].pending)
               - (IF StartLength = 0 THEN 1 ELSE StartLength)

TotalGrowth == FoldFunction(+, 0, [p \in Player |-> Growth(p)])

Worth == GrowthFactor * ((level.value * (level.value - 1)) \div 2)

GrowthPaid ==
  status = "playing" =>
    /\ \A p \in Player : Growth(p) \in 0 .. Worth
    /\ TotalGrowth >= Worth
=============================================================================
