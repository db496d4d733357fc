------------------------------- MODULE MCGame -------------------------------
(***************************************************************************)
(* A small pack to play Game on.  Every board has the wall round it that   *)
(* Board::init gives it, so that a 5 x 5 board has 9 cells to play on.     *)
(***************************************************************************)
EXTENDS Game

\* The first has an inner wall and a random cell.  The last has its starts in the
\* frame: when both snakes have left them, the frame has a hole on each side and
\* a snake can leave the board at one and come back at the other.
ThreeLevels ==
  << [walls |-> {<<2, 2>>}, random |-> {<<1, 1>>},
      starts |-> << [point |-> <<1, 3>>, direction |-> "right"],
                    [point |-> <<3, 1>>, direction |-> "left"] >>],
     [walls |-> {}, random |-> {},
      starts |-> << [point |-> <<1, 2>>, direction |-> "right"],
                    [point |-> <<3, 1>>, direction |-> "left"] >>],
     [walls |-> {}, random |-> {},
      starts |-> << [point |-> <<0, 2>>, direction |-> "right"],
                    [point |-> <<4, 2>>, direction |-> "left"] >>] >>

-----------------------------------------------------------------------------
(* The server ticks a game whether anybody steers or not. *)

VARIABLE asleep  \* from now on nobody presses a key

MCInit == Init /\ asleep = FALSE

FallAsleep == /\ ~asleep /\ asleep' = TRUE
              /\ UNCHANGED vars

Drift == /\ asleep /\ (Start \/ Tick(NoMoves))
         /\ UNCHANGED asleep

MCNext == \/ ~asleep /\ Next /\ UNCHANGED asleep
          \/ FallAsleep
          \/ Drift

MCSpec == /\ MCInit /\ [][MCNext]_<< vars, asleep >>
          /\ WF_<< vars, asleep >>(Drift)

\* Wherever a game is when its players leave it to itself, it is over after a
\* while: every level whose frame has no hole stops the snakes, every death costs
\* a life, and what they eat on the way only brings the next number or level.
UnattendedEnds ==
  asleep ~> \/ status \in {"over", "stuck"}
            \/ \E p \in Player : LevelDefs[levelId].starts[p].point \in Border
=============================================================================
