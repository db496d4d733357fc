----------------------------- MODULE Directions -----------------------------
(***************************************************************************)
(* The four directions (direction.hpp).                                    *)
(***************************************************************************)

Direction == {"up", "down", "left", "right"}

\* directionOpposite flips the low bit of up = 0, down = 1, left = 2, right = 3.
Opposite(d) == CASE d = "up" -> "down"
                 [] d = "down" -> "up"
                 [] d = "left" -> "right"
                 [] d = "right" -> "left"

SameAxis(d, e) == e \in {d, Opposite(d)}
=============================================================================
