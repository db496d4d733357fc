------------------------------ MODULE MCSession -----------------------------
(***************************************************************************)
(* Session.tla with a program that is started by hand, or to add its       *)
(* player and be ready of itself.                                          *)
(***************************************************************************)
EXTENDS Session

MCNames == {"anna", "ben"}

MCMine == {"anna"}

MCOptions == {[players |-> {}, ready |-> FALSE],
              [players |-> {"anna"}, ready |-> TRUE]}
=============================================================================
