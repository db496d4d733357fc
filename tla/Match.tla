------------------------------- MODULE Match -------------------------------
(***************************************************************************)
(* What the server promises to the programs connected to it, whatever      *)
(* drives its game: who is connected, whose players are in, and when a     *)
(* game is on.  A game starts at the moment when all who are connected are *)
(* ready and there is somebody to play, and never while another is on; it  *)
(* ends with everybody unready, or with the last connection.               *)
(*                                                                         *)
(* Server.tla, with its timer, pauses and scores, implements this module;  *)
(* Session.tla puts the client programs and the messages around it.        *)
(***************************************************************************)
EXTENDS Naturals, Functions

CONSTANT Names

VARIABLES
  up,            \* the process runs
  open,          \* it accepts connections
  conns,         \* client id -> ready
  players,       \* player id -> name and client
  nextClientId,
  nextPlayerId,
  game           \* a game is on

vars == << up, open, conns, players, nextClientId, nextPlayerId, game >>

Init == /\ up = TRUE
        /\ open = TRUE
        /\ conns = [c \in {} |-> FALSE]
        /\ players = [p \in {} |-> 0]
        /\ nextClientId = 0
        /\ nextPlayerId = 0
        /\ game = FALSE

With(f, k, v) == [x \in DOMAIN f \cup {k} |-> IF x = k THEN v ELSE f[x]]

Unready(cs) == [c \in DOMAIN cs |-> FALSE]

OwnedBy(c) == {p \in DOMAIN players : players[p].client = c}

MayStart(cs, ps) == /\ ~game
                    /\ DOMAIN cs # {} /\ DOMAIN ps # {}
                    /\ \A c \in DOMAIN cs : cs[c]

\* A message leaves connections cs and players ps.  If that starts a game, its
\* first tick may already end it.
Settle(cs, ps) ==
  /\ players' = ps
  /\ \/ ~MayStart(cs, ps) /\ conns' = cs /\ UNCHANGED game
     \/ MayStart(cs, ps) /\ conns' = cs /\ game' = TRUE
     \/ MayStart(cs, ps) /\ conns' = Unready(cs) /\ game' = FALSE

Join == /\ up /\ open /\ ~game
        /\ conns' = With(conns, nextClientId, FALSE)
        /\ nextClientId' = nextClientId + 1
        /\ UNCHANGED << up, open, players, nextPlayerId, game >>

AddPlayer(c, name) ==
  /\ up
  /\ nextPlayerId' = nextPlayerId + 1
  /\ Settle(conns, IF \E p \in DOMAIN players : players[p].name = name
                   THEN players
                   ELSE With(players, nextPlayerId, [name |-> name, client |-> c]))
  /\ UNCHANGED << up, open, nextClientId >>

SetReadiness(c, ready) ==
  /\ up
  /\ Settle([conns EXCEPT ![c] = ready], players)
  /\ UNCHANGED << up, open, nextClientId, nextPlayerId >>

\* A connection is gone, with its players, and the last one ends the game.
Leave(c) ==
  /\ up
  /\ conns' = Restrict(conns, DOMAIN conns \ {c})
  /\ players' = Restrict(players, DOMAIN players \ OwnedBy(c))
  /\ game' = (game /\ DOMAIN conns # {c})
  /\ UNCHANGED << up, open, nextClientId, nextPlayerId >>

GameOver == /\ up /\ game
            /\ game' = FALSE
            /\ conns' = Unready(conns)
            /\ UNCHANGED << up, open, players, nextClientId, nextPlayerId >>

Close == /\ up /\ open
         /\ open' = FALSE
         /\ conns' = Restrict(conns, {})
         /\ UNCHANGED << up, players, nextClientId, nextPlayerId, game >>

\* The process dies of a fault, and nothing more is promised.
Die == up /\ up' = FALSE

Next == \/ Join \/ GameOver \/ Close \/ Die
        \/ \E c \in DOMAIN conns :
             \/ \E name \in Names : AddPlayer(c, name)
             \/ \E ready \in BOOLEAN : SetReadiness(c, ready)
             \/ Leave(c)

Spec == Init /\ [][Next]_vars
=============================================================================
