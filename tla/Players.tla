------------------------------ MODULE Players ------------------------------
(***************************************************************************)
(* The players of a client (configuring.cpp): the list the states of the   *)
(* machine share, the form that shows it, the dialog that asks for a key,  *)
(* the file the list is kept in, and what must hold of them.  Editor has   *)
(* the handlers.                                                           *)
(***************************************************************************)
EXTENDS Integers, Sequences, SavedFile

CONSTANTS
  Names,       \* what the user may type
  Keys,        \* keyvals
  Commands,    \* those of Command
  NewName,     \* "New player"
  DefaultKey,  \* stands for the keys a new player has
  MaxPlayers   \* bound: local players

\* The empty text.
Blank == ""

\* No dialog, and one whose answer is in.
NoDialog == "none"
Closing == "closing"

ASSUME PlayersAssumption == /\ {NewName, Blank} \subseteq Names
                            /\ DefaultKey \in Keys
                            /\ NoDialog \notin Commands /\ Closing \notin Commands
                            /\ MaxPlayers \in Nat

VARIABLES
  players,     \* Active::localPlayers
  rows,        \* playerComboListStore_: the names
  active,      \* the row the combo box shows, 0 for none
  entry,       \* the text of playerName_
  dialog,      \* newKeyDialog_: the command it asks a key for, or one of the two
  doing,       \* what the machine does, and where save is
  exits,       \* the machine leaves Configuring because the program ends
  playersFile, \* the file the list is kept in
  newFile,     \* the one with ".new" after it
  dangling,    \* a handler has run without its object
  settled,     \* history: the lists the file may hold for all the user knows
  torn         \* history: a death has taken the file away

ControlledPlayer == [name : Names, controls : [Commands -> Keys]]

NamesOf(ps) == [i \in DOMAIN ps |-> ps[i].name]

IsNameInUse(name) == \E i \in DOMAIN players : players[i].name = name

\* What a file holds.
Held(f) == IF f = NoFile THEN << >> ELSE f[1]

-----------------------------------------------------------------------------
(* Properties. *)

\* The form and the list stay together without a common model: the rows are the
\* players in their order, no two of one name, and what is typed goes to the player
\* whose name is shown, or to nobody if another has the name.
FormShowsPlayers ==
  doing = "configuring" =>
    /\ rows = NamesOf(players)
    /\ \A i, j \in DOMAIN rows : rows[i] = rows[j] => i = j
    /\ active = 0 <=> rows = << >>
    /\ active # 0 /\ dialog = NoDialog =>
         entry = rows[active] \/ IsNameInUse(entry)

\* A program that is started finds the players as its last Configuring left them,
\* or, if it died while it saved them, as the one before did; and a Configuring
\* after a game finds what was there before it.  Only a death between the removal
\* and the renaming takes them away.
PlayersRemembered ==
  /\ [][doing # "configuring" /\ doing' = "configuring"
          => players' \in settled \/ torn]_doing
  /\ [](playersFile # Partial)
=============================================================================
