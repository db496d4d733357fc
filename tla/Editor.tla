------------------------------- MODULE Editor -------------------------------
(***************************************************************************)
(* How the players of a client change (configuring.cpp): the handlers of   *)
(* the form; the dialog, in a main loop of its own; and the file, loaded   *)
(* by every Configuring and saved to by its end.  The program may be       *)
(* killed anywhere.  A colour is changed and kept as a key is, and is left *)
(* out.                                                                    *)
(*                                                                         *)
(* The GUI thread runs one handler at a time, so that a handler is a step; *)
(* saveLocalPlayers is cut where a death leaves different files behind.    *)
(***************************************************************************)
EXTENDS Players

LOCAL Lists == INSTANCE SequencesExt

vars == << players, rows, active, entry, dialog, doing, exits, playersFile, newFile,
           dangling, settled, torn >>

form == << rows, active, entry >>
files == << playersFile, newFile >>
history == << settled, torn >>

Init == /\ players = << >>
        /\ rows = << >> /\ active = 0 /\ entry = Blank
        /\ dialog = NoDialog
        /\ doing = "down" /\ exits = FALSE
        /\ playersFile = NoFile /\ newFile = NoFile
        /\ dangling = FALSE
        /\ settled = {<< >>} /\ torn = FALSE

Up == doing # "down" /\ ~dangling

\* The user can reach the form: the dialog is modal.
Editing == Up /\ doing = "configuring" /\ dialog = NoDialog

-----------------------------------------------------------------------------
(* The list *)

\* multi_index's modify: an element whose new name another has is erased.
Modified(ps, i, player) ==
  IF \E j \in DOMAIN ps \ {i} : ps[j].name = player.name
  THEN Lists!RemoveAt(ps, i)
  ELSE [ps EXCEPT ![i] = player]

\* getCurrentPlayer goes by the name in the row; that no player should have it is
\* fatal.
IsCurrent(i) == active # 0 /\ i \in DOMAIN players /\ players[i].name = rows[active]

-----------------------------------------------------------------------------
(* The form *)

\* refreshLocalPlayer.  Setting the text calls playerNameChanged in turn, which
\* finds the name in use, or no player.
RefreshLocalPlayer(rs, a) == entry' = IF a = 0 THEN Blank ELSE rs[a]

\* Which row refreshLocalPlayers ends on: nothing was selected before, which it
\* takes for the name "".
Selected(ps) ==
  LET empty == {i \in DOMAIN ps : ps[i].name = Blank}
  IN  IF ps = << >> THEN 0
      ELSE CASE empty = {1} /\ Len(ps) > 1 -> 2
             [] empty = {} -> 1
             [] OTHER -> CHOOSE i \in empty : TRUE

\* Configuring::Impl's constructor, as far as the players go: a new store, and
\* loadLocalPlayers, which without a file leaves list and
\* form alone and throws at one that is cut short.
LoadLocalPlayers ==
  /\ ~dangling /\ playersFile # Partial
  /\ rows' = IF playersFile = NoFile THEN << >> ELSE NamesOf(Held(playersFile))
  /\ active' = IF playersFile = NoFile THEN 0 ELSE Selected(Held(playersFile))
  /\ IF playersFile = NoFile THEN UNCHANGED << players, entry >>
                      ELSE /\ players' = Held(playersFile)
                           /\ RefreshLocalPlayer(rows', active')
  /\ doing' = "configuring"
  /\ UNCHANGED << dialog, files, dangling >>

\* The program is started.
Begin == /\ doing = "down"
         /\ LoadLocalPlayers
         /\ exits' = FALSE
         /\ settled' = {players'} /\ torn' = FALSE

\* The scores of a game have been seen.
HighScoreOk == /\ Up /\ doing = "playing" /\ dialog = NoDialog
               /\ LoadLocalPlayers
               /\ UNCHANGED << exits, history >>

CreatePlayer ==
  /\ Editing /\ ~IsNameInUse(NewName) /\ Len(players) < MaxPlayers
  /\ players' = Append(players, [name |-> NewName, controls |-> [c \in Commands |-> DefaultKey]])
  /\ rows' = Append(rows, NewName)
  /\ active' = Len(rows')
  /\ RefreshLocalPlayer(rows', active')
  /\ UNCHANGED << dialog, doing, exits, files, dangling, history >>

\* The user takes another row.
Select(a) ==
  /\ Editing /\ a \in DOMAIN rows \ {active}
  /\ active' = a
  /\ RefreshLocalPlayer(rows, a)
  /\ UNCHANGED << players, rows, dialog, doing, exits, files, dangling, history >>

\* Mutant of PlayerNameChanged: it does not ask who has the name.
PlayerNameChanged_Twice(name) ==
  /\ Editing /\ name # entry
  /\ entry' = name
  /\ IF active = 0
     THEN UNCHANGED << players, rows >>
     ELSE \E i \in DOMAIN players :
            /\ IsCurrent(i)
            /\ players' = Modified(players, i, [players[i] EXCEPT !.name = name])
            /\ rows' = [rows EXCEPT ![active] = name]
  /\ UNCHANGED << active, dialog, doing, exits, files, dangling, history >>

\* The user changes the text, a character or all of it.
PlayerNameChanged(name) ==
  /\ Editing /\ name # entry
  /\ entry' = name
  /\ IF active = 0 \/ IsNameInUse(name)
     THEN UNCHANGED << players, rows >>
     ELSE \E i \in DOMAIN players :
            /\ IsCurrent(i)
            /\ players' = Modified(players, i, [players[i] EXCEPT !.name = name])
            /\ rows' = [rows EXCEPT ![active] = name]
  /\ UNCHANGED << active, dialog, doing, exits, files, dangling, history >>

-----------------------------------------------------------------------------
(* The dialog: setBinding shows it and runs a main loop until it is closed,
   in which everything goes on that does not wait for the user. *)

SetBinding(command) ==
  /\ Editing /\ active # 0
  /\ dialog' = command
  /\ UNCHANGED << players, form, doing, exits, files, dangling, history >>

\* The GUI thread is in a main loop, and not busy with save.
Idle == Up /\ doing \in {"configuring", "playing"}

\* Configuring has gone: the handlers of the dialog, which its destructor does
\* not disconnect, and the rest of setBinding have no object left.
Orphaned == dialog # NoDialog /\ doing # "configuring"

Dangles == /\ Orphaned
           /\ dangling' = TRUE
           /\ UNCHANGED << players, form, dialog, doing, exits, files, history >>

NewKey(key) ==
  /\ Idle /\ dialog \in Commands
  /\ \/ Dangles
     \/ /\ ~Orphaned
        /\ \E i \in DOMAIN players :
             /\ IsCurrent(i)
             /\ players' = Modified(players, i,
                                    [players[i] EXCEPT !.controls[dialog] = key])
        /\ dialog' = Closing
        /\ UNCHANGED << form, doing, exits, files, dangling, history >>

\* cancelNewKey, or the dialog's close box.
CancelNewKey ==
  /\ Idle /\ dialog \in Commands
  /\ dialog' = Closing
  /\ UNCHANGED << players, form, doing, exits, files, dangling, history >>

\* The rest of setBinding.
DialogReturns ==
  /\ Idle /\ dialog = Closing
  /\ \/ Dangles
     \/ /\ ~Orphaned
        /\ dialog' = NoDialog
        /\ RefreshLocalPlayer(rows, active)
        /\ UNCHANGED << players, rows, active, doing, exits, files, dangling,
                        history >>

-----------------------------------------------------------------------------
(* The end of Configuring: ~Impl saves first of all. *)

Leaves(ends) ==
  /\ doing' = "opening" /\ exits' = ends
  /\ settled' = settled \cup {players}
  /\ UNCHANGED << players, form, dialog, files, dangling, torn >>

\* A game starts, in the main loop or in that of the dialog.
GameStart == Up /\ doing = "configuring" /\ Leaves(FALSE)

\* windowClosed, while configuring; Playing has nothing to save.
Terminate == Editing /\ Leaves(TRUE)

TerminatePlaying ==
  /\ Up /\ doing = "playing" /\ dialog = NoDialog
  /\ doing' = "down" /\ players' = << >>
  /\ rows' = << >> /\ active' = 0 /\ entry' = Blank
  /\ UNCHANGED << dialog, exits, files, dangling, history >>

\* Mutant of Open: the old file is removed first of all.
Open_RemovesFirst ==
  /\ Up /\ doing = "opening"
  /\ newFile' = Partial /\ playersFile' = NoFile
  /\ doing' = "writing"
  /\ UNCHANGED << players, form, dialog, exits, dangling, history >>

\* saveLocalPlayers: ".new" is opened and written,
Open ==
  /\ Up /\ doing = "opening"
  /\ newFile' = Partial
  /\ doing' = "writing"
  /\ UNCHANGED << players, form, dialog, exits, playersFile, dangling, history >>

Write ==
  /\ Up /\ doing = "writing"
  /\ newFile' = Whole(players)
  /\ doing' = "written"
  /\ UNCHANGED << players, form, dialog, exits, playersFile, dangling, history >>

\* the old file is removed, if there is one,
Remove ==
  /\ Up /\ doing = "written"
  /\ playersFile' = NoFile
  /\ doing' = "removed"
  /\ UNCHANGED << players, form, dialog, exits, newFile, dangling, history >>

\* and the new one takes its name.
Rename ==
  /\ Up /\ doing = "removed"
  /\ playersFile' = newFile /\ newFile' = NoFile
  /\ settled' = {players} /\ torn' = FALSE
  /\ IF exits THEN doing' = "down" /\ players' = << >>
              ELSE doing' = "playing" /\ UNCHANGED players
  /\ rows' = << >> /\ active' = 0
  /\ entry' = IF exits THEN Blank ELSE entry
  /\ UNCHANGED << dialog, exits, dangling >>

\* The program is killed; or it ends itself, as it does when the user presses
\* Delete or Remove, which are "not implemented", or when a step of save throws in
\* the destructor.
Dies ==
  /\ Up
  /\ doing' = "down" /\ players' = << >>
  /\ rows' = << >> /\ active' = 0 /\ entry' = Blank /\ dialog' = NoDialog
  /\ torn' = (torn \/ doing = "removed")
  /\ UNCHANGED << exits, files, dangling, settled >>

-----------------------------------------------------------------------------

Save == Open \/ Write \/ Remove \/ Rename

Next == \/ Begin \/ HighScoreOk \/ CreatePlayer
        \/ (\E a \in 1 .. MaxPlayers : Select(a))
        \/ (\E name \in Names : PlayerNameChanged(name))
        \/ (\E command \in Commands : SetBinding(command))
        \/ (\E key \in Keys : NewKey(key))
        \/ CancelNewKey \/ DialogReturns
        \/ GameStart \/ Terminate \/ TerminatePlaying \/ Save \/ Dies

Spec == Init /\ [][Next]_vars

-----------------------------------------------------------------------------
(* Properties. *)

TypeOK ==
  /\ players \in Seq(ControlledPlayer) /\ Len(players) <= MaxPlayers
  /\ rows \in Seq(Names) /\ active \in 0 .. Len(rows) /\ entry \in Names
  /\ dialog \in Commands \cup {NoDialog, Closing}
  /\ doing \in {"down", "configuring", "opening", "writing", "written",
                "removed", "playing"}
  /\ exits \in BOOLEAN
  /\ dangling \in BOOLEAN
  /\ torn \in BOOLEAN
=============================================================================
