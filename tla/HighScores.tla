----------------------------- MODULE HighScores -----------------------------
(***************************************************************************)
(* The high scores of the server (highscoremanager.cpp): the sets it keeps,*)
(* their file, and what it tells the clients at the end of a game.         *)
(*                                                                         *)
(* Server::gameEnd is one handler, but the file is written in steps and    *)
(* the process may be killed between any two of them.                      *)
(***************************************************************************)
EXTENDS Integers, Sequences, FiniteSets, Functions, SequencesExt, SavedFile

CONSTANTS
  Types,      \* kinds of games: number of players and settings
  Totals,     \* total scores of games
  Best,       \* ranks a report shows in any case, 10 in the code
  LastSecond  \* bound: the clock stops there

ASSUME HighScoresAssumption == /\ Totals \subseteq Int
                               /\ Best \in Nat
                               /\ LastSecond \in Nat

VARIABLES
  now,     \* second_clock::universal_time()
  scores,  \* scores_: type -> set of high scores
  file,    \* what is in the file
  temp,    \* what is in the temporary file
  phase,   \* how far gameEnd has come, "play" before it and "down" without a process
  newest,  \* the score of the game that is ending, and its type
  report,  \* the report insert made for it
  shown    \* history: the scores clients were shown

vars == << now, scores, file, temp, phase, newest, report, shown >>

\* A score is known by its total and its second, which operator< compares, and by
\* who got it, which it does not.
HighScore == [total : Totals, time : 0 .. LastSecond, by : {"these", "those"}]

None == [t \in Types |-> {}]

Precedes(l, r) == \/ l.total < r.total
                  \/ l.total = r.total /\ l.time > r.time

Alike(l, r) == ~Precedes(l, r) /\ ~Precedes(r, l)

Init == /\ now = 0
        /\ scores = None
        /\ file = NoFile
        /\ temp = NoFile
        /\ phase = "play"
        /\ newest = << >>
        /\ report = << >>
        /\ shown = {}

-----------------------------------------------------------------------------
(* HighScoreManager::insert *)

\* What std::set::insert leaves of set S and points at for h.
Inserted(S, h) == IF \E s \in S : Alike(s, h) THEN S ELSE S \cup {h}

Found(S, h) == CHOOSE s \in S : Alike(s, h)

Rank(S, s) == 1 + Cardinality({r \in S : Precedes(s, r)})

\* The set from its best score on.
Ranked(S, rank) == CHOOSE s \in S : Rank(S, s) = rank

\* Mutant of Report: the loop leaves when the ranks are full.
Report_Full(S, h) ==
  [i \in 1 .. IF Cardinality(S) > Best THEN Best ELSE Cardinality(S)
     |-> [rank |-> i, score |-> Ranked(S, i)]]

\* The loop over the set, with its early end.
Report(S, h) ==
  LET from[rank \in 1 .. Cardinality(S) + 1] ==
        IF rank > Cardinality(S) THEN << >>
        ELSE LET s == Ranked(S, rank)
                 gotNew == Rank(S, h) <= rank
             IN  (IF rank <= Best \/ s = h THEN << [rank |-> rank, score |-> s] >>
                                           ELSE << >>)
                 \o (IF rank > Best /\ gotNew THEN << >> ELSE from[rank + 1])
  IN  from[1]

-----------------------------------------------------------------------------
(* Server::gameEnd, and the process around it. *)

Clock == /\ now < LastSecond
         /\ now' = now + 1
         /\ UNCHANGED << scores, file, temp, phase, newest, report, shown >>

\* A game of type t is over.
Insert(t) ==
  /\ phase = "play"
  /\ \E total \in Totals, by \in {"these", "those"} :
       LET h == [total |-> total, time |-> now, by |-> by]
           S == Inserted(scores[t], h)
       IN  /\ scores' = [scores EXCEPT ![t] = S]
           /\ newest' = << t, h >>
           /\ report' = Report(S, Found(S, h))
  /\ phase' = "opening"
  /\ UNCHANGED << now, file, temp, shown >>

\* Mutant of Open: the file itself is opened for writing.
Open_InPlace == /\ phase = "opening"
                /\ temp' = Partial /\ file' = Partial
                /\ phase' = "writing"
                /\ UNCHANGED << now, scores, newest, report, shown >>

\* save: the temporary file is opened, written, and takes the place of the file.
Open == /\ phase = "opening"
        /\ temp' = Partial
        /\ phase' = "writing"
        /\ UNCHANGED << now, scores, file, newest, report, shown >>

Write == /\ phase = "writing"
         /\ temp' = Whole(scores)
         /\ phase' = "written"
         /\ UNCHANGED << now, scores, file, newest, report, shown >>

\* Mutant of Rename: the file is left for the end of the next game.
Rename_Never == /\ phase = "written"
                /\ phase' = "announcing"
                /\ UNCHANGED << now, scores, file, temp, newest, report, shown >>

Rename == /\ phase = "written"
          /\ file' = temp
          /\ temp' = NoFile
          /\ phase' = "announcing"
          /\ UNCHANGED << now, scores, newest, report, shown >>

\* sendToAll(gameOver)
Announce == /\ phase = "announcing"
            /\ shown' = shown \cup {<< newest[1], report[i].score >> : i \in DOMAIN report}
            /\ phase' = "play"
            /\ newest' = << >> /\ report' = << >>
            /\ UNCHANGED << now, scores, file, temp >>

\* The process is killed, or save fails: nobody catches what it throws and a rename
\* that fails is fatal, so that the temporary file stays as it is.
Dies == /\ phase # "down"
        /\ phase' = "down"
        /\ scores' = None /\ newest' = << >> /\ report' = << >>
        /\ UNCHANGED << now, file, temp, shown >>

\* Mutant of Load: a server starts without scores.
Load_Nothing == /\ phase = "down" /\ file # Partial
                /\ phase' = "play"
                /\ UNCHANGED << now, scores, file, temp, newest, report, shown >>

\* HighScoreManager's constructor; a file that is cut short throws.
Load == /\ phase = "down" /\ file # Partial
        /\ scores' = IF file = NoFile THEN None ELSE file[1]
        /\ phase' = "play"
        /\ UNCHANGED << now, file, temp, newest, report, shown >>

Next == \/ Clock \/ \E t \in Types : Insert(t)
        \/ Open \/ Write \/ Rename \/ Announce \/ Dies \/ Load

Spec == Init /\ [][Next]_vars

-----------------------------------------------------------------------------
(* Properties. *)

Scores == [Types -> SUBSET HighScore]

Phase == {"play", "opening", "writing", "written", "announcing", "down"}

ReportType == Seq([rank : Nat, score : HighScore])

\* The file is never there in part: whatever cuts save short, it holds the scores
\* of some moment.
TypeOK == /\ now \in 0 .. LastSecond
          /\ scores \in Scores
          /\ file = NoFile \/ (Len(file) = 1 /\ file[1] \in Scores)
          /\ temp \in {NoFile, Partial} \/ (Len(temp) = 1 /\ temp[1] \in Scores)
          /\ phase \in Phase
          /\ newest \in (Types \X HighScore) \cup {<< >>}
          /\ report \in ReportType
          /\ shown \subseteq Types \X HighScore

\* What clients have been shown among the high scores is in the file, and stays
\* there whenever the server is killed and started again.
ShownIsKept == \A x \in shown : file # NoFile /\ x[2] \in file[1][x[1]]

\* While games are played the server has the scores of the file: a crash costs the
\* score of the game that was ending and no other.
UpToDate == phase = "play" => scores = IF file = NoFile THEN None ELSE file[1]

\* A client marks the newest score of the report (HighScoreView::refreshScores, the
\* first of those of one second).
Marked ==
  CHOOSE i \in DOMAIN report :
    /\ \A j \in DOMAIN report : report[j].score.time <= report[i].score.time
    /\ \A j \in 1 .. i - 1 : report[j].score.time < report[i].score.time

\* insert's loop makes the report it is to make: the best, and the newest wherever
\* it is, each with its rank, in order; and what a client marks in it for the
\* players of the game that is over is of the second in which that game ended.
ReportRight ==
  newest # << >> =>
    LET S == scores[newest[1]]
    IN  /\ Range(report) = {[rank |-> Rank(S, s), score |-> s] :
                             s \in {x \in S : \/ Rank(S, x) <= Best
                                              \/ Alike(x, newest[2])}}
        /\ \A i, j \in DOMAIN report : i < j => report[i].rank < report[j].rank
        /\ report[Marked].score.time = newest[2].time
=============================================================================
