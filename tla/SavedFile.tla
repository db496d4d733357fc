----------------------------- MODULE SavedFile -----------------------------
(***************************************************************************)
(* A file that is saved by writing all of it under another name: the high  *)
(* scores of the server and the players of a client.                       *)
(***************************************************************************)

\* There is none, it holds all of s, or it was cut short.
NoFile == << >>
Whole(s) == << s >>
Partial == << "cut", "short" >>
=============================================================================
