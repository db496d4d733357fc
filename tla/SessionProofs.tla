---------------------------- MODULE SessionProofs ---------------------------
(***************************************************************************)
(* A client program in step with its server, for any names, any number of  *)
(* other programs and of messages on their way, whatever the others do,    *)
(* and wherever the connection breaks.                                     *)
(***************************************************************************)
EXTENDS Session, FiniteSetTheorems, SequenceTheorems, TLAPS

-----------------------------------------------------------------------------
(* What is on its way. *)

\* The messages that make the program change between lobby, game and scores.
IsTurn(m) == m.type \in {"gameStart", "gameOver"}

NoTurn(q) == \A i \in 1 .. Len(q) : ~IsTurn(q[i])

OneTurn(q, t) ==
  \E k \in 1 .. Len(q) : q[k].type = t /\ \A i \in 1 .. Len(q) : IsTurn(q[i]) => i = k

NoWord(q) == \A i \in 1 .. Len(q) : q[i].type # "setReadiness"

\* Who is ready or not, as r says, will be so as b says when q has been handled.
Agreed(q, r, b) ==
  \/ NoWord(q) /\ r = b
  \/ \E k \in 1 .. Len(q) : /\ q[k] = ReadyMessage(b)
                            /\ \A i \in k + 1 .. Len(q) : q[i].type # "setReadiness"

LEMMA Joined ==
  ASSUME NEW S, NEW q \in Seq(S), NEW r \in Seq(S)
  PROVE  /\ Len(q) \in Nat /\ Len(r) \in Nat /\ Len(q \o r) = Len(q) + Len(r)
         /\ \A i \in 1 .. Len(q) : i \in 1 .. Len(q \o r) /\ (q \o r)[i] = q[i]
         /\ \A i \in 1 .. Len(r) : Len(q) + i \in 1 .. Len(q \o r) /\ (q \o r)[Len(q) + i] = r[i]
         /\ \A i \in 1 .. Len(q \o r) : \/ i \in 1 .. Len(q)
                                        \/ \E j \in 1 .. Len(r) : i = Len(q) + j
<1>1. /\ Len(q) \in Nat /\ Len(r) \in Nat /\ Len(q \o r) = Len(q) + Len(r)
      /\ \A i \in 1 .. Len(q) + Len(r) : (q \o r)[i] = IF i <= Len(q) THEN q[i] ELSE r[i - Len(q)]
  BY ConcatProperties
<1>2. \A i \in 1 .. Len(q) : i \in 1 .. Len(q \o r) /\ (q \o r)[i] = q[i]
  BY <1>1
<1>3. ASSUME NEW i \in 1 .. Len(r)
      PROVE  Len(q) + i \in 1 .. Len(q \o r) /\ (q \o r)[Len(q) + i] = r[i]
  <2>1. /\ Len(q) + i \in 1 .. Len(q) + Len(r) /\ ~(Len(q) + i <= Len(q))
        /\ (Len(q) + i) - Len(q) = i
    BY <1>1
  <2> QED
    BY <1>1, <2>1
<1>4. ASSUME NEW i \in 1 .. Len(q \o r), i \notin 1 .. Len(q)
      PROVE  \E j \in 1 .. Len(r) : i = Len(q) + j
  <2>1. i - Len(q) \in 1 .. Len(r) /\ i = Len(q) + (i - Len(q))
    BY <1>1, <1>4
  <2> QED
    BY <2>1
<1> QED
  BY <1>1, <1>2, <1>3, <1>4

LEMMA Shortened ==
  ASSUME NEW S, NEW q \in Seq(S), q # << >>
  PROVE  /\ Head(q) \in S /\ Tail(q) \in Seq(S) /\ Head(q) = q[1]
         /\ Len(q) \in Nat /\ 1 \in 1 .. Len(q) /\ Len(Tail(q)) = Len(q) - 1
         /\ \A i \in 1 .. Len(Tail(q)) : i + 1 \in 1 .. Len(q) /\ Tail(q)[i] = q[i + 1]
         /\ \A i \in 1 .. Len(q) : i = 1 \/ \E j \in 1 .. Len(Tail(q)) : i = j + 1
<1>1. /\ Head(q) \in S /\ Tail(q) \in Seq(S) /\ Head(q) = q[1]
      /\ Len(q) \in Nat /\ Len(q) >= 1 /\ Len(Tail(q)) = Len(q) - 1
  BY HeadTailProperties
<1>2. \A i \in 1 .. Len(Tail(q)) : Tail(q)[i] = q[i + 1]
  BY HeadTailProperties
<1>3. \A i \in 1 .. Len(Tail(q)) : i + 1 \in 1 .. Len(q)
  BY <1>1
<1>4. ASSUME NEW i \in 1 .. Len(q), i # 1
      PROVE  \E j \in 1 .. Len(Tail(q)) : i = j + 1
  <2>1. i - 1 \in 1 .. Len(Tail(q)) /\ i = (i - 1) + 1
    BY <1>1, <1>4
  <2> QED
    BY <2>1
<1> QED
  BY <1>1, <1>2, <1>3, <1>4

LEMMA TurnsJoin ==
  ASSUME NEW S, NEW q \in Seq(S), NEW r \in Seq(S)
  PROVE  /\ NoTurn(q) /\ NoTurn(r) => NoTurn(q \o r)
         /\ \A t : NoTurn(q) /\ OneTurn(r, t) => OneTurn(q \o r, t)
         /\ \A t : OneTurn(q, t) /\ NoTurn(r) => OneTurn(q \o r, t)
<1> DEFINE p == q \o r
<1>1. /\ Len(q) \in Nat
      /\ \A i \in 1 .. Len(q) : i \in 1 .. Len(p) /\ p[i] = q[i]
      /\ \A i \in 1 .. Len(r) : Len(q) + i \in 1 .. Len(p) /\ p[Len(q) + i] = r[i]
      /\ \A i \in 1 .. Len(p) : i \in 1 .. Len(q) \/ \E j \in 1 .. Len(r) : i = Len(q) + j
  BY Joined
<1> HIDE DEF p
<1>2. NoTurn(q) /\ NoTurn(r) => NoTurn(p)
  BY <1>1 DEF NoTurn
<1>3. ASSUME NEW t, NoTurn(q), OneTurn(r, t)
      PROVE  OneTurn(p, t)
  <2>1. PICK k \in 1 .. Len(r) : r[k].type = t /\ \A i \in 1 .. Len(r) : IsTurn(r[i]) => i = k
    BY <1>3 DEF OneTurn
  <2>2. \A i \in 1 .. Len(p) : IsTurn(p[i]) => i = Len(q) + k
    BY <1>1, <1>3, <2>1 DEF NoTurn
  <2>3. Len(q) + k \in 1 .. Len(p) /\ p[Len(q) + k].type = t
    BY <1>1, <2>1
  <2> QED
    BY <2>2, <2>3 DEF OneTurn
<1>4. ASSUME NEW t, OneTurn(q, t), NoTurn(r)
      PROVE  OneTurn(p, t)
  <2>1. PICK k \in 1 .. Len(q) : q[k].type = t /\ \A i \in 1 .. Len(q) : IsTurn(q[i]) => i = k
    BY <1>4 DEF OneTurn
  <2>2. \A i \in 1 .. Len(p) : IsTurn(p[i]) => i = k
    BY <1>1, <1>4, <2>1 DEF NoTurn
  <2>3. k \in 1 .. Len(p) /\ p[k].type = t
    BY <1>1, <2>1
  <2> QED
    BY <2>2, <2>3 DEF OneTurn
<1> QED
  BY <1>2, <1>3, <1>4 DEF p

LEMMA TurnsOff ==
  ASSUME NEW S, NEW q \in Seq(S), q # << >>
  PROVE  /\ NoTurn(q) => ~IsTurn(Head(q)) /\ NoTurn(Tail(q))
         /\ \A t \in {"gameStart", "gameOver"} :
              OneTurn(q, t) => IF IsTurn(Head(q)) THEN Head(q).type = t /\ NoTurn(Tail(q))
                                                  ELSE OneTurn(Tail(q), t)
<1>1. /\ Head(q) = q[1] /\ 1 \in 1 .. Len(q)
      /\ \A i \in 1 .. Len(Tail(q)) : i + 1 \in 1 .. Len(q) /\ Tail(q)[i] = q[i + 1]
      /\ \A i \in 1 .. Len(q) : i = 1 \/ \E j \in 1 .. Len(Tail(q)) : i = j + 1
  BY Shortened
<1>2. NoTurn(q) => ~IsTurn(Head(q)) /\ NoTurn(Tail(q))
  BY <1>1 DEF NoTurn
<1>3. ASSUME NEW t \in {"gameStart", "gameOver"}, NEW k \in 1 .. Len(q), q[k].type = t,
             \A i \in 1 .. Len(q) : IsTurn(q[i]) => i = k
      PROVE  IF IsTurn(Head(q)) THEN Head(q).type = t /\ NoTurn(Tail(q))
                                ELSE OneTurn(Tail(q), t)
  <2>1. CASE IsTurn(Head(q))
    <3>1. k = 1
      BY <1>1, <1>3, <2>1
    <3>2. \A i \in 1 .. Len(Tail(q)) : i + 1 # 1
      OBVIOUS
    <3>3. NoTurn(Tail(q))
      BY <1>1, <1>3, <3>1, <3>2 DEF NoTurn
    <3> QED
      BY <1>1, <1>3, <2>1, <3>1, <3>3
  <2>2. CASE ~IsTurn(Head(q))
    <3>0. k # 1
      BY <1>1, <1>3, <2>2 DEF IsTurn
    <3>1. PICK j \in 1 .. Len(Tail(q)) : k = j + 1
      BY <1>1, <3>0
    <3>2. Tail(q)[j].type = t
      BY <1>1, <1>3, <3>1
    <3>3. \A i \in 1 .. Len(Tail(q)) : i + 1 = j + 1 => i = j
      OBVIOUS
    <3>4. \A i \in 1 .. Len(Tail(q)) : IsTurn(Tail(q)[i]) => i = j
      BY <1>1, <1>3, <3>1, <3>3
    <3> QED
      BY <2>2, <3>2, <3>4 DEF OneTurn
  <2> QED
    BY <2>1, <2>2
<1> QED
  BY <1>2, <1>3 DEF OneTurn

LEMMA NothingSent ==
  /\ NoTurn(<< >>) /\ NoWord(<< >>)
  /\ \A r, b : r = b => Agreed(<< >>, r, b)
  /\ \A r, b : Agreed(<< >>, r, b) => r = b
BY DEF NoTurn, NoWord, Agreed

LEMMA WordsJoin ==
  ASSUME NEW S, NEW q \in Seq(S), NEW s \in Seq(S)
  PROVE  /\ NoWord(q) /\ NoWord(s) => NoWord(q \o s)
         /\ \A r, b : Agreed(q, r, b) /\ NoWord(s) => Agreed(q \o s, r, b)
<1> DEFINE p == q \o s
<1>1. /\ Len(q) \in Nat /\ Len(s) \in Nat /\ Len(p) = Len(q) + Len(s)
      /\ \A i \in 1 .. Len(q) : i \in 1 .. Len(p) /\ p[i] = q[i]
      /\ \A i \in 1 .. Len(s) : p[Len(q) + i] = s[i]
      /\ \A i \in 1 .. Len(p) : i \in 1 .. Len(q) \/ \E j \in 1 .. Len(s) : i = Len(q) + j
  BY Joined
<1> HIDE DEF p
<1>2. NoWord(q) /\ NoWord(s) => NoWord(p)
  BY <1>1, ZenonT(40) DEF NoWord
<1>3. ASSUME NEW r, NEW b, NEW k \in 1 .. Len(q), q[k] = ReadyMessage(b), NoWord(s),
             \A i \in k + 1 .. Len(q) : q[i].type # "setReadiness"
      PROVE  Agreed(p, r, b)
  <2>0. k + 1 \in Nat
    OBVIOUS
  <2>1. k \in 1 .. Len(p) /\ p[k] = ReadyMessage(b)
    BY <1>1, <1>3
  <2>2. ASSUME NEW i \in k + 1 .. Len(p)
        PROVE  p[i].type # "setReadiness"
    <3>1. i \in 1 .. Len(p)
      BY <1>1
    <3>2. CASE i \in 1 .. Len(q)
      <4>1. i \in k + 1 .. Len(q)
        BY <1>1, <2>0, <3>2
      <4>2. p[i] = q[i]
        BY <1>1, <3>2
      <4> QED
        BY <1>3, <4>1, <4>2
    <3>3. CASE \E j \in 1 .. Len(s) : i = Len(q) + j
      BY <1>1, <1>3, <3>3 DEF NoWord
    <3> QED
      BY <1>1, <3>1, <3>2, <3>3
  <2> QED
    BY <2>1, <2>2 DEF Agreed
<1> QED
  BY <1>2, <1>3 DEF Agreed, p

\* The last word is what counts.
LEMMA LastWord ==
  ASSUME NEW S, NEW q \in Seq(S), NEW s \in Seq(S), NEW r, NEW b,
         Len(s) = 1, s[1] = ReadyMessage(b)
  PROVE  Agreed(q \o s, r, b)
<1> DEFINE p == q \o s
<1>1. /\ Len(q) \in Nat /\ Len(s) \in Nat /\ Len(p) = Len(q) + Len(s)
      /\ \A i \in 1 .. Len(q) : i \in 1 .. Len(p) /\ p[i] = q[i]
      /\ \A i \in 1 .. Len(s) : Len(q) + i \in 1 .. Len(p) /\ p[Len(q) + i] = s[i]
      /\ \A i \in 1 .. Len(p) : i \in 1 .. Len(q) \/ \E j \in 1 .. Len(s) : i = Len(q) + j
  BY Joined, ZenonT(40)
<1> HIDE DEF p
<1>2. Len(q) + 1 \in 1 .. Len(p) /\ p[Len(q) + 1] = ReadyMessage(b)
  BY <1>1
<1>3. \A i \in (Len(q) + 1) + 1 .. Len(p) : FALSE
  BY <1>1
<1>4. Agreed(p, r, b)
  BY <1>2, <1>3 DEF Agreed
<1> QED
  BY <1>4 DEF p

LEMMA WordsOff ==
  ASSUME NEW S, NEW q \in Seq(S), q # << >>
  PROVE  /\ NoWord(q) => Head(q).type # "setReadiness" /\ NoWord(Tail(q))
         /\ \A r, b : Agreed(q, r, b) /\ Head(q).type # "setReadiness" => Agreed(Tail(q), r, b)
         /\ \A r, b, v : Agreed(q, r, b) /\ Head(q) = ReadyMessage(v) => Agreed(Tail(q), v, b)
<1>1. /\ Head(q) = q[1] /\ 1 \in 1 .. Len(q) /\ Len(q) \in Nat /\ Len(Tail(q)) = Len(q) - 1
      /\ \A i \in 1 .. Len(Tail(q)) : i + 1 \in 1 .. Len(q) /\ Tail(q)[i] = q[i + 1]
      /\ \A i \in 1 .. Len(q) : i = 1 \/ \E j \in 1 .. Len(Tail(q)) : i = j + 1
  BY Shortened
<1>2. NoWord(q) => Head(q).type # "setReadiness" /\ NoWord(Tail(q))
  BY <1>1 DEF NoWord
<1>3. ASSUME NEW k \in 1 .. Len(q), NEW r, NEW b, q[k] = ReadyMessage(b), k # 1,
             \A i \in k + 1 .. Len(q) : q[i].type # "setReadiness"
      PROVE  Agreed(Tail(q), r, b)
  <2>1. PICK j \in 1 .. Len(Tail(q)) : k = j + 1
    BY <1>1, <1>3
  <2>2. Tail(q)[j] = ReadyMessage(b)
    BY <1>1, <1>3, <2>1
  <2>3. \A i \in j + 1 .. Len(Tail(q)) : i \in 1 .. Len(Tail(q)) /\ i + 1 \in k + 1 .. Len(q)
    BY <1>1, <2>1
  <2>4. \A i \in j + 1 .. Len(Tail(q)) : Tail(q)[i].type # "setReadiness"
    BY <1>1, <1>3, <2>3
  <2> QED
    BY <2>2, <2>4 DEF Agreed
<1>4. ASSUME NEW r, NEW b, q[1] = ReadyMessage(b),
             \A i \in 1 + 1 .. Len(q) : q[i].type # "setReadiness"
      PROVE  NoWord(Tail(q))
  <2>1. \A i \in 1 .. Len(Tail(q)) : i + 1 \in 1 + 1 .. Len(q)
    BY <1>1
  <2> QED
    BY <1>1, <1>4, <2>1 DEF NoWord
<1>5. ASSUME NEW r, NEW b, Agreed(q, r, b), Head(q).type # "setReadiness"
      PROVE  Agreed(Tail(q), r, b)
  <2>1. CASE NoWord(q) /\ r = b
    BY <1>2, <2>1 DEF Agreed
  <2>2. CASE ~(NoWord(q) /\ r = b)
    <3>1. PICK k \in 1 .. Len(q) : /\ q[k] = ReadyMessage(b)
                                   /\ \A i \in k + 1 .. Len(q) : q[i].type # "setReadiness"
      BY <1>5, <2>2 DEF Agreed
    <3>2. ReadyMessage(b).type = "setReadiness"
      BY DEF ReadyMessage
    <3>3. k # 1
      BY <1>1, <1>5, <3>1, <3>2
    <3> QED
      BY <1>3, <3>1, <3>3
  <2> QED
    BY <2>1, <2>2
<1>6. ASSUME NEW r, NEW b, NEW v, Agreed(q, r, b), Head(q) = ReadyMessage(v)
      PROVE  Agreed(Tail(q), v, b)
  <2>1. ReadyMessage(v).type = "setReadiness" /\ (ReadyMessage(v) = ReadyMessage(b) => v = b)
    BY DEF ReadyMessage
  <2>2. ~NoWord(q)
    BY <1>2, <1>6, <2>1
  <2>3. PICK k \in 1 .. Len(q) : /\ q[k] = ReadyMessage(b)
                                 /\ \A i \in k + 1 .. Len(q) : q[i].type # "setReadiness"
    BY <1>6, <2>2 DEF Agreed
  <2>4. CASE k = 1
    <3>1. v = b
      BY <1>1, <1>6, <2>1, <2>3, <2>4
    <3>2. NoWord(Tail(q))
      BY <1>4, <2>3, <2>4
    <3> QED
      BY <3>1, <3>2 DEF Agreed
  <2>5. CASE k # 1
    BY <1>3, <2>3, <2>5
  <2> QED
    BY <2>4, <2>5
<1> QED
  BY <1>2, <1>5, <1>6

\* The start of a game is followed by that of a level.
Announced(q) == \A i \in 1 .. Len(q) : q[i].type = "gameStart" =>
                                         i < Len(q) /\ q[i + 1].type = "levelStart"

LEMMA AnnouncedJoin ==
  ASSUME NEW S, NEW q \in Seq(S), NEW r \in Seq(S), Announced(q), Announced(r)
  PROVE  Announced(q \o r)
<1> DEFINE p == q \o r
<1>1. /\ Len(q) \in Nat /\ Len(r) \in Nat /\ Len(p) = Len(q) + Len(r)
      /\ \A i \in 1 .. Len(q) : i \in 1 .. Len(p) /\ p[i] = q[i]
      /\ \A i \in 1 .. Len(r) : Len(q) + i \in 1 .. Len(p) /\ p[Len(q) + i] = r[i]
      /\ \A i \in 1 .. Len(p) : i \in 1 .. Len(q) \/ \E j \in 1 .. Len(r) : i = Len(q) + j
  BY Joined
<1> HIDE DEF p
<1>2. ASSUME NEW i \in 1 .. Len(q), p[i].type = "gameStart"
      PROVE  i < Len(p) /\ p[i + 1].type = "levelStart"
  <2>1. i < Len(q) /\ q[i + 1].type = "levelStart"
    BY <1>1, <1>2 DEF Announced
  <2>2. i + 1 \in 1 .. Len(q) /\ i < Len(p)
    BY <1>1, <2>1
  <2> QED
    BY <1>1, <2>1, <2>2
<1>3. ASSUME NEW j \in 1 .. Len(r), p[Len(q) + j].type = "gameStart"
      PROVE  Len(q) + j < Len(p) /\ p[(Len(q) + j) + 1].type = "levelStart"
  <2>1. j < Len(r) /\ r[j + 1].type = "levelStart"
    BY <1>1, <1>3 DEF Announced
  <2>2. j + 1 \in 1 .. Len(r) /\ Len(q) + j < Len(p) /\ (Len(q) + j) + 1 = Len(q) + (j + 1)
    BY <1>1, <2>1
  <2>3. p[Len(q) + (j + 1)] = r[j + 1]
    BY <1>1, <2>2
  <2> QED
    BY <2>1, <2>2, <2>3
<1>4. Announced(p)
  BY <1>1, <1>2, <1>3, ZenonT(40) DEF Announced
<1> QED
  BY <1>4 DEF p

LEMMA AnnouncedOff ==
  ASSUME NEW S, NEW q \in Seq(S), q # << >>, Announced(q)
  PROVE  /\ Announced(Tail(q))
         /\ Head(q).type = "gameStart" => /\ Tail(q) # << >>
                                          /\ Head(Tail(q)).type = "levelStart"
<1>1. /\ Head(q) = q[1] /\ 1 \in 1 .. Len(q) /\ Len(q) \in Nat /\ Len(Tail(q)) = Len(q) - 1
      /\ Tail(q) \in Seq(S)
      /\ \A i \in 1 .. Len(Tail(q)) : i + 1 \in 1 .. Len(q) /\ Tail(q)[i] = q[i + 1]
  BY Shortened
<1>2. ASSUME NEW i \in 1 .. Len(Tail(q)), Tail(q)[i].type = "gameStart"
      PROVE  i < Len(Tail(q)) /\ Tail(q)[i + 1].type = "levelStart"
  <2>1. i + 1 < Len(q) /\ q[(i + 1) + 1].type = "levelStart"
    BY <1>1, <1>2 DEF Announced
  <2>2. i < Len(Tail(q)) /\ i + 1 \in 1 .. Len(Tail(q))
    BY <1>1, <2>1
  <2> QED
    BY <1>1, <2>1, <2>2
<1>3. ASSUME Head(q).type = "gameStart"
      PROVE  Tail(q) # << >> /\ Head(Tail(q)).type = "levelStart"
  <2>1. 1 < Len(q) /\ q[1 + 1].type = "levelStart"
    BY <1>1, <1>3 DEF Announced
  <2>2. 1 \in 1 .. Len(Tail(q)) /\ Len(Tail(q)) # 0
    BY <1>1, <2>1
  <2>3. Tail(q) # << >>
    <3>1. Len(<< >>) = 0
      OBVIOUS
    <3> QED
      BY <2>2, <3>1, Zenon
  <2>4. Head(Tail(q)) = Tail(q)[1]
    BY <1>1, <2>3
  <2> QED
    BY <1>1, <2>1, <2>2, <2>3, <2>4
<1> QED
  BY <1>2, <1>3 DEF Announced

LEMMA HeadStays ==
  ASSUME NEW S, NEW q \in Seq(S), NEW r \in Seq(S), q # << >>
  PROVE  q \o r # << >> /\ Head(q \o r) = Head(q)
<1>1. 1 \in 1 .. Len(q) /\ Head(q) = q[1]
  BY Shortened
<1>2. q \o r \in Seq(S) /\ (q \o r)[1] = q[1] /\ 1 \in 1 .. Len(q \o r)
  BY <1>1, Joined, ConcatProperties
<1>3. q \o r # << >>
  BY <1>2
<1> QED
  BY <1>1, <1>2, <1>3, Shortened

-----------------------------------------------------------------------------
(* What is sent. *)

\* InOrder gives each player of ids once.
LEMMA InOrderIs ==
  ASSUME NEW ids \in SUBSET PlayerId
  PROVE  /\ InOrder(ids) \in Cast /\ Range(InOrder(ids)) = ids
         /\ \A i \in DOMAIN InOrder(ids) : InOrder(ids)[i] \in ids
<1> DEFINE N == Cardinality(ids)
           Place(p) == Cardinality({q \in ids : q <= p})
           f == [p \in ids |-> Place(p)]
<1>1. PlayerId \subseteq Nat /\ IsFiniteSet(PlayerId)
  BY SessionAssumption, FS_Interval DEF SessionAssumption, PlayerId
<1>2. IsFiniteSet(ids) /\ N \in Nat
  BY <1>1, FS_Subset, FS_CardinalityType
<1>3. ASSUME NEW p \in ids
      PROVE  /\ IsFiniteSet({q \in ids : q <= p})
             /\ Place(p) \in 1 .. N
  <2>1. {q \in ids : q <= p} \in SUBSET ids
    OBVIOUS
  <2>2. /\ IsFiniteSet({q \in ids : q <= p})
        /\ Place(p) <= N
    BY <1>2, <2>1, FS_Subset
  <2>3. p \in {q \in ids : q <= p}
    BY <1>1
  <2>4. Place(p) \in Nat /\ Place(p) # 0
    BY <2>2, <2>3, FS_CardinalityType, FS_EmptySet
  <2> QED
    BY <1>2, <2>2, <2>4
<1>4. ASSUME NEW p \in ids, NEW q \in ids, Place(p) = Place(q)
      PROVE  p = q
  <2>1. p <= q \/ q <= p
    BY <1>1
  <2>2. ASSUME NEW x \in ids, NEW y \in ids, x <= y, Place(x) = Place(y)
        PROVE  x = y
    <3>0. \A z \in ids : z \in Nat
      BY <1>1
    <3>1. {z \in ids : z <= x} \in SUBSET {z \in ids : z <= y}
      <4>1. \A z \in ids : z <= x => z <= y
        BY <2>2, <3>0
      <4> QED
        BY <4>1, Zenon
    <3>2. {z \in ids : z <= x} = {z \in ids : z <= y}
      BY <1>3, <2>2, <3>1, FS_Subset
    <3>3. y \in {z \in ids : z <= y}
      BY <1>1
    <3>4. y <= x
      BY <3>2, <3>3
    <3> QED
      BY <1>1, <2>2, <3>4
  <2> QED
    BY <1>4, <2>1, <2>2
<1>5. f \in Injection(ids, 1 .. N)
  <2>1. f \in [ids -> 1 .. N]
    BY <1>3
  <2>2. \A p, q \in ids : f[p] = f[q] => p = q
    BY <1>4
  <2> QED
    BY <2>1, <2>2 DEF Injection, IsInjective
<1>6. IsFiniteSet(1 .. N) /\ Cardinality(1 .. N) = N
  BY <1>2, FS_Interval
<1>7. f \in Surjection(ids, 1 .. N)
  <2> HIDE DEF f, N
  <2>1. N = Cardinality(ids)
    BY DEF N
  <2> QED
    BY <1>5, <1>6, <2>1, FS_Injection
<1>8. ASSUME NEW i \in 1 .. N
      PROVE  \E p \in ids : Place(p) = i
  <2>1. \E p \in ids : f[p] = i
    BY <1>7 DEF Surjection
  <2> QED
    BY <2>1
<1> DEFINE g == InOrder(ids)
<1>9. DOMAIN g = 1 .. N /\ g = [i \in 1 .. N |-> CHOOSE p \in ids : Place(p) = i]
  BY DEF InOrder
<1>10. \A i \in 1 .. N : g[i] \in ids /\ Place(g[i]) = i
  <2> HIDE DEF N, Place
  <2> QED
    BY <1>8, <1>9
<1>11. g \in Seq(PlayerId)
  <2> HIDE DEF g, N
  <2>1. g \in [1 .. N -> PlayerId]
    BY <1>9, <1>10
  <2> QED
    BY <1>2, <2>1
<1>12. IsInjective(g)
  <2> HIDE DEF g, N, Place
  <2> QED
    BY <1>9, <1>10 DEF IsInjective
<1>13. \A i \in DOMAIN g : g[i] \in ids
  <2> HIDE DEF g, N, Place
  <2> QED
    BY <1>9, <1>10
<1>14. \A p \in ids : \E i \in DOMAIN g : g[i] = p
  <2> TAKE p \in ids
  <2>1. Place(p) \in 1 .. N
    BY <1>3
  <2> HIDE DEF g, N, Place
  <2>2. Place(p) \in DOMAIN g /\ g[Place(p)] \in ids /\ Place(g[Place(p)]) = Place(p)
    BY <1>9, <1>10, <2>1
  <2> QED
    BY <1>4, <2>2
<1>15. Range(g) = ids
  <2> HIDE DEF g
  <2> QED
    BY <1>13, <1>14 DEF Range
<1> QED
  BY <1>11, <1>12, <1>13, <1>15 DEF Cast

LEMMA OneMessage ==
  ASSUME NEW S, NEW m \in S
  PROVE  /\ << m >> \in Seq(S) /\ Len(<< m >>) = 1 /\ << m >>[1] = m
         /\ << >> \in Seq(S)
OBVIOUS

LEMMA MessageTypes ==
  /\ GameStart \in ToClient /\ Tick \in ToClient /\ GameOver \in ToClient
  /\ \A ps \in Cast : LevelStart(ps) \in ToClient
  /\ \A p \in PlayerId, name \in Names, late \in BOOLEAN : PlayerAdded(p, name, late) \in ToClient
  /\ \A name \in Names : AddMessage(name) \in ToServer
  /\ \A ready \in BOOLEAN : ReadyMessage(ready) \in ToServer
BY DEF GameStart, Tick, GameOver, LevelStart, PlayerAdded, AddMessage, ReadyMessage,
       ToClient, ToServer

\* What is said while the game goes on, and at its end.
LEMMA SaidInGame ==
  ASSUME NEW ps \in Cast
  PROVE  /\ << Tick >> \in Seq(ToClient) /\ NoTurn(<< Tick >>) /\ Announced(<< Tick >>)
         /\ << Tick, LevelStart(ps) >> \in Seq(ToClient)
         /\ NoTurn(<< Tick, LevelStart(ps) >>) /\ Announced(<< Tick, LevelStart(ps) >>)
         /\ << Tick, GameOver >> \in Seq(ToClient)
         /\ OneTurn(<< Tick, GameOver >>, "gameOver") /\ Announced(<< Tick, GameOver >>)
<1>1. /\ Tick.type = "tick" /\ GameOver.type = "gameOver" /\ LevelStart(ps).type = "levelStart"
  BY DEF Tick, GameOver, LevelStart
<1>2. Tick \in ToClient /\ GameOver \in ToClient /\ LevelStart(ps) \in ToClient
  BY MessageTypes
<1>3. << Tick >> \in Seq(ToClient) /\ NoTurn(<< Tick >>) /\ Announced(<< Tick >>)
  BY <1>1, <1>2 DEF NoTurn, IsTurn, Announced
<1>4. << Tick, LevelStart(ps) >> \in Seq(ToClient)
  BY <1>2
<1>5. NoTurn(<< Tick, LevelStart(ps) >>) /\ Announced(<< Tick, LevelStart(ps) >>)
  BY <1>1 DEF NoTurn, IsTurn, Announced
<1>6. << Tick, GameOver >> \in Seq(ToClient)
  BY <1>2
<1>7. OneTurn(<< Tick, GameOver >>, "gameOver")
  <2>1. /\ Len(<< Tick, GameOver >>) = 2
        /\ << Tick, GameOver >>[1] = Tick /\ << Tick, GameOver >>[2] = GameOver
    OBVIOUS
  <2>2. \A i \in 1 .. 2 : i = 1 \/ i = 2
    OBVIOUS
  <2> QED
    BY <1>1, <2>1, <2>2 DEF OneTurn, IsTurn
<1>8. Announced(<< Tick, GameOver >>)
  BY <1>1 DEF Announced
<1> QED
  BY <1>3, <1>4, <1>5, <1>6, <1>7, <1>8

\* What the start of a game is announced with.
LEMMA OpeningIs ==
  ASSUME NEW cs, NEW ps, DOMAIN ps \in SUBSET PlayerId
  PROVE  /\ Opening(cs, ps) \in Seq(ToClient) /\ Announced(Opening(cs, ps))
         /\ ~Match!MayStart(cs, ps) => Opening(cs, ps) = << >>
         /\ Match!MayStart(cs, ps) /\ game' => OneTurn(Opening(cs, ps), "gameStart")
<1> DEFINE who == InOrder(DOMAIN ps)
           o == << GameStart, LevelStart(who) >>
           e == << Tick, GameOver >>
<1>1. who \in Cast
  BY InOrderIs
<1> HIDE DEF who
<1>2. GameStart.type = "gameStart" /\ LevelStart(who).type = "levelStart"
  BY DEF GameStart, LevelStart
<1>3. o \in Seq(ToClient)
  BY <1>1, MessageTypes
<1>4. e \in Seq(ToClient) /\ Announced(e)
  BY <1>1, SaidInGame
<1>5. Announced(o)
  BY <1>2 DEF Announced
<1>6. OneTurn(o, "gameStart")
  <2>1. Len(o) = 2 /\ o[1] = GameStart /\ o[2] = LevelStart(who)
    OBVIOUS
  <2>2. \A i \in 1 .. 2 : i = 1 \/ i = 2
    OBVIOUS
  <2> HIDE DEF o
  <2> QED
    BY <1>2, <2>1, <2>2 DEF OneTurn, IsTurn
<1>7. Opening(cs, ps) = IF ~Match!MayStart(cs, ps) THEN << >>
                        ELSE o \o IF game' THEN << >> ELSE e
  BY DEF Opening, who
<1> HIDE DEF o, e
<1>8. << >> \in Seq(ToClient) /\ Announced(<< >>) /\ o \o << >> = o
  <2>1. << >> \in Seq(ToClient) /\ Announced(<< >>)
    BY DEF Announced
  <2>2. o \o << >> = o
    BY <1>3, ConcatEmptySeq
  <2> QED
    BY <2>1, <2>2
<1>9. o \o e \in Seq(ToClient) /\ Announced(o \o e)
  BY <1>3, <1>4, <1>5, AnnouncedJoin, ConcatProperties
<1> QED
  BY <1>3, <1>5, <1>6, <1>7, <1>8, <1>9, Zenon

-----------------------------------------------------------------------------
(* The invariant. *)

ConnsOK(cs, next) == \A c \in DOMAIN cs : c \in ClientId /\ c < next /\ cs[c] \in BOOLEAN

RosterOK(ps) == \A p \in DOMAIN ps : p \in PlayerId /\ ps[p] \in [name : Names, client : ClientId]

ServerOK ==
  /\ up \in BOOLEAN /\ open \in BOOLEAN /\ game \in BOOLEAN
  /\ nextClientId \in 0 .. MaxClients /\ nextPlayerId \in 0 .. MaxAdds
  /\ ConnsOK(conns, nextClientId)
  /\ RosterOK(players)
  /\ cast \in Cast

QueuesOK == toServer \in Seq(ToServer) /\ toClient \in Seq(ToClient)

RemoteOK(rs) == rs \in Seq([id : PlayerId, name : Names]) /\ Ids(rs) \in Cast

LevelType == [mine : Cast, theirs : Cast, lastLifeGone : BOOLEAN]

ProgramOK ==
  /\ options \in Options /\ ui \in State /\ link \in ClientId \cup {None}
  /\ broken \in BOOLEAN /\ check \in BOOLEAN /\ overtaken \in BOOLEAN
  /\ RemoteOK(remote)
  /\ level \in LevelType \cup {<< >>}
  /\ missed \in SUBSET PlayerId

\* A connection that is not over is one of a server that runs.
Links ==
  /\ Talking => up /\ link \in DOMAIN conns
  /\ ~Linked => toClient = << >> /\ ~broken

\* Where the program stands, with q on its way to the server and r for what the
\* server takes its readiness for: in the lobby, or about to hear of a game; in
\* the game, or about to hear of its end; or looking at the scores.
Lobby(q, r) == ui = "configuring" /\ ~game /\ NoTurn(toClient) /\ Agreed(q, r, check)
Opens(q, r) == ui = "configuring" /\ game /\ OneTurn(toClient, "gameStart") /\ Agreed(q, r, check)
Plays == ui = "playing" /\ game /\ NoTurn(toClient)
Ended(q, r) == ui = "playing" /\ ~game /\ OneTurn(toClient, "gameOver") /\ NoWord(q) /\ ~r
Shows(q, r) == ui = "scores" /\ ~game /\ NoTurn(toClient) /\ NoWord(q) /\ ~r

Stands(q, r) ==
  ~overtaken /\ ui \notin {"lifeless", "levelless"} =>
    Lobby(q, r) \/ Opens(q, r) \/ Plays \/ Ended(q, r) \/ Shows(q, r)

InStep == Talking => Stands(toServer, conns[link])

\* A level is there when it is ticked.
Levels ==
  /\ ui # "levelless"
  /\ ui \in {"configuring", "scores"} => level = << >>
  /\ ui = "playing" /\ level = << >> /\ Linked =>
       toClient # << >> /\ Head(toClient).type = "levelStart"
  /\ Announced(toClient)

IInv == ServerOK /\ QueuesOK /\ ProgramOK /\ Links /\ InStep /\ Levels

LEMMA Initially == Init => IInv
<1> SUFFICES ASSUME Init PROVE IInv
  OBVIOUS
<1>0. /\ MaxClients \in Nat /\ MaxAdds \in Nat
      /\ \A o \in Options : o.ready \in BOOLEAN
  BY SessionAssumption DEF SessionAssumption
<1>1. ServerOK
  <2>1. cast \in Cast
    <3>1. << >> \in Seq(PlayerId) /\ IsInjective(<< >>)
      BY DEF IsInjective
    <3> QED
      BY <3>1 DEF Init, Cast
  <2>2. DOMAIN conns = {} /\ DOMAIN players = {}
    BY DEF Init, Match!Init
  <2>3. 0 \in 0 .. MaxClients /\ 0 \in 0 .. MaxAdds
    BY <1>0
  <2>4. ConnsOK(conns, nextClientId) /\ RosterOK(players)
    BY <2>2, Zenon DEF ConnsOK, RosterOK
  <2> QED
    BY <2>1, <2>3, <2>4 DEF Init, Match!Init, ServerOK
<1>2. QueuesOK
  BY DEF Init, QueuesOK
<1>3. ProgramOK
  <2>1. RemoteOK(<< >>)
    BY DEF RemoteOK, Ids, Cast, IsInjective
  <2> QED
    BY <1>0, <2>1 DEF Init, ProgramOK, State
<1>4. Links /\ InStep
  BY DEF Init, Links, InStep, Talking, Linked
<1>5. Levels
  BY DEF Init, Levels, Announced
<1> QED
  BY <1>1, <1>2, <1>3, <1>4, <1>5 DEF IInv

-----------------------------------------------------------------------------
(* The server's steps. *)

\* What a step of the server may not touch.
LEMMA ProgramStays ==
  ASSUME ProgramOK, UNCHANGED client, overtaken' \in BOOLEAN, missed' = missed
  PROVE  ProgramOK'
BY DEF ProgramOK, client

LEMMA LevelsTold ==
  ASSUME Levels, QueuesOK, UNCHANGED client, NEW ms \in Seq(ToClient), Announced(ms),
         toClient' = IF Talking THEN toClient \o ms ELSE toClient
  PROVE  Levels'
<1>1. CASE ~Talking
  BY <1>1 DEF Levels, client, Linked
<1>2. CASE Talking
  <2>1. toClient \in Seq(ToClient) /\ toClient' = toClient \o ms
    BY <1>2 DEF QueuesOK
  <2>2. Announced(toClient')
    BY <2>1, AnnouncedJoin DEF Levels
  <2>3. toClient # << >> => toClient' # << >> /\ Head(toClient') = Head(toClient)
    BY <2>1, HeadStays
  <2> QED
    BY <2>2, <2>3 DEF Levels, client, Linked
<1> QED
  BY <1>1, <1>2

\* A message has left the server with cs and ps.
LEMMA SettleIs ==
  ASSUME NEW cs, NEW ps, game \in BOOLEAN, NEW next, ConnsOK(cs, next), Match!Settle(cs, ps)
  PROVE  /\ ConnsOK(conns', next) /\ players' = ps /\ game' \in BOOLEAN
         /\ DOMAIN conns' = DOMAIN cs
         /\ ~Match!MayStart(cs, ps) => conns' = cs /\ game' = game
         /\ Match!MayStart(cs, ps) => ~game /\ \A c \in DOMAIN cs : cs[c]
         /\ Match!MayStart(cs, ps) /\ game' => conns' = cs
<1>1. ConnsOK(Match!Unready(cs), next) /\ DOMAIN Match!Unready(cs) = DOMAIN cs
  BY DEF ConnsOK, Match!Unready
<1>2. Match!MayStart(cs, ps) => ~game /\ \A c \in DOMAIN cs : cs[c]
  BY DEF Match!MayStart
<1> QED
  BY <1>1, <1>2 DEF Match!Settle

\* If the program stands where it should when a message has been taken, with cs
\* and ps, then so it does when the server has said what follows from that.
LEMMA SettledStands ==
  ASSUME NEW cs, NEW ps, NEW next, NEW news \in Seq(ToClient),
         ServerOK, QueuesOK, ProgramOK, Talking, link \in DOMAIN cs, DOMAIN ps \in SUBSET PlayerId,
         ConnsOK(cs, next), Match!Settle(cs, ps), NoTurn(news), Settled(news, cs, ps),
         Stands(toServer', cs[link])
  PROVE  InStep'
<1> DEFINE o == Opening(cs, ps)
           n == news \o o
<1>1. /\ o \in Seq(ToClient)
      /\ ~Match!MayStart(cs, ps) => o = << >>
      /\ Match!MayStart(cs, ps) /\ game' => OneTurn(o, "gameStart")
  BY OpeningIs
<1>2. /\ ~Match!MayStart(cs, ps) => conns' = cs /\ game' = game
      /\ Match!MayStart(cs, ps) => ~game /\ cs[link]
      /\ Match!MayStart(cs, ps) /\ game' => conns' = cs
  BY SettleIs DEF ServerOK
<1>3. toClient' = toClient \o n /\ toClient \in Seq(ToClient)
  BY DEF Settled, Told, QueuesOK
<1>4. /\ ui' = ui /\ check' = check /\ link' = link /\ broken' = broken
      /\ overtaken' = (overtaken \/ (Match!MayStart(cs, ps) /\ ~game'))
      /\ overtaken \in BOOLEAN
  BY DEF Settled, client, ProgramOK
<1> HIDE DEF o
<1>5. CASE ~Match!MayStart(cs, ps)
  <2>1. n \in Seq(ToClient) /\ NoTurn(n)
    BY <1>1, <1>5, NothingSent, TurnsJoin, ConcatProperties
  <2> HIDE DEF n
  <2>2. /\ NoTurn(toClient) => NoTurn(toClient')
        /\ \A t : OneTurn(toClient, t) => OneTurn(toClient', t)
    BY <1>3, <2>1, TurnsJoin
  <2>3. conns' = cs /\ game' = game /\ overtaken' = overtaken
    BY <1>2, <1>4, <1>5
  <2>4. conns'[link] = cs[link]
    BY <2>3
  <2>5. Stands(toServer', cs[link]) => Stands(toServer, conns[link])'
    BY <1>4, <2>2, <2>3, <2>4, SMTT(20) DEF Stands, Lobby, Opens, Plays, Ended, Shows
  <2> QED
    BY <2>5 DEF InStep
<1>6. CASE Match!MayStart(cs, ps) /\ ~game'
  BY <1>4, <1>6 DEF Stands, InStep
<1>7. CASE Match!MayStart(cs, ps) /\ game'
  <2>1. n \in Seq(ToClient) /\ OneTurn(n, "gameStart")
    BY <1>1, <1>7, TurnsJoin, ConcatProperties
  <2> HIDE DEF n
  <2>2. NoTurn(toClient) => OneTurn(toClient', "gameStart")
    BY <1>3, <2>1, TurnsJoin
  <2>3. conns' = cs /\ ~game /\ cs[link] /\ overtaken' = overtaken
    BY <1>2, <1>4, <1>7
  <2>4. conns'[link] = cs[link]
    BY <2>3
  <2>5. /\ ~Ended(toServer', cs[link]) /\ ~Shows(toServer', cs[link])
        /\ ~Opens(toServer', cs[link]) /\ ~Plays
    BY <2>3, Zenon DEF Opens, Plays, Ended, Shows
  <2>6. Lobby(toServer', cs[link]) => Opens(toServer, conns[link])'
    BY <1>4, <1>7, <2>2, <2>4, Zenon DEF Lobby, Opens
  <2>7. Stands(toServer', cs[link]) => Stands(toServer, conns[link])'
    BY <1>4, <2>3, <2>5, <2>6 DEF Stands
  <2> QED
    BY <2>7 DEF InStep
<1> QED
  BY <1>5, <1>6, <1>7

\* What else holds after it.
LEMMA SettledKeeps ==
  ASSUME NEW cs, NEW ps, NEW news \in Seq(ToClient), Announced(news), IInv,
         UNCHANGED << up, open, nextClientId >>,
         nextPlayerId' \in 0 .. MaxAdds, DOMAIN cs = DOMAIN conns,
         ConnsOK(cs, nextClientId), RosterOK(ps), Match!Settle(cs, ps), Settled(news, cs, ps)
  PROVE  ServerOK' /\ toClient' \in Seq(ToClient) /\ ProgramOK' /\ Links' /\ Levels'
<1>0. game \in BOOLEAN
  BY DEF IInv, ServerOK
<1>1. ConnsOK(conns', nextClientId) /\ players' = ps /\ game' \in BOOLEAN /\ DOMAIN conns' = DOMAIN cs
  BY <1>0, SettleIs
<1>2. DOMAIN ps \in SUBSET PlayerId
  BY DEF RosterOK
<1>3. Opening(cs, ps) \in Seq(ToClient) /\ Announced(Opening(cs, ps))
  BY <1>2, OpeningIs
<1> DEFINE n == news \o Opening(cs, ps)
<1>4. n \in Seq(ToClient) /\ Announced(n)
  BY <1>3, AnnouncedJoin, ConcatProperties
<1>5. toClient' = IF Talking THEN toClient \o n ELSE toClient
  BY DEF Settled, Told
<1> HIDE DEF n
<1>6. cast' \in Cast
  BY <1>2, InOrderIs DEF Settled, IInv, ServerOK
<1>7. ServerOK'
  BY <1>1, <1>6 DEF IInv, ServerOK, ConnsOK, RosterOK
<1>8. toClient' \in Seq(ToClient)
  BY <1>4, <1>5, ConcatProperties DEF IInv, QueuesOK
<1>9. UNCHANGED client /\ overtaken' \in BOOLEAN /\ missed' = missed
  BY DEF Settled, IInv, ProgramOK, Match!MayStart
<1>10. ProgramOK'
  BY <1>9, ProgramStays DEF IInv
<1>11. Levels'
  BY <1>4, <1>5, <1>9, LevelsTold DEF IInv
<1>12. Links'
  <2>1. ~Linked => ~Talking
    BY DEF Talking
  <2> QED
    BY <1>1, <1>5, <1>9, <2>1 DEF IInv, Links, Talking, Linked, client
<1> QED
  BY <1>7, <1>8, <1>10, <1>11, <1>12

LEMMA AddPlayerKeeps ==
  ASSUME IInv, NEW c \in DOMAIN conns, NEW name \in Names, AddPlayer(c, name),
         toServer' \in Seq(ToServer), Talking => Stands(toServer', conns[link])
  PROVE  IInv'
<1> DEFINE new == [name |-> name, client |-> c]
           ps == IF \E p \in DOMAIN players : players[p].name = name
                 THEN players ELSE Match!With(players, nextPlayerId, new)
           news == IF nextPlayerId \in DOMAIN players'
                   THEN << PlayerAdded(nextPlayerId, name, game) >> ELSE << >>
<1>1. /\ ServerOK /\ QueuesOK /\ ProgramOK /\ Links
      /\ ConnsOK(conns, nextClientId) /\ RosterOK(players) /\ game \in BOOLEAN
  BY DEF IInv, ServerOK
<1>2. nextPlayerId \in PlayerId /\ nextPlayerId + 1 \in 0 .. MaxAdds
  BY <1>1, SessionAssumption DEF AddPlayer, ServerOK, SessionAssumption, PlayerId
<1>3. new \in [name : Names, client : ClientId]
  BY <1>1 DEF ConnsOK
<1> HIDE DEF new
<1>4. RosterOK(Match!With(players, nextPlayerId, new))
  BY <1>1, <1>2, <1>3 DEF RosterOK, Match!With
<1>5. RosterOK(ps)
  BY <1>1, <1>4
<1>6. /\ Match!Settle(conns, ps) /\ Settled(news, conns, players')
      /\ nextPlayerId' = nextPlayerId + 1 /\ UNCHANGED << up, open, nextClientId >>
  BY DEF AddPlayer, Match!AddPlayer, new
<1> HIDE DEF ps
<1>7. players' = ps
  BY <1>6 DEF Match!Settle
<1>8. news \in Seq(ToClient) /\ NoTurn(news) /\ Announced(news)
  <2>1. PlayerAdded(nextPlayerId, name, game) \in ToClient
    BY <1>1, <1>2, MessageTypes
  <2>2. PlayerAdded(nextPlayerId, name, game).type = "playerAdded"
    BY DEF PlayerAdded
  <2>3. /\ << >> \in Seq(ToClient) /\ NoTurn(<< >>) /\ Announced(<< >>)
    BY DEF NoTurn, Announced
  <2> DEFINE m == PlayerAdded(nextPlayerId, name, game)
  <2> HIDE DEF m
  <2>4. << m >> \in Seq(ToClient) /\ NoTurn(<< m >>) /\ Announced(<< m >>)
    BY <2>1, <2>2 DEF m, NoTurn, IsTurn, Announced
  <2> QED
    BY <2>3, <2>4 DEF m
<1> HIDE DEF news
<1>9. ServerOK' /\ toClient' \in Seq(ToClient) /\ ProgramOK' /\ Links' /\ Levels'
  BY <1>1, <1>2, <1>5, <1>6, <1>7, <1>8, SettledKeeps
<1>10. InStep'
  <2>1. CASE ~Talking
    BY <1>6, <2>1 DEF InStep, Talking, Linked, Settled, client
  <2>2. CASE Talking
    <3>1. link \in DOMAIN conns /\ DOMAIN ps \in SUBSET PlayerId
      BY <1>1, <1>5, <2>2 DEF Links, RosterOK
    <3> QED
      BY <1>1, <1>6, <1>7, <1>8, <2>2, <3>1, SettledStands
  <2> QED
    BY <2>1, <2>2
<1> QED
  BY <1>9, <1>10 DEF IInv, QueuesOK

LEMMA SetReadinessKeeps ==
  ASSUME IInv, NEW c \in DOMAIN conns, NEW ready \in BOOLEAN, SetReadiness(c, ready),
         toServer' \in Seq(ToServer), Talking => Stands(toServer', [conns EXCEPT ![c] = ready][link])
  PROVE  IInv'
<1> DEFINE cs == [conns EXCEPT ![c] = ready]
<1>1. /\ ServerOK /\ QueuesOK /\ ProgramOK /\ Links
      /\ ConnsOK(conns, nextClientId) /\ RosterOK(players) /\ game \in BOOLEAN
  BY DEF IInv, ServerOK
<1>2. DOMAIN cs = DOMAIN conns /\ ConnsOK(cs, nextClientId)
  BY <1>1 DEF ConnsOK
<1>3. /\ Match!Settle(cs, players) /\ Settled(<< >>, cs, players)
      /\ nextPlayerId' = nextPlayerId /\ UNCHANGED << up, open, nextClientId >>
  BY DEF SetReadiness, Match!SetReadiness
<1> HIDE DEF cs
<1>4. << >> \in Seq(ToClient) /\ NoTurn(<< >>) /\ Announced(<< >>)
  BY DEF NoTurn, Announced
<1>5. nextPlayerId' \in 0 .. MaxAdds
  BY <1>1, <1>3 DEF ServerOK
<1>6. ServerOK' /\ toClient' \in Seq(ToClient) /\ ProgramOK' /\ Links' /\ Levels'
  BY <1>1, <1>2, <1>3, <1>4, <1>5, SettledKeeps
<1>7. InStep'
  <2>1. CASE ~Talking
    BY <1>3, <2>1 DEF InStep, Talking, Linked, Settled, client
  <2>2. CASE Talking
    <3>1. link \in DOMAIN cs /\ DOMAIN players \in SUBSET PlayerId
      BY <1>1, <1>2, <2>2 DEF Links, RosterOK
    <3>2. Stands(toServer', cs[link])
      BY <2>2 DEF cs
    <3> QED
      BY <1>1, <1>2, <1>3, <1>4, <2>2, <3>1, <3>2, SettledStands
  <2> QED
    BY <2>1, <2>2
<1> QED
  BY <1>6, <1>7 DEF IInv, QueuesOK

LEMMA HandleKeeps == IInv /\ Handle => IInv'
<1> SUFFICES ASSUME IInv, Handle PROVE IInv'
  OBVIOUS
<1> DEFINE m == Head(toServer)
<1>1. /\ Talking /\ toServer # << >> /\ toServer' = Tail(toServer)
      /\ \/ m.type = "addPlayer" /\ AddPlayer(link, m.name)
         \/ m.type = "setReadiness" /\ SetReadiness(link, m.ready)
  BY DEF Handle
<1>2. toServer \in Seq(ToServer) /\ link \in DOMAIN conns /\ Stands(toServer, conns[link])
  BY <1>1 DEF IInv, QueuesOK, Links, InStep
<1>3. m \in ToServer /\ toServer' \in Seq(ToServer)
  BY <1>1, <1>2, Shortened
<1>4. /\ NoWord(toServer) => m.type # "setReadiness" /\ NoWord(toServer')
      /\ \A r, b : Agreed(toServer, r, b) /\ m.type # "setReadiness" => Agreed(toServer', r, b)
      /\ \A r, b, v : Agreed(toServer, r, b) /\ m = ReadyMessage(v) => Agreed(toServer', v, b)
  BY <1>1, <1>2, WordsOff
<1> HIDE DEF m
<1>5. CASE m.type = "addPlayer" /\ AddPlayer(link, m.name)
  <2>1. m.name \in Names
    BY <1>3, <1>5 DEF ToServer
  <2>2. Stands(toServer', conns[link])
    <3>1. m.type # "setReadiness"
      BY <1>5
    <3> QED
      BY <1>2, <1>4, <3>1 DEF Stands, Lobby, Opens, Ended, Shows
  <2> QED
    BY <1>2, <1>3, <1>5, <2>1, <2>2, AddPlayerKeeps
<1>6. CASE m.type = "setReadiness" /\ SetReadiness(link, m.ready)
  <2>1. m.ready \in BOOLEAN /\ m = ReadyMessage(m.ready)
    BY <1>3, <1>6 DEF ToServer, ReadyMessage
  <2> DEFINE cs == [conns EXCEPT ![link] = m.ready]
  <2>2. cs[link] = m.ready
    BY <1>2
  <2> HIDE DEF cs
  <2>3. Stands(toServer', cs[link])
    BY <1>2, <1>4, <1>6, <2>1, <2>2 DEF Stands, Lobby, Opens, Ended, Shows
  <2> QED
    BY <1>2, <1>3, <1>6, <2>1, <2>3, SetReadinessKeeps DEF cs
<1> QED
  BY <1>1, <1>5, <1>6

LEMMA OthersAre ==
  ASSUME NEW c \in Others
  PROVE  c \in DOMAIN conns /\ (Talking => c # link)
BY DEF Others

LEMMA OtherHandledKeeps ==
  ASSUME IInv, NEW c \in Others, OtherHandled(c)
  PROVE  IInv'
<1>1. c \in DOMAIN conns /\ (Talking => c # link)
  BY OthersAre
<1>2. toServer' = toServer /\ toServer \in Seq(ToServer)
  BY DEF OtherHandled, IInv, QueuesOK
<1>3. Talking => Stands(toServer', conns[link]) /\ link \in DOMAIN conns
  BY <1>2 DEF IInv, InStep, Links
<1>4. ASSUME NEW name \in Names, AddPlayer(c, name)
      PROVE  IInv'
  BY <1>1, <1>2, <1>3, <1>4, AddPlayerKeeps
<1>5. ASSUME NEW ready \in BOOLEAN, SetReadiness(c, ready)
      PROVE  IInv'
  <2>1. Talking => [conns EXCEPT ![c] = ready][link] = conns[link]
    BY <1>1, <1>3
  <2>2. Talking => Stands(toServer', [conns EXCEPT ![c] = ready][link])
    BY <1>3, <2>1
  <2> QED
    BY <1>1, <1>2, <1>5, <2>2, SetReadinessKeeps
<1> QED
  BY <1>4, <1>5 DEF OtherHandled

\* What a step keeps that changes nothing but the server.
LEMMA ServerAlone ==
  ASSUME IInv, UNCHANGED << cast, toServer, toClient, client, history >>, ServerOK',
         Talking => up' /\ link \in DOMAIN conns' /\ conns'[link] = conns[link] /\ game' = game
  PROVE  IInv'
<1>1. /\ toServer' = toServer /\ toClient' = toClient /\ ui' = ui /\ link' = link
      /\ broken' = broken /\ level' = level /\ check' = check /\ overtaken' = overtaken
      /\ missed' = missed /\ UNCHANGED client
  BY DEF client, history
<1>2. Talking' = Talking /\ Linked' = Linked
  BY <1>1 DEF Talking, Linked
<1>3. QueuesOK' /\ Levels'
  BY <1>1, <1>2 DEF IInv, QueuesOK, Levels
<1>4. ProgramOK'
  BY <1>1, ProgramStays DEF IInv, ProgramOK
<1>5. Links'
  BY <1>1, <1>2 DEF IInv, Links
<1>6. InStep'
  <2>1. ASSUME Talking
        PROVE  Stands(toServer, conns[link])'
    <3>1. Stands(toServer, conns[link])
      BY <2>1 DEF IInv, InStep
    <3>2. conns'[link'] = conns[link] /\ game' = game
      BY <1>1, <2>1
    <3> QED
      BY <1>1, <3>1, <3>2 DEF Stands, Lobby, Opens, Plays, Ended, Shows
  <2> QED
    BY <1>2, <2>1 DEF InStep
<1> QED
  BY <1>3, <1>4, <1>5, <1>6 DEF IInv

\* A connection more.
LEMMA JoinIs ==
  ASSUME ServerOK, nextClientId < MaxClients, Match!Join, cast' = cast
  PROVE  /\ ServerOK' /\ nextClientId \in ClientId /\ game' = game /\ ~game /\ up'
         /\ DOMAIN conns' = DOMAIN conns \cup {nextClientId}
         /\ nextClientId \notin DOMAIN conns
         /\ \A c \in DOMAIN conns : conns'[c] = conns[c]
         /\ conns'[nextClientId] = FALSE
<1>1. /\ conns' = Match!With(conns, nextClientId, FALSE) /\ nextClientId' = nextClientId + 1
      /\ UNCHANGED << up, open, players, nextPlayerId, game >> /\ up /\ ~game
  BY DEF Match!Join
<1>2. nextClientId \in ClientId /\ nextClientId + 1 \in 0 .. MaxClients /\ nextClientId \in Nat
  BY SessionAssumption DEF SessionAssumption, ServerOK, ClientId
<1>3. ConnsOK(conns, nextClientId)
  BY DEF ServerOK
<1>4. /\ DOMAIN conns' = DOMAIN conns \cup {nextClientId} /\ nextClientId \notin DOMAIN conns
      /\ \A c \in DOMAIN conns : conns'[c] = conns[c]
      /\ conns'[nextClientId] = FALSE
  <2>1. ~(nextClientId < nextClientId)
    BY <1>2
  <2>2. nextClientId \notin DOMAIN conns
    BY <1>3, <2>1, Zenon DEF ConnsOK
  <2> QED
    BY <1>1, <2>2 DEF Match!With
<1>5. ConnsOK(conns', nextClientId')
  <2>1. ASSUME NEW c \in DOMAIN conns
        PROVE  c \in ClientId /\ c < nextClientId + 1 /\ conns'[c] \in BOOLEAN
    <3>1. c \in ClientId /\ c < nextClientId /\ conns[c] \in BOOLEAN
      BY <1>3 DEF ConnsOK
    <3>2. \A k, n \in Nat : k < n => k < n + 1
      OBVIOUS
    <3>3. c \in Nat
      BY <3>1 DEF ClientId
    <3> QED
      BY <1>2, <1>4, <3>1, <3>2, <3>3
  <2>2. nextClientId < nextClientId + 1
    BY <1>2
  <2> QED
    BY <1>1, <1>2, <1>4, <2>1, <2>2 DEF ConnsOK
<1>6. ServerOK'
  BY <1>1, <1>2, <1>5 DEF ServerOK, RosterOK
<1> QED
  BY <1>1, <1>2, <1>4, <1>6

LEMMA OtherJoinsKeeps == IInv /\ OtherJoins => IInv'
<1> SUFFICES ASSUME IInv, OtherJoins PROVE IInv'
  OBVIOUS
<1>1. /\ ServerOK' /\ game' = game /\ up'
      /\ DOMAIN conns' = DOMAIN conns \cup {nextClientId}
      /\ \A c \in DOMAIN conns : conns'[c] = conns[c]
  BY JoinIs DEF IInv, OtherJoins
<1>2. Talking => link \in DOMAIN conns
  BY DEF IInv, Links
<1> QED
  BY <1>1, <1>2, ServerAlone DEF OtherJoins

LEMMA OtherLeavesKeeps ==
  ASSUME IInv, NEW c \in Others, OtherLeaves(c)
  PROVE  IInv'
<1>1. /\ conns' = Match!Restrict(conns, DOMAIN conns \ {c})
      /\ players' = Match!Restrict(players, DOMAIN players \ Match!OwnedBy(c))
      /\ game' = (game /\ DOMAIN conns # {c})
      /\ UNCHANGED << up, open, nextClientId, nextPlayerId, cast >>
  BY DEF OtherLeaves, Match!Leave
<1>2. ServerOK /\ ConnsOK(conns, nextClientId) /\ RosterOK(players)
  BY DEF IInv, ServerOK
<1>3. /\ DOMAIN conns' = DOMAIN conns \ {c}
      /\ \A d \in DOMAIN conns \ {c} : conns'[d] = conns[d]
  BY <1>1 DEF Match!Restrict
<1>4. ConnsOK(conns', nextClientId')
  BY <1>1, <1>2, <1>3 DEF ConnsOK
<1>5. RosterOK(players')
  BY <1>1, <1>2 DEF RosterOK, Match!Restrict
<1>6. ServerOK'
  BY <1>1, <1>2, <1>4, <1>5 DEF ServerOK
<1>7. ASSUME Talking
      PROVE  up' /\ link \in DOMAIN conns' /\ conns'[link] = conns[link] /\ game' = game
  <2>1. up /\ link \in DOMAIN conns
    BY <1>7 DEF IInv, Links
  <2>2. link # c
    BY <1>7, OthersAre
  <2>3. DOMAIN conns # {c}
    BY <2>1, <2>2
  <2> QED
    BY <1>1, <1>2, <1>3, <2>1, <2>2, <2>3 DEF ServerOK
<1> QED
  BY <1>6, <1>7, ServerAlone DEF OtherLeaves

LEMMA PlayOnKeeps == IInv /\ PlayOn => IInv'
<1> SUFFICES ASSUME IInv, PlayOn PROVE IInv'
  OBVIOUS
<1>1. /\ game /\ UNCHANGED << server, toServer, client, history >>
      /\ \E ms \in {<< Tick >>, << Tick, LevelStart(cast) >>} : Told(ms)
  BY DEF PlayOn
<1>2. cast \in Cast /\ toClient \in Seq(ToClient)
  BY DEF IInv, ServerOK, QueuesOK
<1>3. PICK ms \in Seq(ToClient) : /\ NoTurn(ms) /\ Announced(ms)
                                  /\ toClient' = IF Talking THEN toClient \o ms ELSE toClient
  BY <1>1, <1>2, SaidInGame, Zenon DEF Told
<1>4. /\ toServer' = toServer /\ ui' = ui /\ link' = link
      /\ broken' = broken /\ level' = level /\ check' = check /\ overtaken' = overtaken
      /\ missed' = missed /\ conns' = conns /\ game' = game /\ up' = up
  BY <1>1 DEF client, history, server
<1>5. ServerOK'
  BY <1>1 DEF IInv, ServerOK, server, ConnsOK, RosterOK
<1>6. QueuesOK'
  BY <1>2, <1>3, <1>4, ConcatProperties DEF IInv, QueuesOK
<1>7. ProgramOK' /\ Levels'
  BY <1>1, <1>3, <1>4, ProgramStays, LevelsTold DEF IInv, ProgramOK
<1>8. Talking' = Talking /\ Linked' = Linked
  BY <1>4 DEF Talking, Linked
<1>9. Links'
  BY <1>3, <1>4, <1>8 DEF IInv, Links, Talking
<1>10. InStep'
  <2>1. ASSUME Talking
        PROVE  Stands(toServer, conns[link])'
    <3>1. Stands(toServer, conns[link])
      BY <2>1 DEF IInv, InStep
    <3>2. /\ NoTurn(toClient) => NoTurn(toClient')
          /\ \A t : OneTurn(toClient, t) => OneTurn(toClient', t)
      BY <1>2, <1>3, <2>1, TurnsJoin
    <3>3. conns'[link'] = conns[link]
      BY <1>4
    <3> QED
      BY <1>4, <3>1, <3>2, <3>3 DEF Stands, Lobby, Opens, Plays, Ended, Shows
  <2> QED
    BY <1>8, <2>1 DEF InStep
<1> QED
  BY <1>5, <1>6, <1>7, <1>9, <1>10 DEF IInv

LEMMA EndGameKeeps == IInv /\ EndGame => IInv'
<1> SUFFICES ASSUME IInv, EndGame PROVE IInv'
  OBVIOUS
<1> DEFINE ms == << Tick, GameOver >>
<1>1. /\ game /\ ~game' /\ conns' = Match!Unready(conns)
      /\ UNCHANGED << up, open, players, nextClientId, nextPlayerId, cast, toServer, client, missed >>
      /\ toClient' = IF Talking THEN toClient \o ms ELSE toClient
      /\ overtaken' = (overtaken \/ Overtakes)
  BY DEF EndGame, Match!GameOver, Told
<1>2. cast \in Cast /\ toClient \in Seq(ToClient)
  BY DEF IInv, ServerOK, QueuesOK
<1>3. ms \in Seq(ToClient) /\ OneTurn(ms, "gameOver") /\ Announced(ms)
  BY <1>2, SaidInGame
<1> HIDE DEF ms
<1>4. /\ ui' = ui /\ link' = link /\ broken' = broken /\ level' = level /\ check' = check
  BY <1>1 DEF client
<1>5. DOMAIN conns' = DOMAIN conns /\ \A c \in DOMAIN conns : conns'[c] = FALSE
  BY <1>1 DEF Match!Unready
<1>6. ServerOK'
  <2>1. ConnsOK(conns', nextClientId')
    BY <1>1, <1>5 DEF IInv, ServerOK, ConnsOK
  <2>2. game' \in BOOLEAN
    BY DEF EndGame, Match!GameOver
  <2> QED
    BY <1>1, <2>1, <2>2 DEF IInv, ServerOK, RosterOK
<1>7. QueuesOK'
  BY <1>1, <1>2, <1>3, ConcatProperties DEF IInv, QueuesOK
<1>8. ProgramOK' /\ Levels'
  <2>1. overtaken' \in BOOLEAN
    BY <1>1
  <2> QED
    BY <1>1, <1>3, <2>1, ProgramStays, LevelsTold DEF IInv
<1>9. Talking' = Talking /\ Linked' = Linked
  BY <1>4 DEF Talking, Linked
<1>10. Links'
  BY <1>1, <1>4, <1>5, <1>9 DEF IInv, Links, Talking
<1>11. InStep'
  <2>1. ASSUME Talking
        PROVE  Stands(toServer, conns[link])'
    <3>1. Stands(toServer, conns[link]) /\ link \in DOMAIN conns
      BY <2>1 DEF IInv, InStep, Links
    <3>2. NoTurn(toClient) => OneTurn(toClient', "gameOver")
      BY <1>1, <1>2, <1>3, <2>1, TurnsJoin
    <3>3. conns'[link'] = FALSE
      BY <1>4, <1>5, <3>1
    <3>4. ~Overtakes => ~OneTurn(toClient, "gameStart") /\ NoWord(toServer)
      <4>1. toServer \in Seq(ToServer)
        BY DEF IInv, QueuesOK
      <4>2. DOMAIN toServer = 1 .. Len(toServer) /\ DOMAIN toClient = 1 .. Len(toClient)
        BY <1>2, <4>1
      <4> QED
        BY <4>2 DEF Overtakes, OneTurn, NoWord
    <3>5. ~Lobby(toServer, conns[link]) /\ ~Ended(toServer, conns[link]) /\ ~Shows(toServer, conns[link])
      BY <1>1 DEF Lobby, Ended, Shows
    <3>6. ~Overtakes => ~Opens(toServer, conns[link])
      BY <3>4 DEF Opens
    <3>7. ~Overtakes /\ Plays => Ended(toServer, conns[link])'
      BY <1>1, <1>4, <3>2, <3>3, <3>4 DEF Plays, Ended
    <3> QED
      BY <1>1, <1>4, <3>1, <3>5, <3>6, <3>7 DEF Stands
  <2> QED
    BY <1>9, <2>1 DEF InStep
<1> QED
  BY <1>6, <1>7, <1>8, <1>10, <1>11 DEF IInv

LEMMA BreakKeeps == IInv /\ Break => IInv'
<1> SUFFICES ASSUME IInv, Break PROVE IInv'
  OBVIOUS
<1>1. /\ Talking /\ broken' = TRUE /\ toServer' = << >>
      /\ UNCHANGED << server, toClient, options, ui, link, remote, level, check, history >>
  BY DEF Break
<1>2. ServerOK'
  BY <1>1 DEF IInv, ServerOK, server, ConnsOK, RosterOK
<1>3. QueuesOK'
  BY <1>1 DEF IInv, QueuesOK
<1>4. ProgramOK'
  BY <1>1 DEF IInv, ProgramOK, history
<1>5. Links' /\ InStep'
  BY <1>1 DEF Links, InStep, Talking, Linked
<1>6. Levels'
  BY <1>1 DEF IInv, Levels, Linked
<1> QED
  BY <1>2, <1>3, <1>4, <1>5, <1>6 DEF IInv

LEMMA StopKeeps == IInv /\ Stop => IInv'
<1> SUFFICES ASSUME IInv, Stop PROVE IInv'
  OBVIOUS
<1>1. /\ broken' = Linked /\ toServer' = << >>
      /\ UNCHANGED << cast, toClient, options, ui, link, remote, level, check, history >>
  BY DEF Stop
<1>2. ServerOK'
  <2>1. CASE Match!Close
    <3>1. ConnsOK(conns', nextClientId')
      BY <2>1 DEF Match!Close, Match!Restrict, ConnsOK
    <3>2. UNCHANGED << up, players, nextClientId, nextPlayerId, game >> /\ open' \in BOOLEAN
      BY <2>1 DEF Match!Close
    <3> QED
      BY <1>1, <3>1, <3>2 DEF IInv, ServerOK, RosterOK
  <2>2. CASE Match!Die /\ UNCHANGED << open, conns, players, nextClientId, nextPlayerId, game >>
    BY <1>1, <2>2 DEF Match!Die, IInv, ServerOK, ConnsOK, RosterOK
  <2> QED
    BY <2>1, <2>2 DEF Stop
<1>3. QueuesOK'
  BY <1>1 DEF IInv, QueuesOK
<1>4. ProgramOK'
  BY <1>1 DEF IInv, ProgramOK, history, Linked
<1>5. Links' /\ InStep'
  BY <1>1 DEF IInv, Links, InStep, Talking, Linked
<1>6. Levels'
  BY <1>1 DEF IInv, Levels, Linked
<1> QED
  BY <1>2, <1>3, <1>4, <1>5, <1>6 DEF IInv

-----------------------------------------------------------------------------
(* The program's steps. *)

\* What a step keeps of the server.
LEMMA ServerStays ==
  ASSUME ServerOK, UNCHANGED server
  PROVE  ServerOK'
BY DEF ServerOK, server, ConnsOK, RosterOK

LEMMA SentStateIs ==
  ASSUME RosterOK(players)
  PROVE  SentState \in Seq(ToClient) /\ NoTurn(SentState) /\ Announced(SentState)
<1> DEFINE ids == InOrder(DOMAIN players)
           m(i) == PlayerAdded(ids[i], players[ids[i]].name, FALSE)
<1>1. ids \in Cast /\ \A i \in DOMAIN ids : ids[i] \in DOMAIN players
  BY InOrderIs DEF RosterOK
<1>2. PICK n \in Nat : DOMAIN ids = 1 .. n
  BY <1>1 DEF Cast
<1>3. SentState = [i \in 1 .. n |-> m(i)]
  BY <1>2 DEF SentState
<1> HIDE DEF ids
<1>4. \A i \in 1 .. n : m(i) \in ToClient /\ m(i).type = "playerAdded"
  <2>1. \A i \in 1 .. n : ids[i] \in PlayerId /\ players[ids[i]].name \in Names
    BY <1>1, <1>2 DEF RosterOK
  <2>2. \A i \in 1 .. n : m(i) \in ToClient
    BY <2>1, MessageTypes
  <2>3. \A i \in 1 .. n : m(i).type = "playerAdded"
    BY DEF PlayerAdded
  <2> QED
    BY <2>2, <2>3
<1> HIDE DEF m
<1>5. SentState \in Seq(ToClient) /\ Len(SentState) = n /\ \A i \in 1 .. n : SentState[i] = m(i)
  BY <1>3, <1>4
<1> QED
  BY <1>4, <1>5 DEF NoTurn, IsTurn, Announced

LEMMA SaidFirstIs ==
  ASSUME options \in Options, check \in BOOLEAN
  PROVE  SaidFirst \in Seq(ToServer) /\ Agreed(SaidFirst, FALSE, check)
<1> DEFINE S == options.players
           names == SetToSeq(S)
           adds == [i \in DOMAIN names |-> AddMessage(names[i])]
           said == IF check THEN << ReadyMessage(TRUE) >> ELSE << >>
<1>1. S \in SUBSET Mine /\ IsFiniteSet(Mine) /\ Mine \subseteq Names
  BY SessionAssumption DEF SessionAssumption
<1> HIDE DEF S
<1>2. IsFiniteSet(S) /\ Cardinality(S) \in Nat
  BY <1>1, FS_Subset, FS_CardinalityType
<1>3. names \in [1 .. Cardinality(S) -> S]
  <2>1. PICK n \in Nat : ExistsBijection(1 .. n, S)
    BY <1>2, FS_NatBijection
  <2>2. Cardinality(S) = n
    BY <2>1, FS_CountingElements
  <2>3. \E f \in [1 .. Cardinality(S) -> S] : IsInjective(f)
    BY <2>1, <2>2 DEF ExistsBijection, Bijection, Injection
  <2> QED
    BY <2>3, Zenon DEF SetToSeq
<1> HIDE DEF names
<1>4. \A i \in 1 .. Cardinality(S) : AddMessage(names[i]) \in ToServer
                                     /\ AddMessage(names[i]).type # "setReadiness"
  <2>1. \A i \in 1 .. Cardinality(S) : names[i] \in Names
    BY <1>1, <1>3
  <2>2. \A i \in 1 .. Cardinality(S) : AddMessage(names[i]).type # "setReadiness"
    BY DEF AddMessage
  <2> QED
    BY <2>1, <2>2, MessageTypes
<1>5. adds \in Seq(ToServer) /\ NoWord(adds)
  <2>1. adds = [i \in 1 .. Cardinality(S) |-> AddMessage(names[i])]
    BY <1>3
  <2> HIDE DEF adds
  <2>2. /\ adds \in Seq(ToServer) /\ Len(adds) = Cardinality(S)
        /\ \A i \in 1 .. Cardinality(S) : adds[i] = AddMessage(names[i])
    BY <1>2, <1>4, <2>1
  <2> QED
    BY <1>4, <2>2 DEF NoWord
<1>6. SaidFirst = adds \o said
  BY DEF SaidFirst, names, S
<1> HIDE DEF adds
<1>0. ReadyMessage(TRUE) \in ToServer
  BY DEF ReadyMessage, ToServer
<1>7. said \in Seq(ToServer)
  BY <1>0, OneMessage, Zenon
<1>8. CASE check
  <2> DEFINE s == << ReadyMessage(TRUE) >>
  <2>1. s \in Seq(ToServer) /\ Len(s) = 1 /\ s[1] = ReadyMessage(TRUE)
    BY <1>0, OneMessage, Zenon
  <2>2. said = s /\ check = TRUE
    BY <1>8
  <2> HIDE DEF s, said
  <2>3. Agreed(adds \o s, FALSE, TRUE)
    BY <1>5, <2>1, LastWord
  <2> QED
    BY <1>5, <1>6, <1>7, <2>2, <2>3, ConcatProperties
<1>9. CASE ~check
  <2>1. said = << >> /\ check = FALSE
    BY <1>9
  <2> HIDE DEF said
  <2>2. SaidFirst = adds
    BY <1>5, <1>6, <2>1, ConcatEmptySeq
  <2> QED
    BY <1>5, <2>1, <2>2 DEF Agreed
<1> QED
  BY <1>8, <1>9

LEMMA ConnectKeeps == IInv /\ Connect => IInv'
<1> SUFFICES ASSUME IInv, Connect PROVE IInv'
  OBVIOUS
<1>1. /\ ui = "configuring" /\ nextClientId < MaxClients /\ Match!Join
      /\ link' = nextClientId /\ broken' = FALSE /\ overtaken' = FALSE
      /\ toClient' = SentState /\ toServer' = SaidFirst
      /\ UNCHANGED << cast, options, ui, remote, level, check, missed >>
  BY DEF Connect
<1>2. ServerOK /\ ProgramOK /\ RosterOK(players)
  BY DEF IInv, ServerOK
<1>3. /\ ServerOK' /\ nextClientId \in ClientId /\ game' = game /\ ~game /\ up'
      /\ DOMAIN conns' = DOMAIN conns \cup {nextClientId}
      /\ conns'[nextClientId] = FALSE
  BY <1>1, <1>2, JoinIs
<1>4. toClient' \in Seq(ToClient) /\ NoTurn(toClient') /\ Announced(toClient')
  BY <1>1, <1>2, SentStateIs
<1>5. toServer' \in Seq(ToServer) /\ Agreed(toServer', FALSE, check)
  BY <1>1, <1>2, SaidFirstIs DEF ProgramOK
<1>6. QueuesOK'
  BY <1>4, <1>5 DEF QueuesOK
<1>7. ProgramOK'
  BY <1>1, <1>2, <1>3 DEF ProgramOK
<1>8. nextClientId # None
  BY <1>3 DEF ClientId, None
<1>9. Links'
  BY <1>1, <1>3, <1>8 DEF Links, Talking, Linked
<1>10. InStep'
  <2>1. conns'[link'] = FALSE /\ check' = check /\ ui' = "configuring" /\ ~game'
    BY <1>1, <1>3
  <2>2. Lobby(toServer, conns[link])'
    BY <1>4, <1>5, <2>1 DEF Lobby
  <2> QED
    BY <2>2 DEF InStep, Stands
<1>11. Levels'
  BY <1>1, <1>4 DEF IInv, Levels
<1> QED
  BY <1>3, <1>6, <1>7, <1>9, <1>10, <1>11 DEF IInv

LEMMA RefusedKeeps == IInv /\ Refused => IInv'
<1> SUFFICES ASSUME IInv, Refused PROVE IInv'
  OBVIOUS
<1>1. /\ remote' = << >>
      /\ UNCHANGED << server, toServer, toClient, options, ui, link, broken, level, check, history >>
  BY DEF Refused
<1>2. RemoteOK(<< >>)
  BY DEF RemoteOK, Ids, Cast, IsInjective
<1>3. ServerOK' /\ QueuesOK'
  BY <1>1, ServerStays DEF IInv, QueuesOK
<1>4. ProgramOK'
  BY <1>1, <1>2 DEF IInv, ProgramOK, history
<1>5. Links' /\ Levels'
  BY <1>1 DEF IInv, Links, Levels, Talking, Linked, server
<1>6. InStep'
  BY <1>1 DEF IInv, InStep, Stands, Lobby, Opens, Plays, Ended, Shows, Talking, Linked, server, history
<1> QED
  BY <1>3, <1>4, <1>5, <1>6 DEF IInv

\* What the program says while it configures.
LEMMA Said ==
  ASSUME IInv, NEW ms \in Seq(ToServer),
         toServer' = IF Talking THEN toServer \o ms ELSE toServer,
         UNCHANGED << server, toClient, link, broken, overtaken, ui >>,
         \/ check' = check /\ NoWord(ms) /\ ui = "configuring"
         \/ Len(ms) = 1 /\ ms[1] = ReadyMessage(check') /\ ui = "configuring"
  PROVE  QueuesOK' /\ Links' /\ InStep'
<1>1. toServer \in Seq(ToServer)
  BY DEF IInv, QueuesOK
<1>2. QueuesOK'
  BY <1>1, ConcatProperties DEF IInv, QueuesOK
<1>3. Talking' = Talking /\ Linked' = Linked
  BY DEF Talking, Linked
<1>4. Links'
  BY <1>3 DEF IInv, Links, server
<1>5. InStep'
  <2>1. ASSUME Talking
        PROVE  Stands(toServer, conns[link])'
    <3>1. Stands(toServer, conns[link])
      BY <2>1 DEF IInv, InStep
    <3>2. Agreed(toServer, conns[link], check) => Agreed(toServer', conns[link], check')
      BY <1>1, <2>1, WordsJoin, LastWord
    <3>3. conns'[link'] = conns[link] /\ game' = game /\ ui' = ui
      BY DEF server
    <3>4. ui = "configuring"
      OBVIOUS
    <3> QED
      BY <3>1, <3>2, <3>3, <3>4 DEF Stands, Lobby, Opens, Plays, Ended, Shows
  <2> QED
    BY <1>3, <2>1 DEF InStep
<1> QED
  BY <1>2, <1>4, <1>5

LEMMA ReadinessChangeKeeps == IInv /\ ReadinessChange => IInv'
<1> SUFFICES ASSUME IInv, ReadinessChange PROVE IInv'
  OBVIOUS
<1> DEFINE ms == << ReadyMessage(check') >>
<1>1. /\ ui = "configuring" /\ check' \in BOOLEAN
      /\ toServer' = IF Talking THEN toServer \o ms ELSE toServer
      /\ UNCHANGED << server, toClient, options, ui, link, broken, remote, level, history >>
  BY DEF ReadinessChange, Posted
<1>2. ReadyMessage(check') \in ToServer
  BY <1>1, MessageTypes
<1>3. ms \in Seq(ToServer) /\ Len(ms) = 1 /\ ms[1] = ReadyMessage(check')
  BY <1>2
<1> HIDE DEF ms
<1>4. QueuesOK' /\ Links' /\ InStep'
  BY <1>1, <1>3, Said DEF history
<1>5. ServerOK'
  BY <1>1, ServerStays DEF IInv
<1>6. ProgramOK'
  BY <1>1 DEF IInv, ProgramOK, history
<1>7. Levels'
  BY <1>1 DEF IInv, Levels, Linked
<1> QED
  BY <1>4, <1>5, <1>6, <1>7 DEF IInv

LEMMA AddPlayerClickedKeeps == IInv /\ AddPlayerClicked => IInv'
<1> SUFFICES ASSUME IInv, AddPlayerClicked PROVE IInv'
  OBVIOUS
<1>1. /\ ui = "configuring"
      /\ UNCHANGED << server, toClient, client, history >>
      /\ \E name \in Mine : Posted(<< AddMessage(name) >>)
  BY DEF AddPlayerClicked
<1>2. PICK name \in Names : toServer' = IF Talking THEN toServer \o << AddMessage(name) >> ELSE toServer
  BY <1>1, SessionAssumption DEF Posted, SessionAssumption
<1> DEFINE ms == << AddMessage(name) >>
<1>3. AddMessage(name) \in ToServer /\ AddMessage(name).type # "setReadiness"
  BY MessageTypes DEF AddMessage
<1>4. ms \in Seq(ToServer) /\ NoWord(ms)
  BY <1>3 DEF NoWord
<1>5. toServer' = IF Talking THEN toServer \o ms ELSE toServer
  BY <1>2
<1> HIDE DEF ms
<1>6. QueuesOK' /\ Links' /\ InStep'
  BY <1>1, <1>4, <1>5, Said DEF history, client
<1>7. ServerOK'
  BY <1>1, ServerStays DEF IInv
<1>8. ProgramOK'
  BY <1>1 DEF IInv, ProgramOK, history, client
<1>9. Levels'
  BY <1>1 DEF IInv, Levels, Linked, client
<1> QED
  BY <1>6, <1>7, <1>8, <1>9 DEF IInv

LEMMA HighScoreOkKeeps == IInv /\ HighScoreOk => IInv'
<1> SUFFICES ASSUME IInv, HighScoreOk PROVE IInv'
  OBVIOUS
<1> DEFINE ms == IF options.ready THEN << ReadyMessage(TRUE) >> ELSE << >>
<1>1. /\ ui = "scores" /\ ui' = "configuring" /\ check' = options.ready
      /\ toServer' = IF Talking THEN toServer \o ms ELSE toServer
      /\ UNCHANGED << server, toClient, options, link, broken, remote, level, history >>
  BY DEF HighScoreOk, Posted
<1>2. options.ready \in BOOLEAN /\ toServer \in Seq(ToServer)
  BY SessionAssumption DEF SessionAssumption, IInv, ProgramOK, QueuesOK
<1>3. ReadyMessage(TRUE) \in ToServer
  BY DEF ReadyMessage, ToServer
<1>4. ms \in Seq(ToServer)
  BY <1>3, OneMessage, Zenon
<1>5. /\ options.ready => check' = TRUE /\ Len(ms) = 1 /\ ms[1] = ReadyMessage(TRUE)
      /\ ~options.ready => check' = FALSE /\ ms = << >>
  BY <1>1, <1>2
<1> HIDE DEF ms
<1>6. QueuesOK'
  BY <1>1, <1>2, <1>4, ConcatProperties DEF IInv, QueuesOK
<1>7. Talking' = Talking /\ Linked' = Linked
  BY <1>1 DEF Talking, Linked
<1>8. Links'
  BY <1>1, <1>7 DEF IInv, Links, server
<1>9. NoWord(toServer) /\ ~conns[link] => (Talking => Agreed(toServer', conns[link], check'))
  <2>1. ASSUME Talking, options.ready
        PROVE  Agreed(toServer', conns[link], check')
    BY <1>1, <1>2, <1>4, <1>5, <2>1, LastWord
  <2>2. ASSUME Talking, ~options.ready, NoWord(toServer), conns[link] = FALSE
        PROVE  Agreed(toServer', conns[link], check')
    <3>1. toServer' = toServer
      BY <1>1, <1>2, <1>5, <2>2, ConcatEmptySeq
    <3> QED
      BY <1>5, <2>2, <3>1 DEF Agreed
  <2>3. Talking => conns[link] \in BOOLEAN
    BY DEF IInv, Links, ServerOK, ConnsOK
  <2> QED
    BY <2>1, <2>2, <2>3
<1>10. InStep'
  <2>1. ASSUME Talking
        PROVE  Stands(toServer, conns[link])'
    <3>1. Stands(toServer, conns[link])
      BY <2>1 DEF IInv, InStep
    <3>2. conns'[link'] = conns[link] /\ game' = game /\ overtaken' = overtaken /\ toClient' = toClient
      BY <1>1 DEF server, history
    <3>3. ~overtaken => Shows(toServer, conns[link])
      BY <1>1, <3>1 DEF Stands, Lobby, Opens, Plays, Ended
    <3>4. ~overtaken => Lobby(toServer, conns[link])'
      BY <1>1, <1>9, <2>1, <3>2, <3>3 DEF Shows, Lobby
    <3> QED
      BY <3>2, <3>4 DEF Stands
  <2> QED
    BY <1>7, <2>1 DEF InStep
<1>11. ServerOK'
  BY <1>1, ServerStays DEF IInv
<1>12. ProgramOK'
  BY <1>1, <1>2 DEF IInv, ProgramOK, history, State
<1>13. Levels'
  BY <1>1 DEF IInv, Levels, Linked
<1> QED
  BY <1>6, <1>8, <1>10, <1>11, <1>12, <1>13 DEF IInv

LEMMA KeyPressKeeps == IInv /\ KeyPress => IInv'
<1> SUFFICES ASSUME IInv, KeyPress PROVE IInv'
  OBVIOUS
<1>1. /\ ~Linked /\ ui' = "unplugged"
      /\ UNCHANGED << server, toServer, toClient, options, link, broken, remote, level, check, history >>
  BY DEF KeyPress
<1>2. ServerOK' /\ QueuesOK'
  BY <1>1, ServerStays DEF IInv, QueuesOK
<1>3. ProgramOK'
  BY <1>1 DEF IInv, ProgramOK, history, State
<1>4. Links' /\ InStep'
  BY <1>1 DEF IInv, Links, InStep, Talking, Linked, server
<1>5. Levels'
  BY <1>1 DEF IInv, Levels
<1> QED
  BY <1>2, <1>3, <1>4, <1>5 DEF IInv

LEMMA DisconnectKeeps == IInv /\ Disconnect => IInv'
<1> SUFFICES ASSUME IInv, Disconnect PROVE IInv'
  OBVIOUS
<1>1. /\ link' = None /\ broken' = FALSE /\ toClient' = << >>
      /\ remote' = IF ui = "configuring" THEN << >> ELSE remote
      /\ UNCHANGED << server, toServer, options, ui, level, check, history >>
  BY DEF Disconnect
<1>2. RemoteOK(<< >>)
  BY DEF RemoteOK, Ids, Cast, IsInjective
<1>3. ServerOK' /\ QueuesOK'
  BY <1>1, ServerStays DEF IInv, QueuesOK
<1>4. ProgramOK'
  BY <1>1, <1>2 DEF IInv, ProgramOK, history
<1>5. Links' /\ InStep'
  BY <1>1 DEF Links, InStep, Talking, Linked
<1>6. Levels'
  BY <1>1 DEF IInv, Levels, Linked, Announced
<1> QED
  BY <1>3, <1>4, <1>5, <1>6 DEF IInv

LEMMA RestartKeeps == IInv /\ Restart => IInv'
<1> SUFFICES ASSUME IInv, Restart PROVE IInv'
  OBVIOUS
<1>1. /\ options' \in Options /\ ui' = "configuring" /\ link' = None /\ broken' = FALSE
      /\ toServer' = << >> /\ toClient' = << >> /\ remote' = << >> /\ level' = << >>
      /\ check' = options'.ready /\ missed' = {} /\ overtaken' = FALSE /\ UNCHANGED server
  BY DEF Restart
<1>2. RemoteOK(<< >>) /\ options'.ready \in BOOLEAN
  BY <1>1, SessionAssumption DEF SessionAssumption, RemoteOK, Ids, Cast, IsInjective
<1>3. ServerOK' /\ QueuesOK'
  BY <1>1, ServerStays DEF IInv, QueuesOK
<1>4. ProgramOK'
  BY <1>1, <1>2 DEF ProgramOK, State
<1>5. Links' /\ InStep'
  BY <1>1 DEF Links, InStep, Talking, Linked
<1>6. Levels'
  BY <1>1 DEF Levels, Linked, Announced
<1> QED
  BY <1>3, <1>4, <1>5, <1>6 DEF IInv

LEMMA ListedIs ==
  ASSUME NEW rs, RemoteOK(rs), NEW m, m.id \in PlayerId, m.name \in Names
  PROVE  RemoteOK(Listed(rs, m))
<1> DEFINE Entry == [id : PlayerId, name : Names]
           e == [id |-> m.id, name |-> m.name]
           as == Append(rs, e)
<1>1. rs \in Seq(Entry) /\ Ids(rs) \in Cast
  BY DEF RemoteOK
<1>2. e \in Entry /\ e.id = m.id
  OBVIOUS
<1>3. CASE \E i \in DOMAIN rs : rs[i].id = m.id \/ rs[i].name = m.name
  BY <1>3 DEF Listed
<1>4. CASE ~\E i \in DOMAIN rs : rs[i].id = m.id \/ rs[i].name = m.name
  <2>1. Listed(rs, m) = as
    BY <1>4 DEF Listed
  <2> HIDE DEF e, Entry
  <2>2. /\ as \in Seq(Entry) /\ Len(rs) \in Nat /\ Len(as) = Len(rs) + 1
        /\ \A i \in 1 .. Len(rs) : as[i] = rs[i]
        /\ as[Len(rs) + 1] = e
    BY <1>1, <1>2, AppendProperties
  <2>3. DOMAIN rs = 1 .. Len(rs) /\ DOMAIN as = 1 .. Len(as)
    BY <1>1, <2>2
  <2> HIDE DEF as
  <2>4. \A i \in 1 .. Len(as) : i \in 1 .. Len(rs) \/ i = Len(rs) + 1
    BY <2>2
  <2>5. \A i \in 1 .. Len(as) : as[i].id \in PlayerId
    <3>1. \A i \in 1 .. Len(rs) : rs[i] \in Entry
      BY <1>1
    <3>2. \A i \in 1 .. Len(as) : as[i] \in Entry
      BY <1>2, <2>2, <2>4, <3>1
    <3> QED
      BY <3>2 DEF Entry
  <2>6. Ids(as) \in Seq(PlayerId)
    <3>1. Ids(as) = [i \in 1 .. Len(as) |-> as[i].id] /\ Len(as) \in Nat
      BY <2>2, <2>3 DEF Ids
    <3>2. Ids(as) \in [1 .. Len(as) -> PlayerId]
      BY <2>5, <3>1, Zenon
    <3>3. \A n \in Nat : \A f \in [1 .. n -> PlayerId] : f \in Seq(PlayerId)
      OBVIOUS
    <3> QED
      BY <3>1, <3>2, <3>3, Zenon
  <2>7. \A i, j \in 1 .. Len(rs) : rs[i].id = rs[j].id => i = j
    BY <1>1, <2>3 DEF Cast, Ids, IsInjective
  <2>8. \A i \in 1 .. Len(rs) : rs[i].id # e.id
    BY <1>2, <1>4, <2>3
  <2>9. ASSUME NEW i \in 1 .. Len(as), NEW j \in 1 .. Len(as), as[i].id = as[j].id
        PROVE  i = j
    BY <2>2, <2>4, <2>7, <2>8, <2>9
  <2>10. IsInjective(Ids(as))
    BY <2>3, <2>9 DEF IsInjective, Ids
  <2> QED
    BY <2>1, <2>2, <2>6, <2>10 DEF RemoteOK, Cast, Entry
<1> QED
  BY <1>3, <1>4

LEMMA TickedIs ==
  ASSUME Ticked, level \in LevelType \cup {<< >>}, ui = "playing"
  PROVE  /\ ui' \in {"playing", "levelless", "lifeless"}
         /\ level' \in LevelType \cup {<< >>}
         /\ ui' = "levelless" => level = << >>
         /\ level # << >> => level' # << >>
<1>1. CASE level = << >> /\ ui' = "levelless" /\ UNCHANGED level
  BY <1>1
<1>2. CASE level # << >> /\ UNCHANGED << ui, level >>
  BY <1>2
<1>3. CASE level # << >> /\ level' = [level EXCEPT !.lastLifeGone = TRUE] /\ UNCHANGED ui
  <2>1. level' \in LevelType
    BY <1>3 DEF LevelType
  <2>2. level' # << >>
    <3>1. level'.lastLifeGone = TRUE /\ DOMAIN level' = {"mine", "theirs", "lastLifeGone"}
      BY <2>1, <1>3 DEF LevelType
    <3>2. DOMAIN << >> = {}
      OBVIOUS
    <3> QED
      BY <3>1, <3>2
  <2> QED
    BY <1>3, <2>1, <2>2
<1>4. CASE level # << >> /\ ui' = "lifeless" /\ UNCHANGED level
  BY <1>4
<1> QED
  BY <1>1, <1>2, <1>3, <1>4 DEF Ticked

LEMMA LevelIs ==
  ASSUME NEW theirs \in Cast, RemoteOK(remote), level \in LevelType \cup {<< >>}
  PROVE  Level(theirs) \in LevelType /\ Level(theirs) # << >>
<1>1. level # << >> => level.lastLifeGone \in BOOLEAN
  BY DEF LevelType
<1>2. (level # << >> /\ level.lastLifeGone) \in BOOLEAN
  OBVIOUS
<1>3. Level(theirs) \in LevelType
  BY <1>2 DEF Level, LevelType, RemoteOK
<1>4. DOMAIN Level(theirs) = {"mine", "theirs", "lastLifeGone"} /\ DOMAIN << >> = {}
  BY DEF Level
<1> QED
  BY <1>3, <1>4

LEMMA ReceiveKeeps == IInv /\ Receive => IInv'
<1> SUFFICES ASSUME IInv, Receive PROVE IInv'
  OBVIOUS
<1> DEFINE m == Head(toClient)
<1>1. /\ toClient # << >> /\ toClient' = Tail(toClient)
      /\ UNCHANGED << server, toServer, options, link, broken, check, overtaken >>
      /\ Configure(m) \/ Play(m) \/ ViewScores(m)
  BY DEF Receive
<1>2. toClient \in Seq(ToClient) /\ ProgramOK /\ Announced(toClient) /\ RemoteOK(remote)
  BY DEF IInv, QueuesOK, Levels, ProgramOK
<1>3. m \in ToClient /\ toClient' \in Seq(ToClient)
  BY <1>1, <1>2, Shortened
<1>4. /\ NoTurn(toClient) => ~IsTurn(m) /\ NoTurn(toClient')
      /\ OneTurn(toClient, "gameStart") =>
           IF IsTurn(m) THEN m.type = "gameStart" /\ NoTurn(toClient') ELSE OneTurn(toClient', "gameStart")
      /\ OneTurn(toClient, "gameOver") =>
           IF IsTurn(m) THEN m.type = "gameOver" /\ NoTurn(toClient') ELSE OneTurn(toClient', "gameOver")
  BY <1>1, <1>2, TurnsOff
<1>5. /\ Announced(toClient')
      /\ m.type = "gameStart" => toClient' # << >> /\ Head(toClient').type = "levelStart"
  BY <1>1, <1>2, AnnouncedOff
<1>6. ui = "playing" /\ level = << >> => m.type = "levelStart"
  BY <1>1 DEF IInv, Levels, Links
<1> HIDE DEF m
<1>7. ServerOK' /\ QueuesOK'
  BY <1>1, <1>3, ServerStays DEF IInv, QueuesOK
<1>8. Talking' = Talking /\ Linked' = Linked
  BY <1>1 DEF Talking, Linked
<1>9. Links'
  BY <1>1, <1>8 DEF IInv, Links, server
<1>10. /\ m.type = "playerAdded" => m.id \in PlayerId /\ m.name \in Names
       /\ m.type = "levelStart" => m.cast \in Cast
  BY <1>3 DEF ToClient
<1>11. level \in LevelType \cup {<< >>} /\ missed \in SUBSET PlayerId
  BY <1>2 DEF ProgramOK
\* What has become of the program's state and of its level.
<1>12. CASE Configure(m)
  <2>1. /\ ui = "configuring" /\ level' = level /\ missed' = missed /\ level = << >>
        /\ RemoteOK(remote')
        /\ IF m.type = "gameStart" THEN ui' = "playing" ELSE ui' = ui
    <3>1. ui = "configuring" /\ level' = level /\ missed' = missed
      BY <1>12 DEF Configure
    <3>2. level = << >>
      BY <3>1 DEF IInv, Levels
    <3>3. CASE m.type = "playerAdded" /\ remote' = Listed(remote, m) /\ UNCHANGED ui
      BY <1>2, <1>10, <3>1, <3>2, <3>3, ListedIs
    <3>4. CASE m.type = "gameStart" /\ ui' = "playing" /\ UNCHANGED remote
      BY <1>2, <3>1, <3>2, <3>4
    <3>5. CASE m.type \notin {"playerAdded", "gameStart"} /\ UNCHANGED << ui, remote >>
      BY <1>2, <3>1, <3>2, <3>5
    <3> QED
      BY <1>12, <3>3, <3>4, <3>5 DEF Configure
  <2>2. ProgramOK'
    BY <1>1, <1>2, <2>1 DEF ProgramOK, State
  <2>3. Levels'
    BY <1>5, <1>8, <2>1 DEF Levels
  <2>4. Talking => Stands(toServer, conns[link])'
    <3>1. SUFFICES ASSUME Talking PROVE Stands(toServer, conns[link])'
      OBVIOUS
    <3>2. Stands(toServer, conns[link])
      BY <3>1 DEF IInv, InStep
    <3>3. /\ conns'[link'] = conns[link] /\ game' = game /\ toServer' = toServer /\ check' = check
          /\ overtaken' = overtaken
      BY <1>1 DEF server
    <3>4. Lobby(toServer, conns[link]) => Lobby(toServer, conns[link])'
      BY <1>4, <2>1, <3>3 DEF Lobby, IsTurn
    <3>5. Opens(toServer, conns[link]) => Opens(toServer, conns[link])' \/ Plays'
      BY <1>4, <2>1, <3>3 DEF Opens, Plays, IsTurn
    <3> QED
      BY <2>1, <3>2, <3>3, <3>4, <3>5 DEF Stands, Plays, Ended, Shows
  <2> QED
    BY <1>7, <1>8, <1>9, <2>2, <2>3, <2>4 DEF IInv, InStep
<1>13. CASE Play(m)
  <2>1. /\ ui = "playing" /\ remote' = remote /\ missed' \in SUBSET PlayerId
        /\ level' \in LevelType \cup {<< >>}
        /\ \/ ui' = "playing" /\ level' # << >> /\ m.type # "gameOver"
           \/ ui' = "lifeless" /\ m.type # "gameOver"
           \/ ui' = "scores" /\ level' = << >> /\ m.type = "gameOver"
    <3>1. ui = "playing" /\ remote' = remote
      BY <1>13 DEF Play
    <3>2. CASE m.type = "levelStart" /\ level' = Level(m.cast) /\ UNCHANGED << ui, missed >>
      BY <1>2, <1>10, <1>11, <3>1, <3>2, LevelIs
    <3>3. CASE m.type = "tick" /\ Ticked /\ UNCHANGED missed
      BY <1>6, <1>11, <3>1, <3>3, TickedIs
    <3>4. CASE m.type = "gameOver" /\ ui' = "scores" /\ level' = << >> /\ UNCHANGED missed
      BY <1>11, <3>1, <3>4
    <3>5. CASE /\ m.type = "playerAdded"
               /\ missed' = IF m.late THEN missed \cup {m.id} ELSE missed
               /\ UNCHANGED << ui, level >>
      BY <1>6, <1>10, <1>11, <3>1, <3>5
    <3>6. CASE m.type = "gameStart" /\ UNCHANGED << ui, level, missed >>
      BY <1>6, <1>11, <3>1, <3>6
    <3> QED
      BY <1>13, <3>1, <3>2, <3>3, <3>4, <3>5, <3>6 DEF Play
  <2>2. ProgramOK'
    BY <1>1, <1>2, <2>1 DEF ProgramOK, State
  <2>3. Levels'
    BY <1>5, <1>8, <2>1 DEF Levels
  <2>4. Talking => Stands(toServer, conns[link])'
    <3>1. SUFFICES ASSUME Talking PROVE Stands(toServer, conns[link])'
      OBVIOUS
    <3>2. Stands(toServer, conns[link])
      BY <3>1 DEF IInv, InStep
    <3>3. /\ conns'[link'] = conns[link] /\ game' = game /\ toServer' = toServer
          /\ overtaken' = overtaken
      BY <1>1 DEF server
    <3>4. Plays => ui' = "lifeless" \/ Plays'
      BY <1>4, <2>1, <3>3 DEF Plays, IsTurn
    <3>5. Ended(toServer, conns[link]) =>
            ui' = "lifeless" \/ Ended(toServer, conns[link])' \/ Shows(toServer, conns[link])'
      BY <1>4, <2>1, <3>3 DEF Ended, Shows, IsTurn
    <3> QED
      BY <2>1, <3>2, <3>3, <3>4, <3>5 DEF Stands, Lobby, Opens, Shows
  <2> QED
    BY <1>7, <1>8, <1>9, <2>2, <2>3, <2>4 DEF IInv, InStep
<1>14. CASE ViewScores(m)
  <2>1. /\ ui = "scores" /\ missed' \in SUBSET PlayerId
        /\ UNCHANGED << ui, remote, level >>
    BY <1>10, <1>11, <1>14 DEF ViewScores
  <2>2. ProgramOK'
    BY <1>1, <1>2, <2>1 DEF ProgramOK
  <2>3. Levels'
    BY <1>5, <2>1 DEF IInv, Levels
  <2>4. Talking => Stands(toServer, conns[link])'
    <3>1. SUFFICES ASSUME Talking PROVE Stands(toServer, conns[link])'
      OBVIOUS
    <3>2. Stands(toServer, conns[link])
      BY <3>1 DEF IInv, InStep
    <3>3. /\ conns'[link'] = conns[link] /\ game' = game /\ toServer' = toServer
          /\ overtaken' = overtaken
      BY <1>1 DEF server
    <3>4. Shows(toServer, conns[link]) => Shows(toServer, conns[link])'
      BY <1>4, <2>1, <3>3 DEF Shows
    <3> QED
      BY <2>1, <3>2, <3>3, <3>4 DEF Stands, Lobby, Opens, Plays, Ended
  <2> QED
    BY <1>7, <1>8, <1>9, <2>2, <2>3, <2>4 DEF IInv, InStep
<1> QED
  BY <1>1, <1>12, <1>13, <1>14

-----------------------------------------------------------------------------
LEMMA Inductive == IInv /\ [Next]_vars => IInv'
<1> SUFFICES ASSUME IInv, [Next]_vars PROVE IInv'
  OBVIOUS
<1>1. CASE Handle \/ OtherJoins \/ PlayOn \/ EndGame \/ Break \/ Stop
  BY <1>1, HandleKeeps, OtherJoinsKeeps, PlayOnKeeps, EndGameKeeps, BreakKeeps, StopKeeps
<1>2. CASE \E c \in Others : OtherHandled(c) \/ OtherLeaves(c)
  BY <1>2, OtherHandledKeeps, OtherLeavesKeeps
<1>3. CASE Connect \/ Refused \/ ReadinessChange \/ AddPlayerClicked \/ Receive
  BY <1>3, ConnectKeeps, RefusedKeeps, ReadinessChangeKeeps, AddPlayerClickedKeeps, ReceiveKeeps
<1>4. CASE KeyPress \/ HighScoreOk \/ Disconnect \/ Restart
  BY <1>4, KeyPressKeeps, HighScoreOkKeeps, DisconnectKeeps, RestartKeeps
<1>5. CASE UNCHANGED vars
  <2>1. UNCHANGED << cast, toServer, toClient, client, history >> /\ UNCHANGED server
    BY <1>5 DEF vars, server
  <2>2. ServerOK'
    BY <2>1, ServerStays DEF IInv
  <2>3. Talking => up' /\ link \in DOMAIN conns' /\ conns'[link] = conns[link] /\ game' = game
    BY <2>1 DEF IInv, Links, server
  <2> QED
    BY <2>1, <2>2, <2>3, ServerAlone
<1> QED
  BY <1>1, <1>2, <1>3, <1>4, <1>5 DEF Next

\* The program is in step with its server as far as the messages under way say:
\* in the lobby, about to start, in the game, about to hear of its end, or at the
\* scores; and no level is ticked that was not sent (ui.cpp, server.cpp).
THEOREM Invariance == Spec => []IInv
<1>1. IInv /\ [Next]_vars => IInv'
  BY Inductive
<1> QED
  BY Initially, <1>1, PTL DEF Spec

LEMMA TypesFollow == IInv => TypeOK
<1> SUFFICES ASSUME IInv PROVE TypeOK
  OBVIOUS
<1>1. /\ {up, open, game} \subseteq BOOLEAN
      /\ nextClientId \in 0 .. MaxClients /\ nextPlayerId \in 0 .. MaxAdds
      /\ cast \in Cast
  BY DEF IInv, ServerOK
<1>2. DOMAIN conns \subseteq ClientId /\ Range(conns) \subseteq BOOLEAN
  BY DEF IInv, ServerOK, ConnsOK, Range
<1>3. /\ DOMAIN players \subseteq PlayerId
      /\ Range(players) \subseteq [name : Names, client : ClientId]
  BY DEF IInv, ServerOK, RosterOK, Range
<1>4. Range(toServer) \subseteq ToServer /\ Range(toClient) \subseteq ToClient
  <2>1. \A S : \A q \in Seq(S) : Range(q) \subseteq S
    BY DEF Range
  <2> QED
    BY <2>1 DEF IInv, QueuesOK
<1>5. /\ {broken, check, overtaken} \subseteq BOOLEAN
      /\ ui \in State
      /\ link \in ClientId \cup {None} /\ options \in Options
      /\ Ids(remote) \in Cast
      /\ level \in [mine : Cast, theirs : Cast, lastLifeGone : BOOLEAN] \cup {<< >>}
      /\ missed \in SUBSET PlayerId
  BY DEF IInv, ProgramOK, RemoteOK, LevelType
<1> QED
  BY <1>1, <1>2, <1>3, <1>4, <1>5 DEF TypeOK

\* The messages under way and the lists are of what the handlers expect, with no
\* player twice in a list (configuring.cpp: the container of remote players).
THEOREM TypeCorrect == Spec => []TypeOK
BY Invariance, TypesFollow, PTL

\* Playing::Impl::tick never finds level_ null: a game's start is sent with its
\* level, and every later tick comes after it, whoever joins in between.
THEOREM LevelComesFirst == Spec => []LevelBeforeTick
<1>1. IInv => LevelBeforeTick
  BY DEF IInv, Levels, LevelBeforeTick
<1> QED
  BY Invariance, <1>1, PTL

\* A connected program that has handled all that the server sent plays while a
\* game is on, for any number of messages under way, except when the end of a
\* game has overtaken its readiness.
THEOREM PlaysWhileOn == Spec => []ConnectedPlays
<1>1. IInv => ConnectedPlays
  <2> SUFFICES ASSUME IInv, game, UpToDate, ~overtaken, ui \notin {"lifeless", "levelless"}
               PROVE  ui = "playing"
    BY DEF ConnectedPlays
  <2>1. Stands(toServer, conns[link])
    BY DEF IInv, InStep, UpToDate
  <2>2. ~OneTurn(toClient, "gameStart")
    BY DEF UpToDate, OneTurn
  <2> QED
    BY <2>1, <2>2 DEF Stands, Lobby, Opens, Plays, Ended, Shows
<1> QED
  BY Invariance, <1>1, PTL

\* The last word on its way to the server about the program's readiness is what
\* its ready box shows, and with none on its way the server knows it, with the
\* same exception.
THEOREM BoxAndServerAgree == Spec => []BoxIsTold
<1>1. IInv => BoxIsTold
  <2> SUFFICES ASSUME IInv, UpToDate, ~overtaken, toServer = << >>, ui = "configuring"
               PROVE  conns[link] = check
    BY DEF BoxIsTold
  <2>1. Stands(toServer, conns[link])
    BY DEF IInv, InStep, UpToDate
  <2>2. Agreed(toServer, conns[link], check)
    BY <2>1 DEF Stands, Lobby, Opens, Plays, Ended, Shows
  <2> QED
    BY <2>2, NothingSent
<1> QED
  BY Invariance, <1>1, PTL

-----------------------------------------------------------------------------
(* The snakes of the program's level.  What the program makes of messages   *)
(* under way depends on when its user leaves the scores, so that the        *)
(* invariant is about every way it may handle them.                         *)

\* The program as far as players go: its state, whom it knows, and whom it missed.
Prog(u, es, ps) == [ui |-> u, knows |-> es, missed |-> ps]

Program == Prog(ui, Range(remote), missed)

\* The server: its players and the next id, the game and its cast, and whether it
\* has the program's ear.
Hosting(ps, n, g, cs, t) == [players |-> ps, next |-> n, game |-> g, cast |-> cs, tells |-> t]

Host == Hosting(players, nextPlayerId, game, cast, Talking)

Listening == {"configuring", "playing", "scores"}

\* Listed, as a set.
Noted(es, m) == IF \E e \in es : e.id = m.id \/ e.name = m.name
                THEN es ELSE es \cup {[id |-> m.id, name |-> m.name]}

\* Program a takes message m and becomes b.
Takes(a, m, b) ==
  \/ /\ a.ui = "configuring"
     /\ b = Prog(IF m.type = "gameStart" THEN "playing" ELSE "configuring",
                 IF m.type = "playerAdded" THEN Noted(a.knows, m) ELSE a.knows,
                 a.missed)
  \/ /\ a.ui = "playing"
     /\ b = Prog(IF m.type = "gameOver" THEN "scores" ELSE "playing", a.knows,
                 IF m.type = "playerAdded" /\ m.late THEN a.missed \cup {m.id} ELSE a.missed)
  \/ /\ a.ui = "scores"
     /\ b = Prog("scores", a.knows,
                 IF m.type = "playerAdded" THEN a.missed \cup {m.id} ELSE a.missed)

\* The same when its user may have left the scores before.
Step(a, m, b) ==
  \/ Takes(a, m, b)
  \/ a.ui = "scores" /\ Takes(Prog("configuring", a.knows, a.missed), m, b)

\* Program c may have become a when it has handled the first n messages of q.
Reaches(c, q, n, a) ==
  \E r : r[0] = c /\ r[n] = a /\ \A k \in 1 .. n : Step(r[k - 1], q[k], r[k])

\* The ids given so far.
Given(s) == 0 .. s.next - 1

Known(a, s) == \A e \in a.knows : e.id \in Given(s)

Familiar(a, s, p) ==
  p \in a.missed \/ \E e \in a.knows : e.id = p \/ e.name = s.players[p].name

\* A level with the snakes of ps is right for a program that makes it as a.
Fits(a, s, ps) ==
  /\ Range(ps) \subseteq Given(s)
  /\ \A e \in a.knows : e.id \in DOMAIN s.players => e.id \in Range(ps)
  /\ \A p \in Range(ps) \cap DOMAIN s.players : Familiar(a, s, p)

\* Message m finds the program as a.
Bears(a, s, m) == m.type = "levelStart" /\ a.ui = "playing" => Fits(a, s, m.cast)

\* The program, as a, has handled all that the server sent.
InTouch(a, s) ==
  a.ui \in Listening =>
    /\ \A p \in DOMAIN s.players : Familiar(a, s, p)
    /\ a.ui = "playing" => s.game /\ Fits(a, s, s.cast)

\* On its way through what is under way, ...
OnTheWay(a, s, q, n) ==
  /\ Known(a, s)
  /\ n < Len(q) => Bears(a, s, q[n + 1])
  /\ n = Len(q) /\ s.tells => InTouch(a, s)

Follows(c, s, q) ==
  /\ s.next \in Nat /\ DOMAIN s.players \subseteq Given(s)
  /\ \A n \in 0 .. Len(q) : \A a : Reaches(c, q, n, a) => OnTheWay(a, s, q, n)

\* The level it has.
LevelFits ==
  ui = "playing" /\ level # << >> => /\ level.mine = Ids(remote)
                                     /\ Fits(Program, Host, level.theirs)

Accounted == Follows(Program, Host, toClient) /\ LevelFits

LEMMA ReachStart ==
  ASSUME NEW c, NEW q
  PROVE  /\ Reaches(c, q, 0, c)
         /\ \A a : Reaches(c, q, 0, a) => a = c
<1>1. \A k \in 1 .. 0 : FALSE
  OBVIOUS
<1>2. Reaches(c, q, 0, c)
  <2> DEFINE r == [k \in {0} |-> c]
  <2>1. r[0] = c
    OBVIOUS
  <2> HIDE DEF r
  <2> QED
    BY <1>1, <2>1 DEF Reaches
<1>3. \A a : Reaches(c, q, 0, a) => a = c
  BY DEF Reaches
<1> QED
  BY <1>2, <1>3

LEMMA ReachOn ==
  ASSUME NEW c, NEW q, NEW n \in Nat, NEW b, Reaches(c, q, n + 1, b)
  PROVE  \E a : Reaches(c, q, n, a) /\ Step(a, q[n + 1], b)
<1>1. PICK r : /\ r[0] = c /\ r[n + 1] = b
               /\ \A k \in 1 .. n + 1 : Step(r[k - 1], q[k], r[k])
  BY DEF Reaches
<1>2. n + 1 \in 1 .. n + 1 /\ (n + 1) - 1 = n /\ \A k \in 1 .. n : k \in 1 .. n + 1
  OBVIOUS
<1>3. Step(r[n], q[n + 1], b)
  BY <1>1, <1>2, Zenon
<1>4. Reaches(c, q, n, r[n])
  BY <1>1, <1>2, Zenon DEF Reaches
<1> QED
  BY <1>3, <1>4

LEMMA ReachSame ==
  ASSUME NEW c, NEW p, NEW q, NEW n \in Nat, \A k \in 1 .. n : p[k] = q[k],
         NEW a, Reaches(c, p, n, a)
  PROVE  Reaches(c, q, n, a)
<1>1. PICK r : r[0] = c /\ r[n] = a /\ \A k \in 1 .. n : Step(r[k - 1], p[k], r[k])
  BY DEF Reaches
<1>2. \A k \in 1 .. n : Step(r[k - 1], q[k], r[k])
  BY <1>1, Zenon
<1> QED
  BY <1>1, <1>2, Zenon DEF Reaches

\* A message is taken.
LEMMA ReachFirst ==
  ASSUME NEW S, NEW q \in Seq(S), q # << >>, NEW c, NEW d, Step(c, Head(q), d),
         NEW n \in 0 .. Len(Tail(q)), NEW a, Reaches(d, Tail(q), n, a)
  PROVE  n + 1 \in 1 .. Len(q) /\ Reaches(c, q, n + 1, a)
<1>1. /\ Head(q) = q[1] /\ Len(q) \in Nat /\ Len(Tail(q)) = Len(q) - 1
      /\ \A i \in 1 .. Len(Tail(q)) : Tail(q)[i] = q[i + 1]
  BY Shortened
<1>2. n \in Nat /\ n + 1 \in 1 .. Len(q)
  BY <1>1
<1>3. PICK r : r[0] = d /\ r[n] = a /\ \A k \in 1 .. n : Step(r[k - 1], Tail(q)[k], r[k])
  BY DEF Reaches
<1> DEFINE w == [k \in 0 .. n + 1 |-> IF k = 0 THEN c ELSE r[k - 1]]
<1>4. w[0] = c /\ \A k \in 1 .. n + 1 : w[k] = r[k - 1]
  BY <1>2
<1> HIDE DEF w
<1>5. w[n + 1] = a
  <2>1. n + 1 \in 1 .. n + 1 /\ (n + 1) - 1 = n
    BY <1>2
  <2> QED
    BY <1>3, <1>4, <2>1
<1>6. ASSUME NEW k \in 1 .. n + 1
      PROVE  Step(w[k - 1], q[k], w[k])
  <2>1. CASE k = 1
    <3>1. w[k - 1] = c /\ w[k] = d /\ q[k] = Head(q)
      <4>1. k - 1 = 0
        BY <2>1
      <4> QED
        BY <1>1, <1>3, <1>4, <2>1, <4>1
    <3> QED
      BY <3>1
  <2>2. CASE k # 1
    <3>1. k - 1 \in 1 .. n /\ k - 1 \in 1 .. n + 1 /\ (k - 1) + 1 = k /\ k - 1 \in 1 .. Len(Tail(q))
      BY <1>1, <1>2, <2>2
    <3>2. Step(r[(k - 1) - 1], Tail(q)[k - 1], r[k - 1])
      BY <1>3, <3>1
    <3>3. w[k - 1] = r[(k - 1) - 1] /\ w[k] = r[k - 1] /\ Tail(q)[k - 1] = q[k]
      BY <1>1, <1>4, <3>1
    <3> QED
      BY <3>2, <3>3
  <2> QED
    BY <2>1, <2>2
<1>7. Reaches(c, q, n + 1, a)
  BY <1>4, <1>5, <1>6, Zenon DEF Reaches
<1> QED
  BY <1>2, <1>7

\* The user leaves the scores.
LEMMA ReachLeft ==
  ASSUME NEW c, c.ui = "scores", NEW q, NEW n \in Nat, n # 0, NEW a,
         Reaches(Prog("configuring", c.knows, c.missed), q, n, a)
  PROVE  Reaches(c, q, n, a)
<1> DEFINE d == Prog("configuring", c.knows, c.missed)
<1>1. PICK r : r[0] = d /\ r[n] = a /\ \A k \in 1 .. n : Step(r[k - 1], q[k], r[k])
  BY DEF Reaches
<1> DEFINE w == [k \in 0 .. n |-> IF k = 0 THEN c ELSE r[k]]
<1>2. w[0] = c /\ w[n] = a /\ \A k \in 1 .. n : w[k] = r[k]
  BY <1>1
<1>3. d.ui = "configuring"
  BY DEF Prog
<1> HIDE DEF w, d
<1>4. ASSUME NEW k \in 1 .. n
      PROVE  Step(w[k - 1], q[k], w[k])
  <2>1. Step(r[k - 1], q[k], r[k]) /\ w[k] = r[k]
    BY <1>1, <1>2
  <2>2. CASE k = 1
    <3>1. r[k - 1] = d /\ w[k - 1] = c
      <4>1. k - 1 = 0
        BY <2>2
      <4> QED
        BY <1>1, <1>2, <4>1
    <3>2. Takes(d, q[k], r[k])
      <4>1. Step(d, q[k], r[k])
        BY <2>1, <3>1
      <4>2. d.ui # "scores"
        BY <1>3
      <4> QED
        BY <4>1, <4>2, Zenon DEF Step
    <3>3. Step(c, q[k], r[k])
      BY <3>2, Zenon DEF Step, d
    <3> QED
      BY <2>1, <3>1, <3>3
  <2>3. CASE k # 1
    <3>1. k - 1 \in 1 .. n
      BY <2>3
    <3> QED
      BY <1>2, <2>1, <3>1
  <2> QED
    BY <2>2, <2>3
<1> QED
  BY <1>2, <1>4, Zenon DEF Reaches

LEMMA ProgIs ==
  \A u, es, ps : Prog(u, es, ps).ui = u /\ Prog(u, es, ps).knows = es /\ Prog(u, es, ps).missed = ps
BY DEF Prog

LEMMA HostingIs ==
  ASSUME NEW ps, NEW n, NEW g, NEW cs, NEW t
  PROVE  /\ Hosting(ps, n, g, cs, t).players = ps /\ Hosting(ps, n, g, cs, t).next = n
         /\ Hosting(ps, n, g, cs, t).game = g /\ Hosting(ps, n, g, cs, t).cast = cs
         /\ Hosting(ps, n, g, cs, t).tells = t
BY DEF Hosting

LEMMA NotedIs ==
  ASSUME NEW es, NEW m
  PROVE  /\ es \subseteq Noted(es, m)
         /\ \A e \in Noted(es, m) : e \in es \/ e.id = m.id
         /\ \E e \in Noted(es, m) : e.id = m.id \/ e.name = m.name
<1> DEFINE new == [id |-> m.id, name |-> m.name]
<1>1. new.id = m.id
  OBVIOUS
<1> HIDE DEF new
<1>2. CASE \E e \in es : e.id = m.id \/ e.name = m.name
  BY <1>2 DEF Noted
<1>3. CASE ~(\E e \in es : e.id = m.id \/ e.name = m.name)
  <2>1. Noted(es, m) = es \cup {new}
    BY <1>3 DEF Noted, new
  <2> QED
    BY <1>1, <2>1
<1> QED
  BY <1>2, <1>3

\* What a message does to what the program knows.
LEMMA TakesIs ==
  ASSUME NEW a, NEW m, NEW b, Takes(a, m, b)
  PROVE  /\ a.ui \in Listening
         /\ a.knows \subseteq b.knows /\ a.missed \subseteq b.missed
         /\ b.ui = "playing" => a.ui = "playing" \/ m.type = "gameStart"
         /\ m.type = "gameOver" => b.ui # "playing"
         /\ m.type # "playerAdded" => b.knows = a.knows /\ b.missed = a.missed
         /\ a.ui = "playing" => b.knows = a.knows
         /\ \A e \in b.knows : e \in a.knows \/ (m.type = "playerAdded" /\ e.id = m.id)
         /\ m.type = "playerAdded" /\ (a.ui = "playing" => m.late) =>
              m.id \in b.missed \/ \E e \in b.knows : e.id = m.id \/ e.name = m.name
<1> DEFINE new == Noted(a.knows, m)
<1>1. /\ a.knows \subseteq new
      /\ \A e \in new : e \in a.knows \/ e.id = m.id
      /\ \E e \in new : e.id = m.id \/ e.name = m.name
  BY NotedIs
<1> HIDE DEF new
<1>2. CASE /\ a.ui = "configuring"
           /\ b = Prog(IF m.type = "gameStart" THEN "playing" ELSE "configuring",
                       IF m.type = "playerAdded" THEN new ELSE a.knows, a.missed)
  <2>1. /\ b.ui = IF m.type = "gameStart" THEN "playing" ELSE "configuring"
        /\ b.knows = IF m.type = "playerAdded" THEN new ELSE a.knows
        /\ b.missed = a.missed
    BY <1>2, ProgIs
  <2> QED
    BY <1>1, <1>2, <2>1 DEF Listening
<1>3. CASE /\ a.ui = "playing"
           /\ b = Prog(IF m.type = "gameOver" THEN "scores" ELSE "playing", a.knows,
                       IF m.type = "playerAdded" /\ m.late THEN a.missed \cup {m.id} ELSE a.missed)
  <2>1. /\ b.ui = IF m.type = "gameOver" THEN "scores" ELSE "playing"
        /\ b.knows = a.knows
        /\ b.missed = IF m.type = "playerAdded" /\ m.late THEN a.missed \cup {m.id} ELSE a.missed
    BY <1>3, ProgIs
  <2> QED
    BY <1>3, <2>1 DEF Listening
<1>4. CASE /\ a.ui = "scores"
           /\ b = Prog("scores", a.knows,
                       IF m.type = "playerAdded" THEN a.missed \cup {m.id} ELSE a.missed)
  <2>1. /\ b.ui = "scores" /\ b.knows = a.knows
        /\ b.missed = IF m.type = "playerAdded" THEN a.missed \cup {m.id} ELSE a.missed
    BY <1>4, ProgIs
  <2> QED
    BY <1>4, <2>1 DEF Listening
<1> QED
  BY <1>2, <1>3, <1>4 DEF Takes, new

LEMMA StepIs ==
  ASSUME NEW a, NEW m, NEW b, Step(a, m, b)
  PROVE  /\ a.ui \in Listening
         /\ a.knows \subseteq b.knows /\ a.missed \subseteq b.missed
         /\ b.ui = "playing" => a.ui = "playing" \/ m.type = "gameStart"
         /\ m.type = "gameOver" => b.ui # "playing"
         /\ m.type # "playerAdded" => b.knows = a.knows /\ b.missed = a.missed
         /\ a.ui = "playing" => b.knows = a.knows
         /\ \A e \in b.knows : e \in a.knows \/ (m.type = "playerAdded" /\ e.id = m.id)
         /\ m.type = "playerAdded" /\ (a.ui = "playing" => m.late) =>
              m.id \in b.missed \/ \E e \in b.knows : e.id = m.id \/ e.name = m.name
<1>1. CASE Takes(a, m, b)
  BY <1>1, TakesIs
<1>2. CASE a.ui = "scores" /\ Takes(Prog("configuring", a.knows, a.missed), m, b)
  <2> DEFINE d == Prog("configuring", a.knows, a.missed)
  <2>1. d.ui = "configuring" /\ d.knows = a.knows /\ d.missed = a.missed /\ Takes(d, m, b)
    BY <1>2, ProgIs
  <2> HIDE DEF d
  <2>2. /\ d.knows \subseteq b.knows /\ d.missed \subseteq b.missed
        /\ b.ui = "playing" => d.ui = "playing" \/ m.type = "gameStart"
        /\ m.type = "gameOver" => b.ui # "playing"
        /\ m.type # "playerAdded" => b.knows = d.knows /\ b.missed = d.missed
        /\ \A e \in b.knows : e \in d.knows \/ (m.type = "playerAdded" /\ e.id = m.id)
        /\ m.type = "playerAdded" /\ (d.ui = "playing" => m.late) =>
             m.id \in b.missed \/ \E e \in b.knows : e.id = m.id \/ e.name = m.name
    BY <2>1, TakesIs
  <2> QED
    BY <1>2, <2>1, <2>2 DEF Listening
<1> QED
  BY <1>1, <1>2 DEF Step

\* From s to t ids are given and players come, with new ids, or go.
Moves(s, t) ==
  /\ t.next \in Nat /\ Given(s) \subseteq Given(t)
  /\ DOMAIN t.players \subseteq Given(t)
  /\ \A p \in DOMAIN t.players \cap Given(s) :
       p \in DOMAIN s.players /\ t.players[p] = s.players[p]

LEMMA FamiliarMore ==
  ASSUME NEW a, NEW b, NEW s, NEW p, a.knows \subseteq b.knows, a.missed \subseteq b.missed,
         Familiar(a, s, p)
  PROVE  Familiar(b, s, p)
BY DEF Familiar

LEMMA FitsMore ==
  ASSUME NEW a, NEW b, NEW s, NEW ps, a.knows = b.knows, a.missed \subseteq b.missed, Fits(a, s, ps)
  PROVE  Fits(b, s, ps)
<1>1. \A p : Familiar(a, s, p) => Familiar(b, s, p)
  BY FamiliarMore
<1> QED
  BY <1>1 DEF Fits

LEMMA FitsOn ==
  ASSUME NEW s, NEW t, Moves(s, t), NEW a, Known(a, s), NEW ps, Fits(a, s, ps)
  PROVE  Fits(a, t, ps)
<1>1. Range(ps) \subseteq Given(s) /\ Given(s) \subseteq Given(t)
  BY DEF Fits, Moves
<1>2. \A p \in DOMAIN t.players \cap Given(s) : p \in DOMAIN s.players /\ t.players[p] = s.players[p]
  BY DEF Moves
<1>3. \A e \in a.knows : e.id \in DOMAIN t.players => e.id \in Range(ps)
  BY <1>2 DEF Fits, Known
<1>4. ASSUME NEW p \in Range(ps) \cap DOMAIN t.players
      PROVE  Familiar(a, t, p)
  <2>1. p \in DOMAIN s.players /\ t.players[p] = s.players[p]
    BY <1>1, <1>2
  <2>2. Familiar(a, s, p)
    BY <2>1 DEF Fits
  <2> QED
    BY <2>1, <2>2 DEF Familiar
<1> QED
  BY <1>1, <1>3, <1>4 DEF Fits

LEMMA OnTheWayOn ==
  ASSUME NEW s, NEW t, Moves(s, t), NEW a, NEW q, NEW n, OnTheWay(a, s, q, n)
  PROVE  Known(a, t) /\ (n < Len(q) => Bears(a, t, q[n + 1]))
<1>1. Known(a, s) /\ Known(a, t)
  BY DEF OnTheWay, Known, Moves
<1>2. n < Len(q) => Bears(a, t, q[n + 1])
  BY <1>1, FitsOn DEF OnTheWay, Bears
<1> QED
  BY <1>1, <1>2

\* The server's step says nothing to the program.
LEMMA Unsaid ==
  ASSUME NEW c, NEW s, NEW t, NEW q, Follows(c, s, q), Moves(s, t),
         t.tells => s.tells /\ \A a : Known(a, s) /\ InTouch(a, s) => InTouch(a, t)
  PROVE  Follows(c, t, q)
<1>1. ASSUME NEW n \in 0 .. Len(q), NEW a, Reaches(c, q, n, a)
      PROVE  OnTheWay(a, t, q, n)
  <2>1. OnTheWay(a, s, q, n)
    BY <1>1 DEF Follows
  <2>2. Known(a, t) /\ (n < Len(q) => Bears(a, t, q[n + 1]))
    BY <2>1, OnTheWayOn
  <2>3. n = Len(q) /\ t.tells => InTouch(a, t)
    BY <2>1 DEF OnTheWay
  <2> QED
    BY <2>2, <2>3 DEF OnTheWay
<1> QED
  BY <1>1 DEF Follows, Moves

\* What becomes of a program in touch with s when m is sent and the server is t.
Leads(s, m, t) ==
  \A a : Known(a, s) /\ InTouch(a, s) =>
    /\ Bears(a, t, m)
    /\ \A b : Step(a, m, b) => Known(b, t) /\ InTouch(b, t)

\* The server's step sends a message.
LEMMA Sent ==
  ASSUME NEW c, NEW s, NEW t, NEW S, NEW q \in Seq(S), NEW m \in S, Follows(c, s, q), s.tells,
         Moves(s, t), Leads(s, m, t)
  PROVE  Follows(c, t, Append(q, m)) /\ Append(q, m) \in Seq(S)
<1> DEFINE p == Append(q, m)
<1>1. /\ p \in Seq(S) /\ Len(q) \in Nat /\ Len(p) = Len(q) + 1 /\ p[Len(q) + 1] = m
      /\ \A k \in 1 .. Len(q) : p[k] = q[k]
  BY AppendProperties
<1> HIDE DEF p
<1>2. ASSUME NEW n \in 0 .. Len(p), NEW a, Reaches(c, p, n, a)
      PROVE  OnTheWay(a, t, p, n)
  <2>1. ASSUME NEW k \in 0 .. Len(q), NEW b, Reaches(c, p, k, b)
        PROVE  OnTheWay(b, s, q, k)
    <3>1. k \in Nat /\ \A i \in 1 .. k : p[i] = q[i]
      BY <1>1
    <3>2. Reaches(c, q, k, b)
      BY <2>1, <3>1, ReachSame
    <3> QED
      BY <3>2 DEF Follows
  <2>2. CASE n < Len(q)
    <3>1. n \in 0 .. Len(q) /\ n + 1 \in 1 .. Len(q) /\ n # Len(p)
      BY <1>1, <2>2
    <3>2. Known(a, t) /\ Bears(a, t, q[n + 1])
      BY <1>2, <2>1, <2>2, <3>1, OnTheWayOn
    <3> QED
      BY <1>1, <3>1, <3>2 DEF OnTheWay
  <2>3. CASE n = Len(q)
    <3>1. n \in 0 .. Len(q) /\ n # Len(p) /\ p[n + 1] = m
      BY <1>1, <2>3
    <3>2. OnTheWay(a, s, q, n)
      BY <1>2, <2>1, <3>1
    <3>3. Known(a, t)
      BY <3>2, OnTheWayOn
    <3>4. Bears(a, t, m)
      BY <2>3, <3>2 DEF OnTheWay, Leads
    <3> QED
      BY <3>1, <3>3, <3>4 DEF OnTheWay
  <2>4. CASE n = Len(q) + 1
    <3>1. n = Len(p) /\ ~(n < Len(p)) /\ Len(q) \in 0 .. Len(q)
      BY <1>1, <2>4
    <3>2. PICK b : Reaches(c, p, Len(q), b) /\ Step(b, m, a)
      BY <1>1, <1>2, <2>4, ReachOn
    <3>3. OnTheWay(b, s, q, Len(q))
      BY <2>1, <3>1, <3>2
    <3>4. Known(b, s) /\ InTouch(b, s)
      BY <3>3 DEF OnTheWay
    <3>5. Known(a, t) /\ InTouch(a, t)
      BY <3>2, <3>4 DEF Leads
    <3> QED
      BY <3>1, <3>5 DEF OnTheWay
  <2>5. n < Len(q) \/ n = Len(q) \/ n = Len(q) + 1
    BY <1>1
  <2> QED
    BY <2>2, <2>3, <2>4, <2>5
<1> QED
  BY <1>1, <1>2 DEF Follows, Moves, p

\* The players and the ids stay.
LEMMA MovesNot ==
  ASSUME NEW s, NEW t, t.players = s.players, t.next = s.next, s.next \in Nat,
         DOMAIN s.players \subseteq Given(s)
  PROVE  Moves(s, t) /\ \A a : Known(a, s) => Known(a, t)
BY DEF Moves, Given, Known

\* A message that moves nobody.
LEMMA LeadsOn ==
  ASSUME NEW s, NEW m, m.type \in {"tick", "levelStart"}, m.type = "levelStart" => m.cast = s.cast
  PROVE  Leads(s, m, s)
<1> SUFFICES ASSUME NEW a, Known(a, s), InTouch(a, s)
             PROVE  /\ Bears(a, s, m)
                    /\ \A b : Step(a, m, b) => Known(b, s) /\ InTouch(b, s)
  BY DEF Leads
<1>1. Bears(a, s, m)
  BY DEF Bears, InTouch, Listening
<1>2. ASSUME NEW b, Step(a, m, b)
      PROVE  Known(b, s) /\ InTouch(b, s)
  <2>1. /\ a.ui \in Listening /\ b.knows = a.knows /\ a.missed \subseteq b.missed
        /\ b.ui = "playing" => a.ui = "playing"
    BY <1>2, StepIs
  <2>2. Known(b, s)
    BY <2>1 DEF Known
  <2>3. \A p \in DOMAIN s.players : Familiar(b, s, p)
    BY <2>1, FamiliarMore DEF InTouch
  <2>4. b.ui = "playing" => s.game /\ Fits(b, s, s.cast)
    BY <2>1, FitsMore DEF InTouch
  <2> QED
    BY <2>2, <2>3, <2>4 DEF InTouch
<1> QED
  BY <1>1, <1>2

\* The end of a game.
LEMMA LeadsOver ==
  ASSUME NEW s, NEW t, t.players = s.players, t.next = s.next
  PROVE  Leads(s, GameOver, t)
<1> SUFFICES ASSUME NEW a, Known(a, s), InTouch(a, s)
             PROVE  /\ Bears(a, t, GameOver)
                    /\ \A b : Step(a, GameOver, b) => Known(b, t) /\ InTouch(b, t)
  BY DEF Leads
<1>1. GameOver.type = "gameOver"
  BY DEF GameOver
<1>2. Bears(a, t, GameOver)
  BY <1>1 DEF Bears
<1>3. ASSUME NEW b, Step(a, GameOver, b)
      PROVE  Known(b, t) /\ InTouch(b, t)
  <2>1. /\ a.ui \in Listening /\ b.knows = a.knows /\ a.missed \subseteq b.missed
        /\ b.ui # "playing"
    BY <1>1, <1>3, StepIs
  <2>2. Known(b, t)
    BY <2>1 DEF Known, Given
  <2>3. \A p \in DOMAIN s.players : Familiar(b, s, p)
    BY <2>1, FamiliarMore DEF InTouch
  <2>4. \A p \in DOMAIN t.players : Familiar(b, t, p)
    BY <2>3 DEF Familiar
  <2> QED
    BY <2>1, <2>2, <2>4 DEF InTouch
<1> QED
  BY <1>2, <1>3

\* The start of a game, with all the players in it.
LEMMA LeadsStart ==
  ASSUME NEW s, NEW t, t.players = s.players, t.next = s.next, ~s.game, t.game,
         DOMAIN s.players \subseteq Given(s), Range(t.cast) = DOMAIN t.players
  PROVE  Leads(s, GameStart, t)
<1> SUFFICES ASSUME NEW a, Known(a, s), InTouch(a, s)
             PROVE  /\ Bears(a, t, GameStart)
                    /\ \A b : Step(a, GameStart, b) => Known(b, t) /\ InTouch(b, t)
  BY DEF Leads
<1>1. GameStart.type = "gameStart"
  BY DEF GameStart
<1>2. Bears(a, t, GameStart)
  BY <1>1 DEF Bears
<1>3. ASSUME NEW b, Step(a, GameStart, b)
      PROVE  Known(b, t) /\ InTouch(b, t)
  <2>1. a.ui \in Listening /\ b.knows = a.knows /\ a.missed \subseteq b.missed
    BY <1>1, <1>3, StepIs
  <2>2. Known(b, t)
    BY <2>1 DEF Known, Given
  <2>3. \A p \in DOMAIN s.players : Familiar(b, s, p)
    BY <2>1, FamiliarMore DEF InTouch
  <2>4. \A p \in DOMAIN t.players : Familiar(b, t, p)
    BY <2>3 DEF Familiar
  <2>5. Fits(b, t, t.cast)
    BY <2>4 DEF Fits, Given
  <2> QED
    BY <2>2, <2>4, <2>5 DEF InTouch
<1> QED
  BY <1>2, <1>3

\* A new player.
LEMMA LeadsAdded ==
  ASSUME NEW s, NEW t, NEW name, NEW new, new.name = name, s.next \in Nat,
         DOMAIN s.players \subseteq Given(s),
         t.players = Match!With(s.players, s.next, new), t.next = s.next + 1,
         t.game = s.game, t.cast = s.cast
  PROVE  Moves(s, t) /\ Leads(s, PlayerAdded(s.next, name, s.game), t)
<1> DEFINE m == PlayerAdded(s.next, name, s.game)
<1>1. m.type = "playerAdded" /\ m.id = s.next /\ m.name = name /\ m.late = s.game
  BY DEF PlayerAdded
<1> HIDE DEF m
<1>2. /\ Given(t) = Given(s) \cup {s.next} /\ s.next \notin Given(s) /\ t.next \in Nat
  BY DEF Given
<1>3. /\ DOMAIN t.players = DOMAIN s.players \cup {s.next}
      /\ \A p \in DOMAIN t.players : t.players[p] = IF p = s.next THEN new ELSE s.players[p]
  BY DEF Match!With
<1>4. Moves(s, t)
  BY <1>2, <1>3 DEF Moves
<1>5. ASSUME NEW a, Known(a, s), InTouch(a, s), NEW b, Step(a, m, b)
      PROVE  Known(b, t) /\ InTouch(b, t)
  <2>1. /\ a.ui \in Listening /\ a.knows \subseteq b.knows /\ a.missed \subseteq b.missed
        /\ b.ui = "playing" => a.ui = "playing"
        /\ a.ui = "playing" => b.knows = a.knows
        /\ \A e \in b.knows : e \in a.knows \/ e.id = s.next
        /\ (a.ui = "playing" => s.game) =>
             s.next \in b.missed \/ \E e \in b.knows : e.id = s.next \/ e.name = name
    BY <1>1, <1>5, StepIs
  <2>2. /\ \A p \in DOMAIN s.players : Familiar(a, s, p)
        /\ a.ui = "playing" => s.game /\ Fits(a, s, s.cast)
    BY <1>5, <2>1 DEF InTouch
  <2>3. Known(b, t)
    BY <1>2, <1>5, <2>1 DEF Known
  <2>4. ASSUME NEW p \in DOMAIN t.players
        PROVE  Familiar(b, t, p)
    <3>1. CASE p = s.next
      <4>1. t.players[p].name = name
        BY <1>3, <3>1
      <4> QED
        BY <2>1, <2>2, <3>1, <4>1 DEF Familiar
    <3>2. CASE p # s.next
      <4>1. p \in DOMAIN s.players /\ t.players[p] = s.players[p]
        BY <1>3, <3>2
      <4>2. Familiar(b, s, p)
        BY <2>1, <2>2, <4>1, FamiliarMore
      <4> QED
        BY <4>1, <4>2 DEF Familiar
    <3> QED
      BY <3>1, <3>2
  <2>5. b.ui = "playing" => t.game /\ Fits(b, t, t.cast)
    <3>1. a.ui = "playing" => Fits(a, t, s.cast)
      BY <1>4, <1>5, <2>2, FitsOn
    <3>2. a.ui = "playing" => Fits(b, t, s.cast)
      BY <2>1, <3>1, FitsMore
    <3> QED
      BY <2>1, <2>2, <3>2
  <2> QED
    BY <2>3, <2>4, <2>5 DEF InTouch
<1>6. \A a : Bears(a, t, m)
  BY <1>1 DEF Bears
<1>7. Leads(s, m, t)
  BY <1>5, <1>6 DEF Leads
<1> QED
  BY <1>4, <1>7 DEF m

\* Players go, and the game goes on or none was on.
LEMMA InTouchOn ==
  ASSUME NEW s, NEW t, Moves(s, t), DOMAIN t.players \subseteq Given(s), t.game = s.game, t.cast = s.cast,
         NEW a, Known(a, s), InTouch(a, s)
  PROVE  InTouch(a, t)
<1> SUFFICES ASSUME a.ui \in Listening
             PROVE  /\ \A p \in DOMAIN t.players : Familiar(a, t, p)
                    /\ a.ui = "playing" => t.game /\ Fits(a, t, t.cast)
  BY DEF InTouch
<1>1. ASSUME NEW p \in DOMAIN t.players
      PROVE  Familiar(a, t, p)
  <2>1. p \in DOMAIN s.players /\ t.players[p] = s.players[p]
    BY DEF Moves
  <2>2. Familiar(a, s, p)
    BY <2>1 DEF InTouch
  <2> QED
    BY <2>1, <2>2 DEF Familiar
<1>2. a.ui = "playing" => t.game /\ Fits(a, t, t.cast)
  BY FitsOn DEF InTouch
<1> QED
  BY <1>1, <1>2

-----------------------------------------------------------------------------
(* The server's steps. *)

LEMMA TwoSaid ==
  ASSUME NEW S, NEW q \in Seq(S), NEW m \in S, NEW o \in S
  PROVE  q \o << m, o >> = Append(Append(q, m), o)
<1>1. << m >> \in Seq(S) /\ << o >> \in Seq(S) /\ << m, o >> = << m >> \o << o >>
  <2>1. << m >> \in Seq(S) /\ << o >> \in Seq(S) /\ << m, o >> = Append(<< m >>, o)
    OBVIOUS
  <2> QED
    BY <2>1, AppendIsConcat
<1>2. Append(q, m) = q \o << m >> /\ Append(q, m) \in Seq(S)
  BY AppendIsConcat, AppendProperties
<1>3. Append(Append(q, m), o) = Append(q, m) \o << o >>
  BY <1>2, AppendIsConcat
<1>4. q \o (<< m >> \o << o >>) = (q \o << m >>) \o << o >>
  BY <1>1, ConcatAssociative
<1> QED
  BY <1>1, <1>2, <1>3, <1>4

\* What is said when a game starts, and whether it is over at once.
LEMMA OpeningFollowed ==
  ASSUME NEW c, NEW cs, NEW ps, NEW n, NEW q \in Seq(ToClient), DOMAIN ps \in SUBSET PlayerId,
         game \in BOOLEAN, Match!Settle(cs, ps), Follows(c, Hosting(ps, n, game, cast, TRUE), q),
         cast' = IF game' /\ ~game THEN InOrder(DOMAIN ps) ELSE cast
  PROVE  Follows(c, Hosting(ps, n, game', cast', TRUE), q \o Opening(cs, ps))
<1> DEFINE who == InOrder(DOMAIN ps)
           h == Hosting(ps, n, game, cast, TRUE)
           on == Hosting(ps, n, TRUE, who, TRUE)
           t == Hosting(ps, n, game', cast', TRUE)
<1>1. who \in Cast /\ Range(who) = DOMAIN ps
  BY InOrderIs
<1>2. /\ h.players = ps /\ h.next = n /\ h.game = game /\ h.tells = TRUE
      /\ on.players = ps /\ on.next = n /\ on.game = TRUE /\ on.cast = who /\ on.tells = TRUE
      /\ t.players = ps /\ t.next = n /\ t.tells = TRUE
  BY DEF Hosting
<1> HIDE DEF who
<1>3. GameStart \in ToClient /\ Tick \in ToClient /\ GameOver \in ToClient /\ LevelStart(who) \in ToClient
  BY <1>1, MessageTypes
<1>4. Tick.type = "tick" /\ LevelStart(who).type = "levelStart" /\ LevelStart(who).cast = who
  BY DEF Tick, LevelStart
<1>5. CASE ~Match!MayStart(cs, ps)
  <2>1. game' = game /\ Opening(cs, ps) = << >>
    BY <1>5 DEF Match!Settle, Opening
  <2>2. cast' = cast
    BY <2>1
  <2>3. q \o << >> = q
    BY ConcatEmptySeq
  <2> QED
    BY <2>1, <2>2, <2>3
<1>6. CASE Match!MayStart(cs, ps)
  <2>1. ~game
    BY <1>6 DEF Match!MayStart
  <2>2. n \in Nat /\ DOMAIN ps \subseteq Given(h)
    BY <1>2 DEF Follows
  <2>3. DOMAIN ps \subseteq Given(on)
    BY <1>2, <2>2 DEF Given
  <2> DEFINE q1 == Append(q, GameStart)
             q2 == Append(q1, LevelStart(who))
             q3 == Append(q2, Tick)
             q4 == Append(q3, GameOver)
  <2> HIDE DEF h, on
  <2>4. Moves(h, on) /\ Leads(h, GameStart, on)
    BY <1>1, <1>2, <2>1, <2>2, MovesNot, LeadsStart
  <2>5. Follows(c, on, q1) /\ q1 \in Seq(ToClient)
    BY <1>2, <1>3, <2>4, Sent DEF h
  <2> HIDE DEF q1
  <2>6. Moves(on, on) /\ Leads(on, LevelStart(who), on) /\ Leads(on, Tick, on)
    BY <1>2, <1>4, <2>2, <2>3, MovesNot, LeadsOn
  <2>7. Follows(c, on, q2) /\ q2 \in Seq(ToClient)
    BY <1>2, <1>3, <2>5, <2>6, Sent
  <2> HIDE DEF q2
  <2>8. CASE game'
    <3>1. game' = TRUE /\ cast' = who
      BY <2>1, <2>8 DEF Match!Settle, who
    <3>2. t = on
      BY <3>1 DEF on
    <3>3. q \o Opening(cs, ps) = q2
      <4>1. Opening(cs, ps) = << GameStart, LevelStart(who) >> \o << >>
        BY <1>6, <2>8 DEF Opening, who
      <4>2. << GameStart, LevelStart(who) >> \in Seq(ToClient)
        BY <1>3
      <4>3. Opening(cs, ps) = << GameStart, LevelStart(who) >>
        BY <4>1, <4>2, ConcatEmptySeq
      <4> QED
        BY <1>3, <4>3, TwoSaid DEF q1, q2
    <3> QED
      BY <2>7, <3>2, <3>3
  <2>9. CASE ~game'
    <3>1. Follows(c, on, q3) /\ q3 \in Seq(ToClient)
      BY <1>2, <1>3, <2>6, <2>7, Sent
    <3> HIDE DEF q3, t
    <3>2. Moves(on, t) /\ Leads(on, GameOver, t)
      BY <1>2, <2>2, <2>3, MovesNot, LeadsOver
    <3>3. Follows(c, t, q4)
      BY <1>2, <1>3, <3>1, <3>2, Sent
    <3>4. q \o Opening(cs, ps) = q4
      <4>1. Opening(cs, ps) = << GameStart, LevelStart(who) >> \o << Tick, GameOver >>
        BY <1>6, <2>9 DEF Opening, who
      <4>2. << GameStart, LevelStart(who) >> \in Seq(ToClient) /\ << Tick, GameOver >> \in Seq(ToClient)
        BY <1>3
      <4>3. q \o Opening(cs, ps) = (q \o << GameStart, LevelStart(who) >>) \o << Tick, GameOver >>
        BY <4>1, <4>2, ConcatAssociative
      <4>4. q \o << GameStart, LevelStart(who) >> = q2
        BY <1>3, TwoSaid DEF q1, q2
      <4>5. q2 \o << Tick, GameOver >> = q4
        BY <1>3, <2>7, TwoSaid DEF q3
      <4> QED
        BY <4>3, <4>4, <4>5
    <3> QED
      BY <3>3, <3>4 DEF t
  <2> QED
    BY <2>8, <2>9
<1> QED
  BY <1>5, <1>6

\* Now: what is under way begins with the program as it is.
LEMMA AtPresent ==
  ASSUME NEW c, NEW s, NEW q, Len(q) \in Nat, Follows(c, s, q)
  PROVE  OnTheWay(c, s, q, 0) /\ Known(c, s)
<1>1. 0 \in 0 .. Len(q) /\ Reaches(c, q, 0, c)
  BY ReachStart
<1>2. OnTheWay(c, s, q, 0)
  BY <1>1 DEF Follows
<1> QED
  BY <1>2 DEF OnTheWay

\* Nobody comes.
Fewer(ps, qs) == DOMAIN qs \subseteq DOMAIN ps /\ \A p \in DOMAIN qs : qs[p] = ps[p]

LEMMA MovesFewer ==
  ASSUME NEW s, NEW t, s.next \in Nat, DOMAIN s.players \subseteq Given(s),
         Fewer(s.players, t.players), t.next \in Nat, s.next <= t.next
  PROVE  Moves(s, t)
<1>1. Given(s) \subseteq Given(t)
  BY DEF Given
<1> QED
  BY <1>1 DEF Moves, Fewer

LEMMA HostIs ==
  /\ Host.players = players /\ Host.next = nextPlayerId /\ Host.game = game /\ Host.cast = cast
  /\ Host.tells = Talking
  /\ Host'.players = players' /\ Host'.next = nextPlayerId' /\ Host'.game = game'
  /\ Host'.cast = cast' /\ Host'.tells = Talking'
BY DEF Host, Hosting

LEMMA LevelFitsOn ==
  ASSUME QueuesOK, Accounted, Moves(Host, Host'), UNCHANGED << ui, remote, level, missed >>
  PROVE  LevelFits' /\ Program' = Program
<1>1. Known(Program, Host)
  BY AtPresent DEF Accounted, QueuesOK
<1>2. Program' = Program
  BY DEF Program
<1>3. ASSUME ui = "playing", level # << >>
      PROVE  level.mine = Ids(remote) /\ Fits(Program, Host', level.theirs)
  BY <1>1, <1>3, FitsOn DEF Accounted, LevelFits
<1> QED
  BY <1>2, <1>3 DEF LevelFits

\* Players may go, and the connection.
LEMMA Unnoticed ==
  ASSUME QueuesOK, Accounted, Fewer(players, players'), nextPlayerId' = nextPlayerId,
         UNCHANGED << toClient, ui, remote, level, missed >>,
         Talking' => Talking /\ game' = game /\ cast' = cast
  PROVE  Accounted'
<1> DEFINE s == Host
           t == Host'
<1>1. /\ s.players = players /\ s.next = nextPlayerId /\ s.game = game /\ s.cast = cast
      /\ s.tells = Talking
      /\ t.players = players' /\ t.next = nextPlayerId' /\ t.game = game'
      /\ t.cast = cast' /\ t.tells = Talking'
  BY HostIs
<1>2. Follows(Program, s, toClient)
  BY DEF Accounted
<1> HIDE DEF s, t
<1>3. s.next \in Nat /\ DOMAIN s.players \subseteq Given(s)
  BY <1>2 DEF Follows
<1>4. Moves(s, t)
  BY <1>1, <1>3, MovesFewer
<1>5. LevelFits' /\ Program' = Program
  BY <1>4, LevelFitsOn DEF s, t
<1>6. t.tells => s.tells /\ \A a : Known(a, s) /\ InTouch(a, s) => InTouch(a, t)
  <2>1. DOMAIN t.players \subseteq Given(s)
    BY <1>1, <1>3 DEF Fewer
  <2> QED
    BY <1>1, <1>4, <2>1, InTouchOn
<1>7. Follows(Program, t, toClient)
  BY <1>2, <1>4, <1>6, Unsaid
<1> QED
  BY <1>5, <1>7 DEF Accounted, t

\* A message has left cs and ps, and news of it may have been sent.
LEMMA SettledFollowed ==
  ASSUME QueuesOK, Accounted, game \in BOOLEAN, NEW cs, NEW ps, NEW news \in Seq(ToClient),
         DOMAIN ps \in SUBSET PlayerId, Match!Settle(cs, ps), Settled(news, cs, ps),
         UNCHANGED missed,
         Moves(Host, Hosting(ps, nextPlayerId', game, cast, Talking)),
         Talking => Follows(Program, Hosting(ps, nextPlayerId', game, cast, TRUE), toClient \o news)
  PROVE  Accounted'
<1> DEFINE o == Opening(cs, ps)
           n == nextPlayerId'
<1>1. /\ cast' = IF game' /\ ~game THEN InOrder(DOMAIN ps) ELSE cast
      /\ toClient' = IF Talking THEN toClient \o (news \o o) ELSE toClient
      /\ UNCHANGED << ui, remote, level, missed, link, broken >>
  BY DEF Settled, Told, client
<1>2. Talking' = Talking /\ players' = ps
  BY <1>1 DEF Talking, Linked, Match!Settle
<1>3. o \in Seq(ToClient) /\ toClient \in Seq(ToClient)
  BY OpeningIs DEF QueuesOK
<1>4. Host' = Hosting(ps, n, game', cast', Talking)
  BY <1>2 DEF Host
<1>5. Moves(Host, Host')
  BY <1>4 DEF Moves, Hosting, Given
<1>6. LevelFits' /\ Program' = Program
  BY <1>1, <1>5, LevelFitsOn
<1>7. CASE Talking
  <2>1. Follows(Program, Hosting(ps, n, game, cast, TRUE), toClient \o news)
    BY <1>7
  <2>2. toClient \o news \in Seq(ToClient) /\ toClient' = (toClient \o news) \o o
    <3> HIDE DEF o
    <3>1. toClient \o news \in Seq(ToClient)
      BY <1>3, ConcatProperties
    <3>2. toClient \o (news \o o) = (toClient \o news) \o o
      BY <1>3, ConcatAssociative
    <3> QED
      BY <1>1, <1>7, <3>1, <3>2
  <2> HIDE DEF o
  <2>3. Follows(Program, Hosting(ps, n, game', cast', TRUE), (toClient \o news) \o o)
    BY <1>1, <2>1, <2>2, OpeningFollowed DEF o
  <2>4. Host' = Hosting(ps, n, game', cast', TRUE)
    BY <1>4, <1>7 DEF Talking, Linked, Hosting
  <2> QED
    BY <1>6, <2>2, <2>3, <2>4 DEF Accounted
<1>8. CASE ~Talking
  <2>1. ~Host'.tells
    BY <1>2, <1>8, HostIs
  <2>2. Follows(Program, Host', toClient)
    BY <1>5, <2>1, Unsaid DEF Accounted
  <2> QED
    BY <1>1, <1>6, <1>8, <2>2 DEF Accounted
<1> QED
  BY <1>7, <1>8

LEMMA AddPlayerFollowed ==
  ASSUME IInv, Accounted, NEW c \in DOMAIN conns, NEW name \in Names, AddPlayer(c, name)
  PROVE  Accounted'
<1> DEFINE new == [name |-> name, client |-> c]
           ps == IF \E p \in DOMAIN players : players[p].name = name
                 THEN players ELSE Match!With(players, nextPlayerId, new)
           m == PlayerAdded(nextPlayerId, name, game)
           news == IF nextPlayerId \in DOMAIN players' THEN << m >> ELSE << >>
           s == Host
           t == Hosting(ps, nextPlayerId', game, cast, Talking)
<1>1. /\ ServerOK /\ QueuesOK /\ RosterOK(players) /\ game \in BOOLEAN /\ toClient \in Seq(ToClient)
  BY DEF IInv, ServerOK, QueuesOK
<1>2. /\ Match!Settle(conns, ps) /\ Settled(news, conns, players') /\ nextPlayerId' = nextPlayerId + 1
  BY DEF AddPlayer, Match!AddPlayer
<1>3. players' = ps /\ UNCHANGED missed
  BY <1>2 DEF Match!Settle, Settled
<1>4. nextPlayerId \in PlayerId
  BY <1>1, SessionAssumption DEF AddPlayer, ServerOK, SessionAssumption, PlayerId
<1>5. DOMAIN ps \in SUBSET PlayerId
  BY <1>1, <1>4 DEF RosterOK, Match!With
<1>6. Follows(Program, s, toClient)
  BY DEF Accounted
<1>7. /\ s.players = players /\ s.next = nextPlayerId /\ s.game = game /\ s.cast = cast /\ s.tells = Talking
      /\ t.players = ps /\ t.next = nextPlayerId + 1 /\ t.game = game /\ t.cast = cast /\ t.tells = Talking
  BY <1>2 DEF Host, Hosting
<1>8. m \in ToClient
  BY <1>1, <1>4, MessageTypes
<1>9. Talking => t = Hosting(ps, nextPlayerId', game, cast, TRUE)
  BY DEF Talking, Linked, Hosting
<1> HIDE DEF new, s, t, m
<1>10. s.next \in Nat /\ DOMAIN s.players \subseteq Given(s) /\ nextPlayerId \notin DOMAIN players
  <2>1. s.next \in Nat /\ DOMAIN s.players \subseteq Given(s)
    BY <1>6 DEF Follows
  <2>2. s.next \notin Given(s)
    BY <2>1 DEF Given
  <2> QED
    BY <1>7, <2>1, <2>2
\* The name is taken.
<1>11. CASE \E p \in DOMAIN players : players[p].name = name
  <2>1. ps = players /\ news = << >>
    BY <1>3, <1>10, <1>11
  <2>2. Fewer(s.players, t.players) /\ s.next <= t.next /\ t.next \in Nat
    BY <1>7, <1>10, <2>1 DEF Fewer
  <2>3. Moves(s, t)
    BY <1>10, <2>2, MovesFewer
  <2>4. \A a : Known(a, s) /\ InTouch(a, s) => InTouch(a, t)
    BY <1>7, <1>10, <2>1, <2>3, InTouchOn
  <2>5. Follows(Program, t, toClient)
    BY <1>6, <1>7, <2>3, <2>4, Unsaid
  <2>6. toClient \o << >> = toClient /\ << >> \in Seq(ToClient)
    BY <1>1, ConcatEmptySeq
  <2> HIDE DEF ps, news
  <2>7. Talking => Follows(Program, Hosting(ps, nextPlayerId', game, cast, TRUE), toClient \o news)
    BY <1>9, <2>1, <2>5, <2>6
  <2> QED
    BY <1>1, <1>2, <1>3, <1>5, <2>1, <2>3, <2>6, <2>7, SettledFollowed DEF s, t
\* He is added.
<1>12. CASE ~(\E p \in DOMAIN players : players[p].name = name)
  <2>1. ps = Match!With(players, nextPlayerId, new)
    BY <1>12
  <2>2. nextPlayerId \in DOMAIN ps
    BY <2>1 DEF Match!With
  <2>3. news = << m >> /\ << m >> \in Seq(ToClient)
    BY <1>3, <1>8, <2>2
  <2>4. new.name = name
    BY DEF new
  <2> HIDE DEF ps, news
  <2>5. Moves(s, t) /\ Leads(s, m, t)
    <3>1. Moves(s, t) /\ Leads(s, PlayerAdded(s.next, name, s.game), t)
      BY <1>7, <1>10, <2>1, <2>4, LeadsAdded
    <3> QED
      BY <1>7, <3>1 DEF m
  <2>6. ASSUME Talking
        PROVE  Follows(Program, t, toClient \o news)
    <3>1. Follows(Program, t, Append(toClient, m))
      BY <1>1, <1>6, <1>7, <1>8, <2>5, <2>6, Sent
    <3>2. Append(toClient, m) = toClient \o << m >>
      BY <1>1, <1>8, AppendIsConcat
    <3> QED
      BY <2>3, <3>1, <3>2
  <2> QED
    BY <1>1, <1>2, <1>3, <1>5, <1>9, <2>3, <2>5, <2>6, SettledFollowed DEF s, t
<1> QED
  BY <1>11, <1>12

LEMMA SetReadinessFollowed ==
  ASSUME IInv, Accounted, NEW c, NEW ready, SetReadiness(c, ready)
  PROVE  Accounted'
<1> DEFINE cs == [conns EXCEPT ![c] = ready]
<1>1. /\ ServerOK /\ QueuesOK /\ RosterOK(players) /\ game \in BOOLEAN /\ toClient \in Seq(ToClient)
  BY DEF IInv, ServerOK, QueuesOK
<1>2. /\ Match!Settle(cs, players) /\ Settled(<< >>, cs, players) /\ nextPlayerId' = nextPlayerId
      /\ UNCHANGED missed
  BY DEF SetReadiness, Match!SetReadiness, Settled
<1>3. Host = Hosting(players, nextPlayerId', game, cast, Talking) /\ Follows(Program, Host, toClient)
  BY <1>2 DEF Host, Accounted
<1>4. Host.next \in Nat /\ DOMAIN Host.players \subseteq Given(Host)
  BY <1>3 DEF Follows
<1>5. Moves(Host, Host)
  BY <1>4, MovesNot
<1>6. toClient \o << >> = toClient /\ << >> \in Seq(ToClient) /\ DOMAIN players \in SUBSET PlayerId
  BY <1>1, ConcatEmptySeq DEF RosterOK
<1>7. Talking => Host = Hosting(players, nextPlayerId', game, cast, TRUE)
  BY <1>3 DEF Talking, Linked, Hosting
<1> HIDE DEF cs
<1>8. Talking => Follows(Program, Hosting(players, nextPlayerId', game, cast, TRUE), toClient \o << >>)
  BY <1>3, <1>6, <1>7
<1> QED
  BY <1>1, <1>2, <1>3, <1>5, <1>6, <1>8, SettledFollowed

LEMMA HandleFollowed == IInv /\ Accounted /\ Handle => Accounted'
<1> SUFFICES ASSUME IInv, Accounted, Handle PROVE Accounted'
  OBVIOUS
<1> DEFINE m == Head(toServer)
<1>1. /\ Talking /\ toServer # << >>
      /\ \/ m.type = "addPlayer" /\ AddPlayer(link, m.name)
         \/ m.type = "setReadiness" /\ SetReadiness(link, m.ready)
  BY DEF Handle
<1>2. m \in ToServer /\ link \in DOMAIN conns
  BY <1>1, Shortened DEF IInv, QueuesOK, Links
<1> HIDE DEF m
<1>3. CASE m.type = "addPlayer" /\ AddPlayer(link, m.name)
  <2>1. m.name \in Names
    BY <1>2, <1>3 DEF ToServer
  <2> QED
    BY <1>2, <1>3, <2>1, AddPlayerFollowed
<1>4. CASE m.type = "setReadiness" /\ SetReadiness(link, m.ready)
  BY <1>4, SetReadinessFollowed
<1> QED
  BY <1>1, <1>3, <1>4

LEMMA OtherHandledFollowed ==
  ASSUME IInv, Accounted, NEW c \in Others, OtherHandled(c)
  PROVE  Accounted'
<1>1. c \in DOMAIN conns
  BY DEF Others
<1>2. CASE \E name \in Names : AddPlayer(c, name)
  BY <1>1, <1>2, AddPlayerFollowed
<1>3. CASE \E ready \in BOOLEAN : SetReadiness(c, ready)
  BY <1>3, SetReadinessFollowed
<1> QED
  BY <1>2, <1>3 DEF OtherHandled

LEMMA FewerSame == \A ps : Fewer(ps, ps)
BY DEF Fewer

\* Steps of the server that the program does not hear of.
LEMMA OthersFollowed ==
  ASSUME IInv, Accounted,
         OtherJoins \/ (\E c \in Others : OtherLeaves(c)) \/ Break \/ Stop
  PROVE  Accounted'
<1>1. QueuesOK
  BY DEF IInv
<1>2. CASE OtherJoins
  BY <1>1, <1>2, FewerSame, Unnoticed DEF OtherJoins, Match!Join, client, history, Talking, Linked
<1>3. CASE \E c \in Others : OtherLeaves(c)
  <2>1. PICK c \in Others : OtherLeaves(c)
    BY <1>3
  <2>2. /\ players' = Match!Restrict(players, DOMAIN players \ Match!OwnedBy(c))
        /\ game' = (game /\ DOMAIN conns # {c})
        /\ UNCHANGED << nextPlayerId, cast, toClient, client, history >>
    BY <2>1 DEF OtherLeaves, Match!Leave
  <2>3. Fewer(players, players')
    BY <2>2 DEF Fewer, Match!Restrict
  <2>4. Talking' => Talking /\ game' = game
    <3>1. Talking' = Talking
      BY <2>2 DEF client, Talking, Linked
    <3>2. ASSUME Talking
          PROVE  DOMAIN conns # {c}
      <4>1. link \in DOMAIN conns /\ link # c
        BY <2>1, <3>2, OthersAre DEF IInv, Links
      <4> QED
        BY <4>1
    <3> QED
      BY <2>2, <3>1, <3>2 DEF IInv, ServerOK
  <2> QED
    BY <1>1, <2>2, <2>3, <2>4, Unnoticed DEF client, history
<1>4. CASE Break
  <2>1. ~Talking'
    BY <1>4 DEF Break, Talking
  <2> QED
    BY <1>1, <1>4, <2>1, FewerSame, Unnoticed DEF Break, server, history
<1>5. CASE Stop
  <2>1. ~Talking'
    BY <1>5 DEF Stop, Talking, Linked
  <2>2. players' = players /\ nextPlayerId' = nextPlayerId
    BY <1>5 DEF Stop, Match!Close
  <2> QED
    BY <1>1, <1>5, <2>1, <2>2, FewerSame, Unnoticed DEF Stop, history
<1> QED
  BY <1>2, <1>3, <1>4, <1>5

\* The game goes on, or ends.
LEMMA GameFollowed ==
  ASSUME IInv, Accounted, PlayOn \/ EndGame
  PROVE  Accounted'
<1> DEFINE s == Host
           t == Host'
<1>1. QueuesOK /\ toClient \in Seq(ToClient) /\ cast \in Cast
  BY DEF IInv, QueuesOK, ServerOK
<1>2. /\ s.players = players /\ s.next = nextPlayerId /\ s.game = game /\ s.cast = cast
      /\ s.tells = Talking
      /\ t.players = players' /\ t.next = nextPlayerId' /\ t.game = game'
      /\ t.cast = cast' /\ t.tells = Talking'
  BY HostIs
<1>3. UNCHANGED << players, nextPlayerId, cast, link, broken, ui, remote, level, missed >>
  BY DEF PlayOn, EndGame, Match!GameOver, server, client, history
<1>4. Talking' = Talking /\ PlayOn => t = s
  BY DEF Talking, Linked, PlayOn, server, client, Host
<1>5. Talking' = Talking
  BY <1>3 DEF Talking, Linked
<1>6. Follows(Program, s, toClient)
  BY DEF Accounted
<1> HIDE DEF s, t
<1>7. s.next \in Nat /\ DOMAIN s.players \subseteq Given(s)
  BY <1>6 DEF Follows
<1>8. Moves(s, s) /\ Moves(s, t)
  BY <1>2, <1>3, <1>7, MovesNot
<1>9. LevelFits' /\ Program' = Program
  BY <1>1, <1>3, <1>8, LevelFitsOn DEF s, t
<1>10. CASE ~Talking
  <2>1. toClient' = toClient
    BY <1>10 DEF PlayOn, EndGame, Told
  <2>2. Follows(Program, t, toClient)
    BY <1>2, <1>5, <1>6, <1>8, <1>10, Unsaid
  <2> QED
    BY <1>9, <2>1, <2>2 DEF Accounted, t
<1>11. CASE Talking
  <2>1. /\ Tick \in ToClient /\ LevelStart(cast) \in ToClient /\ GameOver \in ToClient
        /\ Tick.type = "tick" /\ LevelStart(cast).type = "levelStart" /\ LevelStart(cast).cast = cast
    BY <1>1, MessageTypes DEF Tick, LevelStart
  <2>2. Leads(s, Tick, s) /\ Leads(s, LevelStart(cast), s) /\ Leads(s, GameOver, t)
    BY <1>2, <1>3, <2>1, LeadsOn, LeadsOver
  <2> DEFINE q == Append(toClient, Tick)
  <2>3. Follows(Program, s, q) /\ q \in Seq(ToClient)
    BY <1>1, <1>2, <1>6, <1>8, <1>11, <2>1, <2>2, Sent
  <2>4. q = toClient \o << Tick >>
    BY <1>1, <2>1, AppendIsConcat
  <2>5. Append(q, LevelStart(cast)) = toClient \o << Tick, LevelStart(cast) >>
    BY <1>1, <2>1, TwoSaid
  <2>6. Append(q, GameOver) = toClient \o << Tick, GameOver >>
    BY <1>1, <2>1, TwoSaid
  <2> HIDE DEF q
  <2>7. Follows(Program, s, Append(q, LevelStart(cast)))
    BY <1>2, <1>8, <1>11, <2>1, <2>2, <2>3, Sent
  <2>8. Follows(Program, t, Append(q, GameOver))
    BY <1>2, <1>8, <1>11, <2>1, <2>2, <2>3, Sent
  <2>9. CASE PlayOn
    <3>1. \/ toClient' = toClient \o << Tick >>
          \/ toClient' = toClient \o << Tick, LevelStart(cast) >>
      BY <1>11, <2>9 DEF PlayOn, Told
    <3>2. Follows(Program, s, toClient')
      BY <2>3, <2>4, <2>5, <2>7, <3>1
    <3>3. Host' = s
      BY <1>4, <1>5, <2>9 DEF t
    <3> QED
      BY <1>9, <3>2, <3>3 DEF Accounted
  <2>10. CASE EndGame
    <3>1. toClient' = toClient \o << Tick, GameOver >>
      BY <1>11, <2>10 DEF EndGame, Told
    <3>2. Follows(Program, t, toClient')
      BY <2>6, <2>8, <3>1
    <3> QED
      BY <1>9, <3>2 DEF Accounted, t
  <2> QED
    BY <2>9, <2>10
<1> QED
  BY <1>10, <1>11

-----------------------------------------------------------------------------
(* The program's steps. *)

\* A program that has stopped.
LEMMA Stopped ==
  ASSUME NEW d, d.ui \notin Listening, NEW s, s.next \in Nat, DOMAIN s.players \subseteq Given(s),
         Known(d, s), NEW q, Len(q) \in Nat
  PROVE  Follows(d, s, q)
<1>1. ASSUME NEW n \in 0 .. Len(q), NEW a, Reaches(d, q, n, a)
      PROVE  OnTheWay(a, s, q, n)
  <2>1. CASE n = 0
    <3>1. a = d
      BY <1>1, <2>1, ReachStart
    <3>2. a.ui # "playing"
      BY <3>1 DEF Listening
    <3> QED
      BY <3>1, <3>2 DEF OnTheWay, Bears, InTouch
  <2>2. CASE n # 0
    <3>1. PICK r : r[0] = d /\ \A k \in 1 .. n : Step(r[k - 1], q[k], r[k])
      BY <1>1 DEF Reaches
    <3>2. 1 \in 1 .. n /\ 1 - 1 = 0
      BY <2>2
    <3>3. Step(d, q[1], r[1])
      BY <3>1, <3>2
    <3> QED
      BY <3>3, StepIs
  <2> QED
    BY <2>1, <2>2
<1> QED
  BY <1>1 DEF Follows

\* A program that hears nothing.
LEMMA Unlinked ==
  ASSUME NEW d, NEW s, s.next \in Nat, DOMAIN s.players \subseteq Given(s), Known(d, s), ~s.tells
  PROVE  Follows(d, s, << >>)
<1>1. Len(<< >>) = 0
  OBVIOUS
<1>2. ASSUME NEW n \in 0 .. Len(<< >>), NEW a, Reaches(d, << >>, n, a)
      PROVE  OnTheWay(a, s, << >>, n)
  <2>1. n = 0 /\ ~(n < Len(<< >>))
    BY <1>1
  <2>2. a = d
    BY <1>2, <2>1, ReachStart
  <2> QED
    BY <2>1, <2>2 DEF OnTheWay
<1> QED
  BY <1>2 DEF Follows

\* Its user leaves the scores.
LEMMA Left ==
  ASSUME NEW c, c.ui = "scores", NEW s, NEW q, Len(q) \in Nat, Follows(c, s, q)
  PROVE  Follows(Prog("configuring", c.knows, c.missed), s, q)
<1> DEFINE d == Prog("configuring", c.knows, c.missed)
<1>1. d.ui = "configuring" /\ d.knows = c.knows /\ d.missed = c.missed
  BY ProgIs
<1> HIDE DEF d
<1>2. ASSUME NEW n \in 0 .. Len(q), NEW a, Reaches(d, q, n, a)
      PROVE  OnTheWay(a, s, q, n)
  <2>1. CASE n = 0
    <3>1. a = d
      BY <1>2, <2>1, ReachStart
    <3>2. OnTheWay(c, s, q, 0)
      BY AtPresent
    <3>3. Known(d, s) /\ (InTouch(c, s) => InTouch(d, s))
      BY <1>1, <3>2 DEF OnTheWay, Known, InTouch, Familiar, Listening
    <3> QED
      BY <1>1, <2>1, <3>1, <3>2, <3>3 DEF OnTheWay, Bears
  <2>2. CASE n # 0
    <3>1. Reaches(c, q, n, a)
      BY <1>2, <2>2, ReachLeft DEF d
    <3> QED
      BY <3>1 DEF Follows
  <2> QED
    BY <2>1, <2>2
<1> QED
  BY <1>2 DEF Follows, d

\* It takes a message.
LEMMA Taken ==
  ASSUME NEW c, NEW s, NEW S, NEW q \in Seq(S), q # << >>, Follows(c, s, q),
         NEW d, Step(c, Head(q), d)
  PROVE  Follows(d, s, Tail(q))
<1>1. /\ Len(q) \in Nat /\ Len(Tail(q)) = Len(q) - 1
      /\ \A i \in 1 .. Len(Tail(q)) : Tail(q)[i] = q[i + 1]
  BY Shortened
<1>2. ASSUME NEW n \in 0 .. Len(Tail(q)), NEW a, Reaches(d, Tail(q), n, a)
      PROVE  OnTheWay(a, s, Tail(q), n)
  <2>1. n + 1 \in 1 .. Len(q) /\ Reaches(c, q, n + 1, a)
    BY <1>2, ReachFirst
  <2>2. n + 1 \in 0 .. Len(q)
    BY <1>1, <2>1
  <2>3. OnTheWay(a, s, q, n + 1)
    BY <2>1, <2>2 DEF Follows
  <2>4. n < Len(Tail(q)) => n + 1 < Len(q) /\ Tail(q)[n + 1] = q[(n + 1) + 1]
    BY <1>1
  <2>5. n = Len(Tail(q)) => n + 1 = Len(q)
    BY <1>1
  <2> QED
    BY <2>3, <2>4, <2>5 DEF OnTheWay
<1> QED
  BY <1>2 DEF Follows

LEMMA RangeAppend ==
  ASSUME NEW S, NEW q \in Seq(S), NEW x
  PROVE  Range(Append(q, x)) = Range(q) \cup {x}
<1> DEFINE p == Append(q, x)
<1>1. /\ Len(q) \in Nat /\ DOMAIN q = 1 .. Len(q) /\ DOMAIN p = 1 .. Len(q) + 1
      /\ \A i \in 1 .. Len(q) + 1 : p[i] = IF i = Len(q) + 1 THEN x ELSE q[i]
  OBVIOUS
<1> HIDE DEF p
<1>2. /\ Len(q) + 1 \in 1 .. Len(q) + 1
      /\ \A i \in 1 .. Len(q) : i \in 1 .. Len(q) + 1 /\ i # Len(q) + 1
      /\ \A i \in 1 .. Len(q) + 1 : i = Len(q) + 1 \/ i \in 1 .. Len(q)
  BY <1>1
<1>3. Range(p) = Range(q) \cup {x}
  BY <1>1, <1>2 DEF Range
<1> QED
  BY <1>3 DEF p

LEMMA ListedNoted ==
  ASSUME NEW S, NEW rs \in Seq(S), NEW m
  PROVE  Range(Listed(rs, m)) = Noted(Range(rs), m)
<1> DEFINE new == [id |-> m.id, name |-> m.name]
<1>1. (\E i \in DOMAIN rs : rs[i].id = m.id \/ rs[i].name = m.name)
        <=> \E e \in Range(rs) : e.id = m.id \/ e.name = m.name
  BY DEF Range
<1>2. Range(Append(rs, new)) = Range(rs) \cup {new}
  BY RangeAppend
<1> HIDE DEF new
<1> QED
  BY <1>1, <1>2, Zenon DEF Listed, Noted, new

\* A message is taken, or it is the last the program takes.
LEMMA ReceiveSteps ==
  ASSUME IInv, Receive
  PROVE  \/ Step(Program, Head(toClient), Program')
         \/ Program'.ui \notin Listening /\ remote' = remote /\ missed' = missed
<1> DEFINE m == Head(toClient)
           a == Program
           b == Program'
<1>1. Configure(m) \/ Play(m) \/ ViewScores(m)
  BY DEF Receive
<1>2. /\ a.ui = ui /\ a.knows = Range(remote) /\ a.missed = missed
      /\ b = Prog(ui', Range(remote'), missed') /\ b.ui = ui'
  BY DEF Program, Prog
<1>3. PICK S : remote \in Seq(S)
  BY DEF IInv, ProgramOK, RemoteOK
<1> HIDE DEF a, b, m
<1>4. CASE Configure(m)
  <2>1. ui = "configuring" /\ missed' = missed
    BY <1>4 DEF Configure
  <2>2. ui' = IF m.type = "gameStart" THEN "playing" ELSE "configuring"
    BY <1>4 DEF Configure
  <2>3. Range(remote') = IF m.type = "playerAdded" THEN Noted(Range(remote), m) ELSE Range(remote)
    <3>1. Range(Listed(remote, m)) = Noted(Range(remote), m)
      BY <1>3, ListedNoted
    <3> QED
      BY <1>4, <3>1 DEF Configure
  <2>4. b = Prog(IF m.type = "gameStart" THEN "playing" ELSE "configuring",
                 IF m.type = "playerAdded" THEN Noted(a.knows, m) ELSE a.knows,
                 a.missed)
    BY <1>2, <2>1, <2>2, <2>3
  <2>5. Takes(a, m, b)
    BY <1>2, <2>1, <2>4, Zenon DEF Takes
  <2>6. Step(a, m, b)
    BY <2>5, Zenon DEF Step
  <2> QED
    BY <2>6, Zenon DEF a, b, m
<1>5. CASE Play(m) /\ ui' \in Listening
  <2>1. ui = "playing" /\ remote' = remote
    BY <1>5 DEF Play
  <2>2. ui' = IF m.type = "gameOver" THEN "scores" ELSE "playing"
    BY <1>5 DEF Play, Ticked, Listening
  <2>3. missed' = IF m.type = "playerAdded" /\ m.late THEN missed \cup {m.id} ELSE missed
    BY <1>5 DEF Play
  <2>4. b = Prog(IF m.type = "gameOver" THEN "scores" ELSE "playing", a.knows,
                 IF m.type = "playerAdded" /\ m.late THEN a.missed \cup {m.id} ELSE a.missed)
    BY <1>2, <2>1, <2>2, <2>3
  <2>5. Takes(a, m, b)
    BY <1>2, <2>1, <2>4, Zenon DEF Takes
  <2>6. Step(a, m, b)
    BY <2>5, Zenon DEF Step
  <2> QED
    BY <2>6, Zenon DEF a, b, m
<1>6. CASE Play(m) /\ ui' \notin Listening
  <2>1. remote' = remote /\ missed' = missed
    BY <1>6 DEF Play, Listening
  <2> QED
    BY <1>2, <1>6, <2>1 DEF b
<1>7. CASE ViewScores(m)
  <2>1. /\ ui = "scores" /\ ui' = "scores" /\ remote' = remote
        /\ missed' = IF m.type = "playerAdded" THEN missed \cup {m.id} ELSE missed
    BY <1>7 DEF ViewScores
  <2>2. b = Prog("scores", a.knows,
                 IF m.type = "playerAdded" THEN a.missed \cup {m.id} ELSE a.missed)
    BY <1>2, <2>1
  <2>3. Takes(a, m, b)
    BY <1>2, <2>1, <2>2, Zenon DEF Takes
  <2>4. Step(a, m, b)
    BY <2>3, Zenon DEF Step
  <2> QED
    BY <2>4, Zenon DEF a, b, m
<1> QED
  BY <1>1, <1>4, <1>5, <1>6, <1>7

LEMMA ReceiveFollowed == IInv /\ Accounted /\ Receive => Accounted'
<1> SUFFICES ASSUME IInv, Accounted, Receive PROVE Accounted'
  OBVIOUS
<1> DEFINE m == Head(toClient)
<1>1. /\ toClient # << >> /\ toClient' = Tail(toClient) /\ toClient \in Seq(ToClient)
      /\ UNCHANGED << server, link, broken >>
      /\ Configure(m) \/ Play(m) \/ ViewScores(m)
  BY DEF Receive, IInv, QueuesOK
<1>2. Host' = Host
  BY <1>1 DEF Host, server, Talking, Linked
<1>3. Follows(Program, Host, toClient) /\ LevelFits
  BY DEF Accounted
<1>4. Host.next \in Nat /\ DOMAIN Host.players \subseteq Given(Host)
  BY <1>3 DEF Follows
<1>5. /\ Len(toClient) \in Nat /\ Len(toClient) # 0 /\ Len(Tail(toClient)) \in Nat
      /\ toClient[1] = m
  BY <1>1, Shortened
<1>6. Known(Program, Host) /\ Bears(Program, Host, m)
  <2>1. OnTheWay(Program, Host, toClient, 0) /\ Known(Program, Host)
    BY <1>3, <1>5, AtPresent
  <2>2. 0 < Len(toClient) /\ 0 + 1 = 1
    BY <1>5
  <2> QED
    BY <1>5, <2>1, <2>2 DEF OnTheWay
<1>7. Follows(Program', Host, toClient')
  <2>1. CASE Step(Program, m, Program')
    BY <1>1, <1>3, <2>1, Taken
  <2>2. CASE Program'.ui \notin Listening /\ remote' = remote /\ missed' = missed
    <3>1. Known(Program', Host)
      BY <1>6, <2>2 DEF Known, Program, Prog
    <3> QED
      BY <1>1, <1>4, <1>5, <2>2, <3>1, Stopped
  <2> QED
    BY <2>1, <2>2, ReceiveSteps
<1>8. LevelFits'
  <2>1. SUFFICES ASSUME ui' = "playing", level' # << >>
                 PROVE  level'.mine = Ids(remote') /\ Fits(Program', Host, level'.theirs)
    BY <1>2 DEF LevelFits
  <2>2. ~Configure(m) /\ ~ViewScores(m)
    BY <2>1 DEF IInv, Levels, Configure, ViewScores
  <2>3. Play(m) /\ ui = "playing" /\ remote' = remote
    BY <1>1, <2>2 DEF Play
  <2>4. /\ Program.ui = ui /\ Program.knows = Range(remote) /\ Program.missed = missed
        /\ Program'.knows = Range(remote') /\ Program'.missed = missed'
    BY DEF Program, Prog
  <2>5. missed \subseteq missed'
    BY <2>3 DEF Play
  <2>6. CASE m.type = "levelStart"
    <3>1. level' = Level(m.cast)
      BY <2>3, <2>6 DEF Play
    <3>2. level'.mine = Ids(remote) /\ level'.theirs = m.cast
      BY <3>1 DEF Level
    <3>3. Fits(Program, Host, m.cast)
      BY <1>6, <2>3, <2>4, <2>6 DEF Bears
    <3> QED
      BY <2>3, <2>4, <2>5, <3>2, <3>3, FitsMore
  <2>7. CASE m.type # "levelStart"
    <3>1. level # << >> /\ level'.mine = level.mine /\ level'.theirs = level.theirs
      <4>1. level' = level \/ (level # << >> /\ level' = [level EXCEPT !.lastLifeGone = TRUE])
        BY <2>1, <2>3, <2>7 DEF Play, Ticked
      <4>2. level \in LevelType \cup {<< >>}
        BY DEF IInv, ProgramOK
      <4> QED
        BY <2>1, <4>1, <4>2 DEF LevelType
    <3>2. level.mine = Ids(remote) /\ Fits(Program, Host, level.theirs)
      BY <1>3, <2>3, <3>1 DEF LevelFits
    <3> QED
      BY <2>3, <2>4, <2>5, <3>1, <3>2, FitsMore
  <2> QED
    BY <2>6, <2>7
<1> QED
  BY <1>2, <1>7, <1>8 DEF Accounted

LEMMA Ascent ==
  ASSUME NEW n \in Nat, NEW T, 0 \in T, \A m \in 0 .. n - 1 : m \in T => m + 1 \in T
  PROVE  n \in T
<1> SUFFICES ASSUME n \notin T
             PROVE  FALSE
  OBVIOUS
<1> DEFINE W == {m \in 0 .. n : m \notin T}
           f == [m \in W |-> m - 1]
<1>1. IsFiniteSet(W) /\ Cardinality(W) \in Nat
  <2>1. IsFiniteSet(0 .. n) /\ W \in SUBSET (0 .. n)
    BY FS_Interval
  <2> QED
    BY <2>1, FS_Subset, FS_CardinalityType
<1>2. n \in W
  OBVIOUS
<1>3. ASSUME NEW m \in W
      PROVE  m \in Nat /\ m - 1 \in W \ {n}
  <2>1. m \in 0 .. n /\ m \notin T /\ m # 0
    OBVIOUS
  <2>2. m - 1 \in 0 .. n - 1 /\ (m - 1) + 1 = m
    BY <2>1
  <2>3. m - 1 \notin T
    BY <2>1, <2>2
  <2> QED
    BY <2>2, <2>3
<1> HIDE DEF W
<1>4. f \in Injection(W, W \ {n})
  <2>1. f \in [W -> W \ {n}]
    BY <1>3
  <2>2. \A x, y \in W : f[x] = f[y] => x = y
    BY <1>3
  <2> QED
    BY <2>1, <2>2 DEF Injection, IsInjective
<1>5. IsFiniteSet(W \ {n}) /\ Cardinality(W \ {n}) = Cardinality(W) - 1
  BY <1>1, <1>2, FS_RemoveElement
<1> HIDE DEF f
<1>6. Cardinality(W) <= Cardinality(W \ {n})
  BY <1>4, <1>5, FS_Injection
<1> QED
  BY <1>1, <1>5, <1>6

\* What Server::sendStateToConnection sends is news of all the players.
LEMMA StateFollowed ==
  ASSUME RosterOK(players), NEW s, s.players = players, s.next \in Nat,
         DOMAIN s.players \subseteq Given(s),
         NEW c, c.ui = "configuring", Known(c, s)
  PROVE  Follows(c, s, SentState)
<1> DEFINE ids == InOrder(DOMAIN players)
           m(i) == PlayerAdded(ids[i], players[ids[i]].name, FALSE)
           q == SentState
<1>1. ids \in Cast /\ Range(ids) = DOMAIN players
  BY InOrderIs DEF RosterOK
<1>2. PICK N \in Nat : DOMAIN ids = 1 .. N
  BY <1>1 DEF Cast
<1>3. q = [i \in 1 .. N |-> m(i)]
  BY <1>2 DEF SentState
<1>4. /\ \A i \in 1 .. N : ids[i] \in DOMAIN players
      /\ \A p \in DOMAIN players : \E i \in 1 .. N : ids[i] = p
  BY <1>1, <1>2 DEF Range
<1> HIDE DEF ids
<1>5. \A i \in 1 .. N : /\ q[i].type = "playerAdded" /\ q[i].id = ids[i]
                        /\ q[i].name = players[ids[i]].name
  BY <1>3 DEF PlayerAdded
<1>6. Len(q) = N
  BY <1>3
<1> HIDE DEF q
<1> DEFINE Heard(n) == \A a : Reaches(c, q, n, a) =>
                          /\ a.ui = "configuring" /\ Known(a, s)
                          /\ \A i \in 1 .. n : Familiar(a, s, ids[i])
<1>7. Heard(0)
  <2>1. \A i \in 1 .. 0 : FALSE
    OBVIOUS
  <2> QED
    BY <2>1, ReachStart
<1>8. ASSUME NEW n \in 0 .. N - 1, Heard(n)
      PROVE  Heard(n + 1)
  <2> SUFFICES ASSUME NEW b, Reaches(c, q, n + 1, b)
               PROVE  /\ b.ui = "configuring" /\ Known(b, s)
                      /\ \A i \in 1 .. n + 1 : Familiar(b, s, ids[i])
    OBVIOUS
  <2>1. n \in Nat /\ n + 1 \in 1 .. N /\ \A i \in 1 .. n + 1 : i \in 1 .. n \/ i = n + 1
    BY <1>2
  <2>2. PICK a : Reaches(c, q, n, a) /\ Step(a, q[n + 1], b)
    BY <2>1, ReachOn
  <2>3. a.ui = "configuring" /\ Known(a, s) /\ \A i \in 1 .. n : Familiar(a, s, ids[i])
    BY <1>8, <2>2
  <2>4. /\ q[n + 1].type = "playerAdded" /\ q[n + 1].id = ids[n + 1]
        /\ q[n + 1].name = players[ids[n + 1]].name /\ ids[n + 1] \in DOMAIN players
    BY <1>4, <1>5, <2>1
  <2> DEFINE o == q[n + 1]
  <2> HIDE DEF o
  <2>5. /\ a.knows \subseteq b.knows /\ a.missed \subseteq b.missed
        /\ \A e \in b.knows : e \in a.knows \/ e.id = o.id
        /\ o.id \in b.missed \/ \E e \in b.knows : e.id = o.id \/ e.name = o.name
    BY <2>2, <2>3, <2>4, StepIs DEF o
  <2>6. b.ui = "configuring"
    <3>1. Takes(a, o, b)
      BY <2>2, <2>3 DEF Step, o
    <3> QED
      BY <2>3, <2>4, <3>1 DEF Takes, Prog, o
  <2>7. Known(b, s)
    BY <2>3, <2>4, <2>5 DEF Known, o
  <2>8. Familiar(b, s, ids[n + 1])
    BY <2>4, <2>5 DEF Familiar, o
  <2>9. \A i \in 1 .. n : Familiar(b, s, ids[i])
    BY <2>3, <2>5, FamiliarMore
  <2> QED
    BY <2>1, <2>6, <2>7, <2>8, <2>9
<1>9. ASSUME NEW n \in 0 .. N
      PROVE  Heard(n)
  <2> DEFINE T == {k \in 0 .. N : Heard(k)}
  <2>1. 0 \in T
    BY <1>2, <1>7
  <2>2. \A k \in 0 .. n - 1 : k \in T => k + 1 \in T
    <3> TAKE k \in 0 .. n - 1
    <3>1. k \in 0 .. N - 1 /\ k + 1 \in 0 .. N
      BY <1>2
    <3> QED
      BY <1>8, <3>1
  <2>3. n \in Nat
    OBVIOUS
  <2> HIDE DEF T
  <2>4. n \in T
    BY <2>1, <2>2, <2>3, Ascent
  <2> QED
    BY <2>4 DEF T
<1>10. ASSUME NEW n \in 0 .. Len(q), NEW a, Reaches(c, q, n, a)
       PROVE  OnTheWay(a, s, q, n)
  <2>1. /\ a.ui = "configuring" /\ Known(a, s)
        /\ \A i \in 1 .. n : Familiar(a, s, ids[i])
    BY <1>6, <1>9, <1>10
  <2>2. n = Len(q) => InTouch(a, s)
    BY <1>4, <1>6, <2>1 DEF InTouch
  <2>3. \A o : Bears(a, s, o)
    BY <2>1 DEF Bears
  <2> QED
    BY <2>1, <2>2, <2>3 DEF OnTheWay
<1> QED
  BY <1>10 DEF Follows, q

LEMMA ConnectFollowed == IInv /\ Accounted /\ Connect => Accounted'
<1> SUFFICES ASSUME IInv, Accounted, Connect PROVE Accounted'
  OBVIOUS
<1>1. /\ ui = "configuring" /\ Match!Join /\ toClient' = SentState
      /\ UNCHANGED << ui, remote, level, missed >>
  BY DEF Connect
<1>2. players' = players /\ nextPlayerId' = nextPlayerId
  BY <1>1 DEF Match!Join
<1>3. Follows(Program, Host, toClient) /\ Len(toClient) \in Nat /\ RosterOK(players)
  BY DEF Accounted, IInv, QueuesOK, ServerOK
<1>4. Known(Program, Host) /\ Host.next \in Nat /\ DOMAIN Host.players \subseteq Given(Host)
  BY <1>3, AtPresent DEF Follows
<1>5. /\ Known(Program, Host') /\ Host'.next \in Nat /\ DOMAIN Host'.players \subseteq Given(Host')
      /\ Host'.players = players
  BY <1>2, <1>4, HostIs DEF Known, Given
<1>6. Program' = Program /\ Program.ui = "configuring"
  BY <1>1 DEF Program, Prog
<1>7. Follows(Program, Host', SentState)
  BY <1>3, <1>5, <1>6, StateFollowed
<1>8. LevelFits'
  BY <1>1 DEF LevelFits
<1> QED
  BY <1>1, <1>6, <1>7, <1>8 DEF Accounted

\* The steps of the program without messages from the server.
LEMMA AloneFollowed ==
  ASSUME IInv, Accounted, ReadinessChange \/ AddPlayerClicked
  PROVE  Accounted'
<1>1. UNCHANGED << server, toClient, ui, link, broken, remote, level, missed >>
  BY DEF ReadinessChange, AddPlayerClicked, client, history
<1>2. QueuesOK /\ Fewer(players, players') /\ UNCHANGED << nextPlayerId, game, cast >> /\ Talking' = Talking
  BY <1>1, FewerSame DEF IInv, server, Talking, Linked
<1> QED
  BY <1>1, <1>2, Unnoticed

LEMMA KeyPressFollowed == IInv /\ Accounted /\ KeyPress => Accounted'
<1> SUFFICES ASSUME IInv, Accounted, KeyPress PROVE Accounted'
  OBVIOUS
<1>1. ui' = "unplugged" /\ UNCHANGED << server, toClient, link, broken, remote, missed >>
  BY DEF KeyPress, history
<1>2. Host' = Host
  BY <1>1 DEF Host, server, Talking, Linked
<1>3. Follows(Program, Host, toClient) /\ Len(toClient) \in Nat
  BY DEF Accounted, IInv, QueuesOK
<1>4. Known(Program, Host) /\ Host.next \in Nat /\ DOMAIN Host.players \subseteq Given(Host)
  BY <1>3, AtPresent DEF Follows
<1>5. Program'.ui \notin Listening /\ Known(Program', Host)
  BY <1>1, <1>4 DEF Program, Prog, Listening, Known
<1>6. Follows(Program', Host, toClient)
  BY <1>3, <1>4, <1>5, Stopped
<1>7. LevelFits'
  BY <1>1 DEF LevelFits
<1> QED
  BY <1>1, <1>2, <1>6, <1>7 DEF Accounted

LEMMA HighScoreOkFollowed == IInv /\ Accounted /\ HighScoreOk => Accounted'
<1> SUFFICES ASSUME IInv, Accounted, HighScoreOk PROVE Accounted'
  OBVIOUS
<1>1. /\ ui = "scores" /\ ui' = "configuring"
      /\ UNCHANGED << server, toClient, link, broken, remote, missed >>
  BY DEF HighScoreOk, history
<1>2. Host' = Host
  BY <1>1 DEF Host, server, Talking, Linked
<1>3. Follows(Program, Host, toClient) /\ Len(toClient) \in Nat
  BY DEF Accounted, IInv, QueuesOK
<1>4. /\ Program.ui = "scores"
      /\ Program' = Prog("configuring", Program.knows, Program.missed)
  BY <1>1, ProgIs DEF Program
<1>5. Follows(Program', Host, toClient)
  BY <1>3, <1>4, Left
<1>6. LevelFits'
  BY <1>1 DEF LevelFits
<1> QED
  BY <1>1, <1>2, <1>5, <1>6 DEF Accounted

\* The list is cleared, or kept, and the program hears nothing.
LEMMA OffFollowed ==
  ASSUME IInv, Accounted, UNCHANGED server, toClient' = << >>, ~Talking', missed' \in {missed, {}},
         remote' \in {remote, << >>},
         \/ ui' # "playing"
         \/ UNCHANGED << ui, remote, level, missed >>
  PROVE  Accounted'
<1>1. /\ Host'.players = Host.players /\ Host'.next = Host.next /\ ~Host'.tells
  BY HostIs DEF server
<1>2. Follows(Program, Host, toClient) /\ Len(toClient) \in Nat /\ QueuesOK
  BY DEF Accounted, IInv, QueuesOK
<1>3. Known(Program, Host) /\ Host.next \in Nat /\ DOMAIN Host.players \subseteq Given(Host)
  BY <1>2, AtPresent DEF Follows
<1>4. Given(Host') = Given(Host)
  BY <1>1 DEF Given
<1>5. Known(Program', Host')
  <2>1. Program.knows = Range(remote) /\ Program'.knows = Range(remote') /\ Range(<< >>) = {}
    BY DEF Program, Prog, Range
  <2> QED
    BY <1>3, <1>4, <2>1 DEF Known
<1>6. Follows(Program', Host', << >>)
  BY <1>1, <1>3, <1>4, <1>5, Unlinked
<1>7. LevelFits'
  <2>1. CASE ui' # "playing"
    BY <2>1 DEF LevelFits
  <2>2. CASE UNCHANGED << ui, remote, level, missed >>
    <3>1. Fewer(Host.players, Host'.players) /\ Host'.next \in Nat /\ Host.next <= Host'.next
      BY <1>1, <1>3, FewerSame
    <3>2. Moves(Host, Host')
      BY <1>3, <3>1, MovesFewer
    <3> QED
      BY <1>2, <2>2, <3>2, LevelFitsOn
  <2> QED
    BY <2>1, <2>2
<1> QED
  BY <1>6, <1>7 DEF Accounted

LEMMA LossFollowed ==
  ASSUME IInv, Accounted, Refused \/ Disconnect \/ Restart
  PROVE  Accounted'
<1>1. CASE Refused
  <2>1. toClient' = << >> /\ ~Talking'
    BY <1>1 DEF Refused, IInv, Links, Talking, Linked
  <2> QED
    BY <1>1, <2>1, OffFollowed DEF Refused, history
<1>2. CASE Disconnect
  <2>1. ~Talking'
    BY <1>2 DEF Disconnect, Talking, Linked
  <2> QED
    BY <1>2, <2>1, OffFollowed DEF Disconnect, history
<1>3. CASE Restart
  <2>1. ~Talking'
    BY <1>3 DEF Restart, Talking, Linked
  <2> QED
    BY <1>3, <2>1, OffFollowed DEF Restart
<1> QED
  BY <1>1, <1>2, <1>3

LEMMA AccountedKept == IInv /\ Accounted /\ [Next]_vars => Accounted'
<1> SUFFICES ASSUME IInv, Accounted, [Next]_vars
             PROVE  Accounted'
  OBVIOUS
<1>1. CASE Handle
  BY <1>1, HandleFollowed
<1>2. CASE OtherJoins \/ (\E c \in Others : OtherLeaves(c)) \/ Break \/ Stop
  BY <1>2, OthersFollowed
<1>3. CASE PlayOn \/ EndGame
  BY <1>3, GameFollowed
<1>4. CASE \E c \in Others : OtherHandled(c)
  BY <1>4, OtherHandledFollowed
<1>5. CASE Connect
  BY <1>5, ConnectFollowed
<1>6. CASE Receive
  BY <1>6, ReceiveFollowed
<1>7. CASE ReadinessChange \/ AddPlayerClicked
  BY <1>7, AloneFollowed
<1>8. CASE KeyPress
  BY <1>8, KeyPressFollowed
<1>9. CASE HighScoreOk
  BY <1>9, HighScoreOkFollowed
<1>10. CASE Refused \/ Disconnect \/ Restart
  BY <1>10, LossFollowed
<1>11. CASE UNCHANGED vars
  <2>1. UNCHANGED << server, toClient, ui, link, broken, remote, level, missed >>
    BY <1>11 DEF vars, client, history
  <2>2. QueuesOK /\ Fewer(players, players') /\ UNCHANGED << nextPlayerId, game, cast >> /\ Talking' = Talking
    BY <2>1, FewerSame DEF IInv, server, Talking, Linked
  <2> QED
    BY <2>1, <2>2, Unnoticed
<1> QED
  BY <1>1, <1>2, <1>3, <1>4, <1>5, <1>6, <1>7, <1>8, <1>9, <1>10, <1>11 DEF Next

LEMMA AccountedAtFirst == Init => Accounted
<1> SUFFICES ASSUME Init PROVE Accounted
  OBVIOUS
<1>1. /\ toClient = << >> /\ remote = << >> /\ ui = "configuring" /\ ~Talking
      /\ DOMAIN players = {} /\ nextPlayerId = 0
  BY DEF Init, Match!Init, Talking, Linked
<1>2. Host.next \in Nat /\ DOMAIN Host.players \subseteq Given(Host) /\ ~Host.tells
  BY <1>1, HostIs
<1>3. Known(Program, Host)
  BY <1>1 DEF Known, Program, Prog, Range
<1>4. Follows(Program, Host, << >>)
  BY <1>2, <1>3, Unlinked
<1> QED
  BY <1>1, <1>4 DEF Accounted, LevelFits

LEMMA AccountedSnakes == Accounted => SnakesAccounted
<1> SUFFICES ASSUME Accounted, ui = "playing", level # << >>
             PROVE  /\ (Range(level.mine) \ Range(level.theirs)) \cap DOMAIN players = {}
                    /\ \A p \in (Range(level.theirs) \ Range(level.mine)) \cap DOMAIN players :
                         p \in missed \/ \E i \in DOMAIN remote : remote[i].name = players[p].name
  BY DEF SnakesAccounted
<1>1. level.mine = Ids(remote) /\ Fits(Program, Host, level.theirs)
  BY DEF Accounted, LevelFits
<1>2. /\ Program.knows = {remote[i] : i \in DOMAIN remote} /\ Program.missed = missed
      /\ Host.players = players
  BY HostIs DEF Program, Prog, Range
<1>3. Range(level.mine) = {remote[i].id : i \in DOMAIN remote}
  BY <1>1 DEF Ids, Range
<1>4. \A e \in Program.knows : e.id \in DOMAIN players => e.id \in Range(level.theirs)
  BY <1>1, <1>2 DEF Fits
<1>5. (Range(level.mine) \ Range(level.theirs)) \cap DOMAIN players = {}
  BY <1>2, <1>3, <1>4
<1>6. ASSUME NEW p \in (Range(level.theirs) \ Range(level.mine)) \cap DOMAIN players
      PROVE  p \in missed \/ \E i \in DOMAIN remote : remote[i].name = players[p].name
  <2>1. Familiar(Program, Host, p)
    BY <1>1, <1>2 DEF Fits
  <2>2. p \in missed \/ \E i \in DOMAIN remote : remote[i].id = p \/ remote[i].name = players[p].name
    BY <1>2, <2>1 DEF Familiar
  <2> QED
    BY <1>3, <2>2
<1> QED
  BY <1>5, <1>6

\* A level's players are those in the program's list when levelStart comes
\* (Playing::Impl::levelStart), and theirs are in the message.  Where they differ,
\* a snake too many is of a player the server has removed, and for one too few the
\* program was told of him when no state of it listened, or the list still has his
\* name.
THEOREM SnakesAreAccounted == Spec => []SnakesAccounted
<1>1. Spec => []Accounted
  BY Invariance, AccountedAtFirst, AccountedKept, PTL DEF Spec
<1> QED
  BY <1>1, AccountedSnakes, PTL
=============================================================================
