----------------------------- MODULE FilesProofs -----------------------------
(***************************************************************************)
(* The files the programs keep, for any constants: what a crash costs the  *)
(* server's high scores, and below, what the user's editing and a death    *)
(* cost the players of a client.                                           *)
(***************************************************************************)
EXTENDS HighScores, Players, FiniteSetTheorems, SequenceTheorems, TLAPS

\* What a server that starts now would load.
Stored == IF file = NoFile THEN None ELSE file[1]

\* The file is always one of the states of the set, and the sets run ahead of it
\* only while save is at work; what is written to the temporary file is what the
\* rename will put there.
IInv ==
  /\ phase \in Phase
  /\ file # Partial
  /\ file # NoFile => file = Whole(file[1])
  /\ phase \in {"play", "announcing"} => scores = Stored
  /\ phase = "written" => temp = Whole(scores)

LEMMA Files ==
  /\ NoFile # Partial
  /\ \A s : Whole(s) # NoFile /\ Whole(s) # Partial /\ Whole(s)[1] = s
<1>1. Len(NoFile) = 0 /\ Len(Partial) = 2
  BY DEF NoFile, Partial
<1>2. ASSUME NEW s
      PROVE  Len(Whole(s)) = 1 /\ Whole(s)[1] = s
  BY DEF Whole
<1> QED
  BY <1>1, <1>2

LEMMA InitIInv == Init => IInv
BY Files DEF Init, IInv, Phase, Stored

\* Only Rename touches the file, and it does so when the temporary one is whole.
LEMMA NextIInv == IInv /\ [Next]_vars => IInv'
<1> SUFFICES ASSUME IInv, [Next]_vars
             PROVE  IInv'
  OBVIOUS
<1>1. CASE Clock
  BY <1>1 DEF IInv, Clock, Stored
<1>2. CASE \E t \in Types : Insert(t)
  <2>1. phase' = "opening" /\ file' = file
    BY <1>2 DEF Insert
  <2> QED
    BY <2>1 DEF IInv, Phase
<1>3. CASE Open
  BY <1>3 DEF IInv, Open, Phase
<1>4. CASE Write
  BY <1>4 DEF IInv, Write, Phase
<1>5. CASE Rename
  <2>1. file' = Whole(scores) /\ scores' = scores /\ phase' = "announcing"
    BY <1>5 DEF IInv, Rename
  <2>2. file'[1] = scores /\ file' # NoFile /\ file' # Partial
    BY <2>1, Files
  <2>3. Stored' = scores'
    BY <2>1, <2>2 DEF Stored
  <2> QED
    BY <2>1, <2>2, <2>3 DEF IInv, Phase
<1>6. CASE Announce
  BY <1>6 DEF IInv, Announce, Phase, Stored
<1>7. CASE Dies
  BY <1>7 DEF IInv, Dies, Phase
<1>8. CASE Load
  BY <1>8 DEF IInv, Load, Phase, Stored
<1>9. CASE UNCHANGED vars
  BY <1>9 DEF IInv, vars, Stored
<1> QED
  BY <1>1, <1>2, <1>3, <1>4, <1>5, <1>6, <1>7, <1>8, <1>9 DEF Next

\* While games are played the server's scores are those of its file, wherever
\* HighScoreManager::save was cut short before.
THEOREM CrashCostsOneScore == Spec => []UpToDate
<1>1. Init => IInv
  BY InitIInv
<1>2. IInv /\ [Next]_vars => IInv'
  BY NextIInv
<1>3. IInv => UpToDate
  BY DEF IInv, UpToDate, Stored
<1> QED
  BY <1>1, <1>2, <1>3, PTL DEF Spec

\* The rename in HighScoreManager::save replaces whole files by whole files: a
\* server that is down can always be started, with all it had stored.
NeverCut == file = NoFile \/ file = Whole(file[1])

THEOREM FileStaysWhole == Spec => []NeverCut
<1>1. Init => IInv
  BY InitIInv
<1>2. IInv /\ [Next]_vars => IInv'
  BY NextIInv
<1>3. IInv => NeverCut
  BY DEF IInv, NeverCut
<1> QED
  BY <1>1, <1>2, <1>3, PTL DEF Spec

-----------------------------------------------------------------------------
(* Counting down to 1, which makes up for induction. *)

LEMMA Descent ==
  ASSUME NEW n \in Nat, n >= 1, NEW T, n \in T,
         \A m \in 2 .. n : m \in T => m - 1 \in T
  PROVE  1 \in T
<1> SUFFICES ASSUME 1 \notin T
             PROVE  FALSE
  OBVIOUS
<1> DEFINE W == {m \in 1 .. n : m \in T}
           f == [m \in W |-> m - 1]
<1>1. IsFiniteSet(W) /\ Cardinality(W) \in Nat
  <2>1. IsFiniteSet(1 .. n) /\ W \in SUBSET (1 .. n)
    BY FS_Interval
  <2> QED
    BY <2>1, FS_Subset, FS_CardinalityType
<1>2. n \in W
  OBVIOUS
<1>3. \A m \in W : m \in Nat /\ m - 1 \in W \ {n}
  OBVIOUS
<1> HIDE DEF W
<1>4. f \in Injection(W, W \ {n})
  <2>1. f \in [W -> W \ {n}]
    BY <1>3
  <2>2. \A x, y \in W : f[x] = f[y] => x = y
    BY <1>3
  <2> QED
    BY <2>1, <2>2 DEF Injection, IsInjective
<1>5. IsFiniteSet(W \ {n}) /\ Cardinality(W \ {n}) = Cardinality(W) - 1
  BY <1>1, <1>2, FS_RemoveElement
<1> HIDE DEF f
<1>6. Cardinality(W) <= Cardinality(W \ {n})
  BY <1>4, <1>5, FS_Injection
<1> QED
  BY <1>1, <1>5, <1>6

-----------------------------------------------------------------------------
(* Ranks: 1 to the number of scores, one each. *)

Distinct(S) == \A r, s \in S : Alike(r, s) => r = s

Ranking(S) == S \in SUBSET HighScore /\ IsFiniteSet(S) /\ Distinct(S)

Better(S, s) == {r \in S : Precedes(s, r)}

LEMMA ScoreType ==
  ASSUME NEW s \in HighScore
  PROVE  s.total \in Int /\ s.time \in Int
<1>1. s.total \in Totals /\ s.time \in 0 .. LastSecond
  BY DEF HighScore
<1>2. s.total \in Int
  BY <1>1, HighScoresAssumption
<1>3. s.time \in Int
  BY <1>1
<1> QED
  BY <1>2, <1>3

\* operator< orders scores, and those it does not order have total and second alike.
LEMMA OrderOfScores ==
  ASSUME NEW r \in HighScore, NEW s \in HighScore
  PROVE  /\ ~Precedes(s, s)
         /\ Alike(r, s) <=> r.total = s.total /\ r.time = s.time
         /\ Precedes(r, s) \/ Precedes(s, r) \/ Alike(r, s)
         /\ \A t \in HighScore : Precedes(r, s) /\ Precedes(s, t) => Precedes(r, t)
BY ScoreType DEF Precedes, Alike

LEMMA RankType ==
  ASSUME NEW S, Ranking(S), NEW s \in S
  PROVE  Rank(S, s) \in 1 .. Cardinality(S)
<1>1. Better(S, s) \in SUBSET (S \ {s})
  BY OrderOfScores DEF Better, Ranking
<1>2. IsFiniteSet(S \ {s}) /\ Cardinality(S \ {s}) = Cardinality(S) - 1
  BY FS_RemoveElement DEF Ranking
<1>3. /\ Cardinality(S) \in Nat /\ Cardinality(Better(S, s)) \in Nat
      /\ Cardinality(Better(S, s)) <= Cardinality(S) - 1
  BY <1>1, <1>2, FS_Subset, FS_CardinalityType DEF Ranking
<1>4. Rank(S, s) = 1 + Cardinality(Better(S, s))
  BY DEF Rank, Better
<1> QED
  BY <1>3, <1>4

LEMMA RankOrders ==
  ASSUME NEW S, Ranking(S), NEW r \in S, NEW s \in S, Precedes(r, s)
  PROVE  Rank(S, s) < Rank(S, r)
<1>1. Better(S, s) \in SUBSET Better(S, r)
  BY OrderOfScores DEF Better, Ranking
<1>2. s \in Better(S, r) /\ s \notin Better(S, s)
  BY OrderOfScores DEF Better, Ranking
<1>3. IsFiniteSet(Better(S, r)) /\ IsFiniteSet(Better(S, s))
  <2>1. Better(S, r) \in SUBSET S /\ Better(S, s) \in SUBSET S
    BY DEF Better
  <2> QED
    BY <2>1, FS_Subset DEF Ranking
<1>4. /\ Cardinality(Better(S, s)) <= Cardinality(Better(S, r))
      /\ Cardinality(Better(S, s)) # Cardinality(Better(S, r))
  BY <1>1, <1>2, <1>3, FS_Subset
<1>5. Cardinality(Better(S, s)) \in Nat /\ Cardinality(Better(S, r)) \in Nat
  BY <1>3, FS_CardinalityType
<1> QED
  BY <1>4, <1>5 DEF Rank, Better

LEMMA RankUnique ==
  ASSUME NEW S, Ranking(S), NEW r \in S, NEW s \in S, Rank(S, r) = Rank(S, s)
  PROVE  r = s
<1>1. Rank(S, r) \in Int
  BY RankType
<1>2. CASE Precedes(r, s)
  BY <1>1, <1>2, RankOrders
<1>3. CASE Precedes(s, r)
  BY <1>1, <1>3, RankOrders
<1>4. CASE Alike(r, s)
  BY <1>4 DEF Ranking, Distinct
<1> QED
  BY <1>2, <1>3, <1>4, OrderOfScores DEF Ranking

\* There is a score for every rank.
LEMMA RankedIs ==
  ASSUME NEW S, Ranking(S), NEW i \in 1 .. Cardinality(S)
  PROVE  Ranked(S, i) \in S /\ Rank(S, Ranked(S, i)) = i
<1> DEFINE f == [s \in S |-> Rank(S, s)]
           N == Cardinality(S)
<1>1. f \in Injection(S, 1 .. N)
  <2>1. f \in [S -> 1 .. N]
    BY RankType
  <2>2. \A x, y \in S : f[x] = f[y] => x = y
    BY RankUnique
  <2> QED
    BY <2>1, <2>2 DEF Injection, IsInjective
<1>2. IsFiniteSet(1 .. N) /\ Cardinality(1 .. N) = N
  BY FS_Interval, FS_CardinalityType DEF Ranking
<1>3. f \in Surjection(S, 1 .. N)
  <2> HIDE DEF f, N
  <2>1. N = Cardinality(S)
    BY DEF N
  <2> QED
    BY <1>1, <1>2, <2>1, FS_Injection
<1>4. \E s \in S : f[s] = i
  BY <1>3 DEF Surjection
<1>5. \E s \in S : Rank(S, s) = i
  BY <1>4
<1> QED
  BY <1>5 DEF Ranked

\* The rank of a score's rank is that score.
LEMMA RankedBack ==
  ASSUME NEW S, Ranking(S), NEW s \in S
  PROVE  Ranked(S, Rank(S, s)) = s
BY RankType, RankedIs, RankUnique

-----------------------------------------------------------------------------
(* The loop of insert, that makes the report. *)

Items(S, h, rank) ==
  IF rank <= Best \/ Ranked(S, rank) = h
  THEN << [rank |-> rank, score |-> Ranked(S, rank)] >> ELSE << >>

\* One turn of the loop.
Turn(f, S, h, rank) ==
  IF rank > Cardinality(S) THEN << >>
  ELSE Items(S, h, rank)
       \o (IF rank > Best /\ Rank(S, h) <= rank THEN << >> ELSE f[rank + 1])

Unfolds(f, S, h, m) == f = [rank \in m .. Cardinality(S) + 1 |-> Turn(f, S, h, rank)]

\* The ranks from m on that the report is to have.
Due(S, h, m) == {r \in m .. Cardinality(S) : r <= Best \/ Ranked(S, r) = h}

\* q reports them.
Reports(q, S, h, m) ==
  /\ q \in ReportType
  /\ \A i \in 1 .. Len(q) : q[i].rank \in Due(S, h, m) /\ q[i].score = Ranked(S, q[i].rank)
  /\ \A r \in Due(S, h, m) : \E i \in 1 .. Len(q) : q[i].rank = r
  /\ \A i, j \in 1 .. Len(q) : i < j => q[i].rank < q[j].rank

LEMMA LoopEnds ==
  ASSUME NEW S, Ranking(S), NEW h
  PROVE  \E f : Unfolds(f, S, h, 1)
<1> DEFINE n == Cardinality(S) + 1
           T == {m \in 1 .. n : \E f : Unfolds(f, S, h, m)}
<1>1. n \in Nat /\ n >= 1 /\ Cardinality(S) \in Nat
  BY FS_CardinalityType DEF Ranking
<1>2. n \in T
  <2> DEFINE f == [rank \in n .. n |-> << >>]
  <2>1. \A rank \in n .. n : Turn(f, S, h, rank) = << >>
    BY <1>1 DEF Turn
  <2>2. Unfolds(f, S, h, n)
    BY <2>1 DEF Unfolds
  <2> QED
    BY <2>2, <1>1
<1>3. ASSUME NEW m \in 2 .. n, m \in T
      PROVE  m - 1 \in T
  <2>1. PICK f : Unfolds(f, S, h, m)
    BY <1>3
  <2>2. PICK k \in 1 .. n : k = m - 1 /\ k + 1 = m
    BY <1>1
  <2> DEFINE g == [rank \in k .. n |-> Turn(f, S, h, rank)]
  <2>3. \A rank \in m .. n : g[rank] = f[rank]
    BY <2>1, <2>2, <1>1 DEF Unfolds
  <2> HIDE DEF g
  <2>4. \A rank \in k .. n : Turn(g, S, h, rank) = Turn(f, S, h, rank)
    <3> TAKE rank \in k .. n
    <3>1. rank <= Cardinality(S) => rank + 1 \in m .. n
      BY <2>2, <1>1
    <3>2. rank <= Cardinality(S) => g[rank + 1] = f[rank + 1]
      BY <3>1, <2>3
    <3>3. rank > Cardinality(S) \/ rank <= Cardinality(S)
      BY <1>1, <2>2
    <3> QED
      BY <3>2, <3>3 DEF Turn
  <2>5. Unfolds(g, S, h, k)
    BY <2>4 DEF Unfolds, g
  <2> QED
    BY <2>2, <2>5
<1>4. 1 \in T
  <2> HIDE DEF T, n
  <2> QED
    BY <1>1, <1>2, <1>3, Descent
<1> QED
  BY <1>4

\* A turn adds the report of its rank to that of the ranks behind.
LEMMA TurnReports ==
  ASSUME NEW S, Ranking(S), NEW h \in S, NEW m \in 1 .. Cardinality(S),
         NEW q, Reports(q, S, h, m + 1)
  PROVE  Reports(Items(S, h, m) \o q, S, h, m)
<1> DEFINE N == Cardinality(S)
           c == [rank |-> m, score |-> Ranked(S, m)]
           R == [rank : Nat, score : HighScore]
<1>1. N \in Nat /\ m \in Nat /\ q \in Seq(R) /\ Len(q) \in Nat
  BY FS_CardinalityType DEF Ranking, Reports, ReportType
<1>2. c \in R /\ c.rank = m /\ c.score = Ranked(S, m)
  BY <1>1, RankedIs DEF Ranking
<1>3. CASE m <= Best \/ Ranked(S, m) = h
  <2>1. Due(S, h, m) = {m} \cup Due(S, h, m + 1)
    BY <1>1, <1>3 DEF Due
  <2> DEFINE p == << c >> \o q
  <2>2. p \in Seq(R) /\ Len(p) = Len(q) + 1 /\ p[1] = c /\ \A i \in 1 .. Len(q) : p[i + 1] = q[i]
    <3> HIDE DEF c, R
    <3> QED
      BY <1>1, <1>2
  <2> HIDE DEF p, c, N
  <2>3. \A i \in 1 .. Len(p) : i = 1 \/ \E j \in 1 .. Len(q) : i = j + 1
    <3> TAKE i \in 1 .. Len(p)
    <3>1. i # 1 => i - 1 \in 1 .. Len(q) /\ i = (i - 1) + 1
      BY <1>1, <2>2
    <3> QED
      BY <3>1
  <2>4. \A i \in 1 .. Len(p) : p[i].rank \in Due(S, h, m) /\ p[i].score = Ranked(S, p[i].rank)
    <3> TAKE i \in 1 .. Len(p)
    <3>1. CASE i = 1
      BY <3>1, <1>2, <2>1, <2>2
    <3>2. ASSUME NEW j \in 1 .. Len(q), i = j + 1
          PROVE  p[i].rank \in Due(S, h, m) /\ p[i].score = Ranked(S, p[i].rank)
      <4>1. p[i] = q[j]
        BY <3>2, <2>2
      <4> QED
        BY <4>1, <2>1 DEF Reports
    <3> QED
      BY <3>1, <3>2, <2>3
  <2>5. \A r \in Due(S, h, m) : \E i \in 1 .. Len(p) : p[i].rank = r
    <3> TAKE r \in Due(S, h, m)
    <3>1. CASE r = m
      <4>1. 1 \in 1 .. Len(p)
        BY <1>1, <2>2
      <4> QED
        BY <4>1, <3>1, <1>2, <2>2
    <3>2. CASE r # m
      <4>1. PICK j \in 1 .. Len(q) : q[j].rank = r
        BY <3>2, <2>1 DEF Reports
      <4>2. j + 1 \in 1 .. Len(p) /\ p[j + 1] = q[j]
        BY <1>1, <2>2
      <4> QED
        BY <4>1, <4>2
    <3> QED
      BY <3>1, <3>2
  <2>6. \A i, j \in 1 .. Len(p) : i < j => p[i].rank < p[j].rank
    <3> SUFFICES ASSUME NEW i \in 1 .. Len(p), NEW j \in 1 .. Len(p), i < j
                 PROVE  p[i].rank < p[j].rank
      OBVIOUS
    <3>1. PICK l \in 1 .. Len(q) : j = l + 1
      BY <2>3, <1>1, <2>2
    <3>2. p[j] = q[l]
      BY <3>1, <2>2
    <3>3. CASE i = 1
      <4>1. q[l].rank \in Due(S, h, m + 1)
        BY DEF Reports
      <4>2. q[l].rank \in m + 1 .. Cardinality(S)
        BY <4>1 DEF Due
      <4> QED
        BY SMTT(30), <4>2, <3>2, <3>3, <1>1, <1>2, <2>2
    <3>4. ASSUME NEW k \in 1 .. Len(q), i = k + 1
          PROVE  p[i].rank < p[j].rank
      <4>1. p[i] = q[k]
        BY <3>4, <2>2
      <4>2. k < l
        BY <3>1, <3>4, <1>1
      <4> QED
        BY <4>1, <4>2, <3>2 DEF Reports
    <3> QED
      BY <3>3, <3>4, <2>3
  <2>7. Items(S, h, m) \o q = p
    BY <1>3 DEF Items, p, c
  <2>8. p \in ReportType
    BY <2>2 DEF ReportType
  <2> QED
    BY <2>4, <2>5, <2>6, <2>7, <2>8 DEF Reports
<1>4. CASE ~(m <= Best \/ Ranked(S, m) = h)
  <2>1. Due(S, h, m) = Due(S, h, m + 1)
    BY <1>1, <1>4 DEF Due
  <2>2. Items(S, h, m) \o q = q
    <3>1. Items(S, h, m) = << >>
      BY <1>4 DEF Items
    <3> HIDE DEF R
    <3> QED
      BY <3>1, <1>1, ConcatEmptySeq
  <2> QED
    BY <2>1, <2>2 DEF Reports
<1> QED
  BY <1>3, <1>4

\* The loop leaves early only when nothing more is due.
LEMMA LeavesInTime ==
  ASSUME NEW S, Ranking(S), NEW h \in S, NEW m \in 1 .. Cardinality(S),
         m > Best, Rank(S, h) <= m
  PROVE  Due(S, h, m + 1) = {}
<1> SUFFICES ASSUME NEW r \in m + 1 .. Cardinality(S), r <= Best \/ Ranked(S, r) = h
             PROVE  FALSE
  BY DEF Due
<1>1. Cardinality(S) \in Nat /\ Best \in Nat /\ m \in Nat /\ r \in Nat /\ r > m
  BY FS_CardinalityType, HighScoresAssumption DEF Ranking
<1>2. r \in 1 .. Cardinality(S) /\ ~(r <= Best)
  BY <1>1
<1>3. Rank(S, h) = r
  BY <1>2, RankedIs
<1> QED
  BY <1>1, <1>3

LEMMA LoopReports ==
  ASSUME NEW S, Ranking(S), NEW h \in S, NEW f, Unfolds(f, S, h, 1)
  PROVE  Reports(f[1], S, h, 1)
<1> DEFINE N == Cardinality(S)
           n == N + 1
           T == {m \in 1 .. n : Reports(f[m], S, h, m)}
<1>1. n \in Nat /\ n >= 1 /\ N \in Nat
  BY FS_CardinalityType DEF Ranking
<1>2. \A m \in 1 .. n : f[m] = Turn(f, S, h, m)
  BY DEF Unfolds
<1>3. \A m \in Nat : Due(S, h, m) = {} => Reports(<< >>, S, h, m)
  BY DEF Reports, ReportType
<1>4. n \in T
  <2>1. f[n] = << >>
    BY <1>1, <1>2 DEF Turn
  <2>2. Due(S, h, n) = {}
    BY <1>1 DEF Due
  <2> QED
    BY <2>1, <2>2, <1>1, <1>3
<1>5. ASSUME NEW m \in 2 .. n, m \in T
      PROVE  m - 1 \in T
  <2>1. PICK k \in 1 .. N : k = m - 1 /\ k + 1 = m /\ k \in 1 .. n
    BY <1>1
  <2>2. f[k] = Items(S, h, k) \o (IF k > Best /\ Rank(S, h) <= k THEN << >> ELSE f[k + 1])
    <3>1. f[k] = Turn(f, S, h, k) /\ ~(k > N)
      BY <1>1, <1>2, <2>1
    <3> QED
      BY <3>1 DEF Turn
  <2>3. CASE k > Best /\ Rank(S, h) <= k
    <3>1. Reports(<< >>, S, h, k + 1)
      BY <2>1, <2>3, <1>3, LeavesInTime
    <3>2. Reports(f[k], S, h, k)
      BY <3>1, <2>2, <2>3, TurnReports
    <3> QED
      BY <3>2, <2>1
  <2>4. CASE ~(k > Best /\ Rank(S, h) <= k)
    <3>1. Reports(f[k + 1], S, h, k + 1)
      BY <1>5, <2>1
    <3>2. Reports(f[k], S, h, k)
      BY <3>1, <2>2, <2>4, TurnReports
    <3> QED
      BY <3>2, <2>1
  <2> QED
    BY <2>3, <2>4
<1>6. 1 \in T
  <2> HIDE DEF T, n
  <2> QED
    BY <1>1, <1>4, <1>5, Descent
<1> QED
  BY <1>6

\* insert's loop makes the report of all that is due.
LEMMA ReportIs ==
  ASSUME NEW S, Ranking(S), NEW h \in S
  PROVE  Reports(Report(S, h), S, h, 1)
<1> DEFINE F == CHOOSE f : f = [rank \in 1 .. Cardinality(S) + 1 |->
                IF rank > Cardinality(S) THEN << >>
                ELSE LET s == Ranked(S, rank)
                         gotNew == Rank(S, h) <= rank
                     IN  (IF rank <= Best \/ s = h THEN << [rank |-> rank, score |-> s] >>
                                                   ELSE << >>)
                         \o (IF rank > Best /\ gotNew THEN << >> ELSE f[rank + 1])]
<1>1. PICK g : Unfolds(g, S, h, 1)
  BY LoopEnds, Zenon
<1>2. Unfolds(F, S, h, 1)
  BY <1>1, Zenon DEF Unfolds, Turn, Items
<1>3. Report(S, h) = F[1]
  BY DEF Report
<1> HIDE DEF F
<1> QED
  BY <1>2, <1>3, LoopReports

-----------------------------------------------------------------------------
(* The scores, wherever they are. *)

\* The sets of one moment: of second n or before.
Kept(c, n) ==
  /\ c \in Scores
  /\ \A t \in Types : Ranking(c[t]) /\ \A s \in c[t] : s.time <= n

Ending == {"opening", "writing", "written", "announcing"}

\* The score of the game that is ending is in its set, and the last of it.
Newest ==
  /\ newest \in Types \X HighScore
  /\ newest[2].time <= now
  /\ \A s \in scores[newest[1]] : s.time <= newest[2].time
  /\ \E s \in scores[newest[1]] : Alike(s, newest[2])
  /\ report = Report(scores[newest[1]], Found(scores[newest[1]], newest[2]))

SetsInv ==
  /\ now \in 0 .. LastSecond
  /\ Kept(scores, now)
  /\ file = NoFile \/ Kept(file[1], now)
  /\ temp \in {NoFile, Partial} \/ (temp = Whole(temp[1]) /\ Kept(temp[1], now))
  /\ IF phase \in Ending THEN Newest ELSE newest = << >> /\ report = << >>

\* What clients have been shown is in the file, and in the sets while there are any.
ShownInv ==
  /\ shown \subseteq Types \X HighScore
  /\ phase = "announcing" => file # NoFile
  /\ \A x \in shown : /\ file # NoFile /\ x[2] \in file[1][x[1]]
                      /\ phase # "down" => x[2] \in scores[x[1]]

SInv == IInv /\ SetsInv /\ ShownInv

LEMMA NoneKept ==
  ASSUME NEW n
  PROVE  Kept(None, n)
<1>1. \A t \in Types : Ranking({})
  BY FS_EmptySet DEF Ranking, Distinct
<1> QED
  BY <1>1 DEF Kept, None, Scores

LEMMA KeptOn ==
  ASSUME NEW c, NEW n \in Nat, Kept(c, n), NEW m \in Nat, n <= m
  PROVE  Kept(c, m)
<1> SUFFICES ASSUME NEW t \in Types, NEW s \in c[t]
             PROVE  s.time <= m
  BY DEF Kept
<1>1. s \in HighScore /\ s.time <= n
  BY DEF Kept, Ranking
<1>2. s.time \in Int
  BY <1>1, ScoreType
<1> QED
  BY <1>1, <1>2

\* std::set::insert: nothing that is not ordered comes twice.
LEMMA InsertedIs ==
  ASSUME NEW S, Ranking(S), NEW h \in HighScore
  PROVE  /\ Ranking(Inserted(S, h)) /\ S \subseteq Inserted(S, h)
         /\ Inserted(S, h) \subseteq S \cup {h}
         /\ \E s \in Inserted(S, h) : Alike(s, h)
<1>1. CASE \E s \in S : Alike(s, h)
  BY <1>1 DEF Inserted
<1>2. CASE ~ \E s \in S : Alike(s, h)
  <2> DEFINE T == S \cup {h}
  <2>1. Inserted(S, h) = T
    BY <1>2 DEF Inserted
  <2>2. T \in SUBSET HighScore /\ IsFiniteSet(T)
    BY FS_AddElement DEF Ranking
  <2>3. \A s \in S : ~Alike(s, h) /\ ~Alike(h, s)
    BY <1>2 DEF Alike
  <2>4. Distinct(T)
    BY <2>3 DEF Distinct, Ranking
  <2>5. Alike(h, h)
    BY OrderOfScores
  <2> QED
    BY <2>1, <2>2, <2>4, <2>5 DEF Ranking
<1> QED
  BY <1>1, <1>2

LEMMA FoundIs ==
  ASSUME NEW S, NEW h, \E s \in S : Alike(s, h)
  PROVE  Found(S, h) \in S /\ Alike(Found(S, h), h)
BY DEF Found

LEMMA InitSInv == Init => SInv
<1> SUFFICES ASSUME Init
             PROVE  SInv
  OBVIOUS
<1>1. SetsInv
  BY NoneKept, HighScoresAssumption DEF Init, SetsInv, Ending
<1>2. ShownInv
  BY DEF Init, ShownInv
<1> QED
  BY <1>1, <1>2, InitIInv DEF SInv

LEMMA InsertKeeps ==
  ASSUME SInv, NEW t \in Types, Insert(t)
  PROVE  SetsInv' /\ ShownInv'
<1>1. PICK total \in Totals, by \in {"these", "those"} :
        LET h == [total |-> total, time |-> now, by |-> by]
            S == Inserted(scores[t], h)
        IN  /\ scores' = [scores EXCEPT ![t] = S]
            /\ newest' = << t, h >>
            /\ report' = Report(S, Found(S, h))
  BY DEF Insert
<1>2. PICK h \in HighScore : h = [total |-> total, time |-> now, by |-> by] /\ h.time = now
  <2>1. now \in 0 .. LastSecond /\ total \in Totals /\ by \in {"these", "those"}
    BY <1>1 DEF SInv, SetsInv
  <2>2. [total |-> total, time |-> now, by |-> by] \in HighScore
    BY <2>1 DEF HighScore
  <2> QED
    BY <2>2
<1>3. PICK S : S = Inserted(scores[t], h)
  OBVIOUS
<1>4. /\ scores' = [scores EXCEPT ![t] = S] /\ newest' = << t, h >>
      /\ report' = Report(S, Found(S, h))
  BY <1>1, <1>2, <1>3
<1>5. UNCHANGED << now, file, temp, shown >> /\ phase = "play" /\ phase' = "opening"
  BY DEF Insert
<1>6. now \in Nat /\ Kept(scores, now)
  BY DEF SInv, SetsInv
<1>7. /\ Ranking(S) /\ scores[t] \subseteq S /\ S \subseteq scores[t] \cup {h}
      /\ \E s \in S : Alike(s, h)
  BY <1>3, <1>6, InsertedIs DEF Kept
<1>8. \A s \in S : s.time <= now
  <2>1. \A s \in scores[t] : s.time <= now
    BY <1>6 DEF Kept
  <2> QED
    BY <2>1, <1>2, <1>6, <1>7
<1>9. Kept(scores', now)
  <2>1. scores \in Scores /\ S \in SUBSET HighScore
    BY <1>6, <1>7 DEF Kept, Ranking
  <2>2. scores' \in Scores
    BY <2>1, <1>4 DEF Scores
  <2>3. scores'[t] = S /\ \A u \in Types : u # t => scores'[u] = scores[u]
    BY <2>1, <1>4 DEF Scores
  <2> QED
    BY <2>2, <2>3, <1>6, <1>7, <1>8 DEF Kept
<1>10. scores'[t] = S
  BY <1>4, <1>6 DEF Kept, Scores
<1>11. Newest'
  <2>1. newest'[1] = t /\ newest'[2] = h /\ newest' \in Types \X HighScore
    BY <1>4
  <2>2. now' = now /\ h.time <= now
    BY <1>2, <1>5, <1>6
  <2>3. \A s \in S : s.time <= h.time
    BY <1>2, <1>8
  <2> QED
    BY <2>1, <2>2, <2>3, <1>4, <1>7, <1>10 DEF Newest
<1>12. SetsInv'
  BY <1>5, <1>9, <1>11 DEF SInv, SetsInv, Ending
<1>13. ShownInv'
  <2>1. \A u \in Types : scores[u] \subseteq scores'[u]
    BY <1>4, <1>6, <1>7, <1>10 DEF Kept, Scores
  <2>2. \A x \in shown : x[1] \in Types /\ x[2] \in scores[x[1]]
    BY <1>5 DEF SInv, ShownInv
  <2> QED
    BY <2>1, <2>2, <1>5 DEF SInv, ShownInv
<1> QED
  BY <1>12, <1>13

\* What a report shows is in the sets.
LEMMA ReportShows ==
  ASSUME SInv, phase \in Ending
  PROVE  /\ Ranking(scores[newest[1]]) /\ newest[1] \in Types
         /\ Found(scores[newest[1]], newest[2]) \in scores[newest[1]]
         /\ Alike(Found(scores[newest[1]], newest[2]), newest[2])
         /\ Reports(report, scores[newest[1]], Found(scores[newest[1]], newest[2]), 1)
         /\ \A i \in DOMAIN report : report[i].score \in scores[newest[1]]
<1>1. newest[1] \in Types /\ Ranking(scores[newest[1]]) /\ Newest
  BY DEF SInv, SetsInv, Newest, Kept
<1> DEFINE S == scores[newest[1]]
           h == Found(S, newest[2])
<1>2. h \in S /\ Alike(h, newest[2])
  BY <1>1, FoundIs DEF Newest
<1>3. Reports(report, S, h, 1)
  BY <1>1, <1>2, ReportIs DEF Newest
<1>4. \A i \in DOMAIN report : report[i].score \in S
  <2> TAKE i \in DOMAIN report
  <2>1. report \in ReportType /\ i \in 1 .. Len(report)
    BY <1>3 DEF Reports, ReportType
  <2>2. report[i].rank \in Due(S, h, 1) /\ report[i].score = Ranked(S, report[i].rank)
    BY <1>3, <2>1 DEF Reports
  <2>3. report[i].rank \in 1 .. Cardinality(S)
    BY <2>2 DEF Due
  <2> QED
    BY <2>2, <2>3, <1>1, RankedIs
<1> QED
  BY <1>1, <1>2, <1>3, <1>4

LEMMA AnnounceKeeps ==
  ASSUME SInv, Announce
  PROVE  SetsInv' /\ ShownInv'
<1>1. /\ phase = "announcing" /\ phase' = "play" /\ newest' = << >> /\ report' = << >>
      /\ UNCHANGED << now, scores, file, temp >>
      /\ shown' = shown \cup {<< newest[1], report[i].score >> : i \in DOMAIN report}
  BY DEF Announce
<1>2. SetsInv'
  BY <1>1 DEF SInv, SetsInv, Ending
<1>3. file # NoFile /\ scores = file[1]
  BY <1>1 DEF SInv, ShownInv, IInv, Stored
<1>4. \A x \in shown' \ shown : x[1] \in Types /\ x \in Types \X HighScore /\ x[2] \in scores[x[1]]
  <2> SUFFICES ASSUME NEW i \in DOMAIN report, NEW x, x = << newest[1], report[i].score >>
               PROVE  x[1] \in Types /\ x \in Types \X HighScore /\ x[2] \in scores[x[1]]
    BY <1>1
  <2>1. newest[1] \in Types /\ report[i].score \in scores[newest[1]] /\ Ranking(scores[newest[1]])
    BY <1>1, ReportShows DEF Ending
  <2>2. report[i].score \in HighScore
    BY <2>1 DEF Ranking
  <2> QED
    BY <2>1, <2>2
<1>5. ShownInv'
  BY <1>1, <1>3, <1>4 DEF SInv, ShownInv
<1> QED
  BY <1>2, <1>5

LEMMA NextSInv == SInv /\ [Next]_vars => SInv'
<1> SUFFICES ASSUME SInv, [Next]_vars
             PROVE  SInv'
  OBVIOUS
<1>1. IInv'
  BY NextIInv DEF SInv
<1>2. now \in Nat
  BY DEF SInv, SetsInv
<1>3. CASE Clock
  <2>1. now' \in Nat /\ now <= now' /\ now' \in 0 .. LastSecond
    BY <1>3, <1>2, HighScoresAssumption DEF Clock
  <2>2. \A c : Kept(c, now) => Kept(c, now')
    BY <1>2, <2>1, KeptOn
  <2>3. phase \in Ending => Newest'
    <3> SUFFICES ASSUME phase \in Ending
                 PROVE  Newest'
      OBVIOUS
    <3>1. Newest
      BY DEF SInv, SetsInv
    <3>2. newest[2].time \in Int
      BY <3>1, ScoreType DEF Newest
    <3> QED
      BY <1>2, <1>3, <2>1, <3>1, <3>2 DEF Clock, Newest
  <2>4. SetsInv'
    BY <1>3, <2>1, <2>2, <2>3 DEF Clock, SInv, SetsInv
  <2>5. ShownInv'
    BY <1>3 DEF Clock, SInv, ShownInv
  <2> QED
    BY <1>1, <2>4, <2>5 DEF SInv
<1>4. CASE \E t \in Types : Insert(t)
  BY <1>1, <1>4, InsertKeeps DEF SInv
<1>5. CASE Open
  <2>1. Newest'
    BY <1>5 DEF Open, SInv, SetsInv, Ending, Newest
  <2>2. SetsInv'
    BY <1>5, <2>1 DEF Open, SInv, SetsInv, Ending
  <2>3. ShownInv'
    BY <1>5 DEF Open, SInv, ShownInv
  <2> QED
    BY <1>1, <2>2, <2>3 DEF SInv
<1>6. CASE Write
  <2>1. Newest'
    BY <1>6 DEF Write, SInv, SetsInv, Ending, Newest
  <2>2. temp' = Whole(temp'[1]) /\ Kept(temp'[1], now)
    BY <1>6, Files DEF Write, SInv, SetsInv
  <2>3. SetsInv'
    BY <1>6, <2>1, <2>2 DEF Write, SInv, SetsInv, Ending
  <2>4. ShownInv'
    BY <1>6 DEF Write, SInv, ShownInv
  <2> QED
    BY <1>1, <2>3, <2>4 DEF SInv
<1>7. CASE Rename
  <2>1. Newest'
    BY <1>7 DEF Rename, SInv, SetsInv, Ending, Newest
  <2>2. file'[1] = scores /\ file' # NoFile
    BY <1>7, Files DEF Rename, SInv, IInv
  <2>3. SetsInv'
    BY <1>7, <2>1, <2>2 DEF Rename, SInv, SetsInv, Ending
  <2>4. ShownInv'
    BY <1>7, <2>2 DEF Rename, SInv, ShownInv
  <2> QED
    BY <1>1, <2>3, <2>4 DEF SInv
<1>8. CASE Announce
  BY <1>1, <1>8, AnnounceKeeps DEF SInv
<1>9. CASE Dies
  <2>1. SetsInv'
    BY <1>9, NoneKept DEF Dies, SInv, SetsInv, Ending
  <2>2. ShownInv'
    BY <1>9 DEF Dies, SInv, ShownInv
  <2> QED
    BY <1>1, <2>1, <2>2 DEF SInv
<1>10. CASE Load
  <2>1. SetsInv'
    BY <1>10, NoneKept DEF Load, SInv, SetsInv, Ending
  <2>2. ShownInv'
    BY <1>10 DEF Load, SInv, ShownInv
  <2> QED
    BY <1>1, <2>1, <2>2 DEF SInv
<1>11. CASE UNCHANGED vars
  BY <1>1, <1>11 DEF vars, SInv, SetsInv, ShownInv, Newest
<1> QED
  BY <1>3, <1>4, <1>5, <1>6, <1>7, <1>8, <1>9, <1>10, <1>11 DEF Next

\* The sets are sets by operator<, their file and the report follow from them, and
\* what was shown is in both.
THEOREM Invariance == Spec => []SInv
BY InitSInv, NextSInv, PTL DEF Spec

-----------------------------------------------------------------------------
(* What follows for the file and the clients. *)

LEMMA TypesFollow == SInv => TypeOK
<1> SUFFICES ASSUME SInv
             PROVE  TypeOK
  OBVIOUS
<1>1. file = NoFile \/ (Len(file) = 1 /\ file[1] \in Scores)
  <2> SUFFICES ASSUME file # NoFile
               PROVE  Len(file) = 1 /\ file[1] \in Scores
    OBVIOUS
  <2>1. PICK c : c = file[1] /\ file = << c >> /\ c \in Scores
    BY DEF SInv, IInv, SetsInv, Kept, Whole
  <2> QED
    BY <2>1
<1>2. temp \in {NoFile, Partial} \/ (Len(temp) = 1 /\ temp[1] \in Scores)
  <2> SUFFICES ASSUME temp \notin {NoFile, Partial}
               PROVE  Len(temp) = 1 /\ temp[1] \in Scores
    OBVIOUS
  <2>1. PICK c : c = temp[1] /\ temp = << c >> /\ c \in Scores
    BY DEF SInv, SetsInv, Kept, Whole
  <2> QED
    BY <2>1
<1>3. newest \in (Types \X HighScore) \cup {<< >>}
  BY DEF SInv, SetsInv, Newest
<1>4. report \in ReportType
  <2>1. CASE phase \in Ending
    BY <2>1, ReportShows DEF Reports
  <2>2. CASE phase \notin Ending
    BY <2>2 DEF SInv, SetsInv, ReportType
  <2> QED
    BY <2>1, <2>2
<1> QED
  BY <1>1, <1>2, <1>3, <1>4 DEF TypeOK, SInv, IInv, SetsInv, Kept, ShownInv

\* The file holds whole sets, the clock stays in its bound, and a report is a
\* sequence of ranked scores.
THEOREM TypeCorrect == Spec => []TypeOK
BY Invariance, TypesFollow, PTL

\* What sendToAll(gameOver) has shown is in the file by then, and no crash at any
\* step of save, no later game and no start of a server takes it away.
THEOREM ShownStays == Spec => []ShownIsKept
<1>1. SInv => ShownIsKept
  BY DEF SInv, ShownInv, ShownIsKept
<1> QED
  BY <1>1, Invariance, PTL

-----------------------------------------------------------------------------
(* The report, and what a client marks in it. *)

LEMMA FirstIs ==
  ASSUME NEW n \in Nat, n >= 1, NEW U, n \in U
  PROVE  \E m \in 1 .. n : m \in U /\ \A k \in 1 .. m - 1 : k \notin U
<1> SUFFICES ASSUME \A m \in 1 .. n : m \in U => \E k \in 1 .. m - 1 : k \in U
             PROVE  FALSE
  OBVIOUS
<1> DEFINE T == {m \in 1 .. n : \E k \in 1 .. m : k \in U}
<1>1. n \in T
  OBVIOUS
<1>2. ASSUME NEW m \in 2 .. n, m \in T
      PROVE  m - 1 \in T
  <2>1. PICK k \in 1 .. m : k \in U
    BY <1>2
  <2>2. PICK l \in 1 .. k - 1 : l \in U
    BY <2>1
  <2>3. l \in 1 .. m - 1 /\ m - 1 \in 1 .. n
    BY <2>1, <2>2
  <2> QED
    BY <2>2, <2>3
<1>3. 1 \in T
  <2> HIDE DEF T
  <2> QED
    BY <1>1, <1>2, Descent
<1>4. 1 \in U
  BY <1>3
<1> QED
  BY <1>4

\* An entry is a rank and the score of that rank.
LEMMA EntryIs ==
  ASSUME NEW S, Ranking(S), NEW h \in S, NEW q, Reports(q, S, h, 1), NEW i \in 1 .. Len(q)
  PROVE  /\ q[i].score \in S /\ Rank(S, q[i].score) = q[i].rank
         /\ q[i] = [rank |-> q[i].rank, score |-> q[i].score]
         /\ q[i].rank <= Best \/ q[i].score = h
<1>1. q[i].rank \in Due(S, h, 1) /\ q[i].score = Ranked(S, q[i].rank)
  BY DEF Reports
<1>2. q[i].rank \in 1 .. Cardinality(S) /\ (q[i].rank <= Best \/ q[i].score = h)
  BY <1>1 DEF Due
<1>3. q[i].score \in S /\ Rank(S, q[i].score) = q[i].rank
  BY <1>1, <1>2, RankedIs
<1>4. q[i] \in [rank : Nat, score : HighScore]
  <2>1. PICK R : R = [rank : Nat, score : HighScore]
    OBVIOUS
  <2>2. q \in Seq(R)
    BY <2>1 DEF Reports, ReportType
  <2>3. q[i] \in R
    BY <2>2
  <2> QED
    BY <2>1, <2>3
<1> QED
  BY <1>2, <1>3, <1>4

\* What is due is there.
LEMMA EntryFor ==
  ASSUME NEW S, Ranking(S), NEW h \in S, NEW q, Reports(q, S, h, 1),
         NEW s \in S, Rank(S, s) <= Best \/ s = h
  PROVE  \E i \in 1 .. Len(q) : q[i].rank = Rank(S, s) /\ q[i].score = s
<1>1. Rank(S, s) \in 1 .. Cardinality(S) /\ Ranked(S, Rank(S, s)) = s
  BY RankType, RankedBack
<1>2. Rank(S, s) \in Due(S, h, 1)
  BY <1>1 DEF Due
<1>3. PICK i \in 1 .. Len(q) : q[i].rank = Rank(S, s)
  BY <1>2 DEF Reports
<1>4. q[i].score = s
  BY <1>1, <1>3 DEF Reports
<1> QED
  BY <1>3, <1>4

LEMMA ReportFollows == SInv => ReportRight
<1> SUFFICES ASSUME SInv, newest # << >>
             PROVE  ReportRight
  BY DEF ReportRight
<1>1. phase \in Ending
  BY DEF SInv, SetsInv
<1> DEFINE S == scores[newest[1]]
           h == Found(S, newest[2])
<1>2. /\ Ranking(S) /\ h \in S /\ Alike(h, newest[2]) /\ Reports(report, S, h, 1)
      /\ newest[2] \in HighScore /\ \A s \in S : s.time <= newest[2].time
  BY <1>1, ReportShows DEF SInv, SetsInv, Newest
<1>3. \A s \in S : s \in HighScore
  BY <1>2 DEF Ranking
<1> HIDE DEF S, h
<1>4. \A s \in S : Alike(s, newest[2]) <=> s = h
  <2> TAKE s \in S
  <2>1. ASSUME Alike(s, newest[2])
        PROVE  s = h
    <3>1. Alike(s, h)
      BY <1>2, <1>3, <2>1, OrderOfScores
    <3> QED
      BY <1>2, <3>1 DEF Ranking, Distinct
  <2> QED
    BY <1>2, <2>1
<1>5. DOMAIN report = 1 .. Len(report) /\ Len(report) \in Nat
  BY <1>2 DEF Reports, ReportType
<1> DEFINE Chosen == {x \in S : Rank(S, x) <= Best \/ Alike(x, newest[2])}
           All == {[rank |-> Rank(S, s), score |-> s] : s \in Chosen}
<1>6. Range(report) = All
  <2>1. ASSUME NEW i \in 1 .. Len(report)
        PROVE  report[i] \in All
    <3>1. PICK s \in S : s = report[i].score
      BY <1>2, EntryIs
    <3>2. Rank(S, s) = report[i].rank /\ report[i] = [rank |-> report[i].rank, score |-> s]
      BY <1>2, <3>1, EntryIs
    <3>3. Rank(S, s) <= Best \/ s = h
      BY <1>2, <3>1, <3>2, EntryIs
    <3> QED
      BY <1>4, <3>2, <3>3
  <2>2. ASSUME NEW s \in Chosen
        PROVE  \E i \in 1 .. Len(report) : report[i] = [rank |-> Rank(S, s), score |-> s]
    <3>1. s \in S /\ (Rank(S, s) <= Best \/ s = h)
      BY <1>4
    <3>2. PICK i \in 1 .. Len(report) : report[i].rank = Rank(S, s) /\ report[i].score = s
      BY <1>2, <3>1, EntryFor
    <3>3. report[i] = [rank |-> report[i].rank, score |-> report[i].score]
      BY <1>2, EntryIs
    <3> QED
      BY <3>2, <3>3
  <2> QED
    BY <1>5, <2>1, <2>2 DEF Range
<1>7. \A i, j \in DOMAIN report : i < j => report[i].rank < report[j].rank
  BY <1>2, <1>5 DEF Reports
<1>8. report[Marked].score.time = newest[2].time
  <2>1. \A i \in 1 .. Len(report) : /\ report[i].score.time <= newest[2].time
                                    /\ report[i].score.time \in Int
    BY <1>2, <1>3, EntryIs, ScoreType
  <2>2. newest[2].time \in Int
    BY <1>2, ScoreType
  <2> DEFINE U == {i \in 1 .. Len(report) : report[i].score.time = newest[2].time}
  <2>3. PICK n \in 1 .. Len(report) : n \in U
    <3>1. PICK i \in 1 .. Len(report) : report[i].score = h
      BY <1>2, EntryFor
    <3>2. h.time = newest[2].time
      BY <1>2, <1>3, OrderOfScores
    <3> QED
      BY <3>1, <3>2
  <2>4. PICK m \in 1 .. n : m \in U /\ \A k \in 1 .. m - 1 : k \notin U
    <3> HIDE DEF U
    <3> QED
      BY <2>3, <1>5, FirstIs
  <2>5. m \in 1 .. Len(report) /\ report[m].score.time = newest[2].time
    BY <2>4
  <2>6. \A j \in 1 .. Len(report) : report[j].score.time <= report[m].score.time
    BY <2>1, <2>5
  <2>7. \A j \in 1 .. m - 1 : report[j].score.time < report[m].score.time
    <3> TAKE j \in 1 .. m - 1
    <3>1. j \in 1 .. Len(report) /\ j \notin U
      BY <2>4, <2>5, <1>5
    <3> QED
      BY <3>1, <2>1, <2>2, <2>5
  <2>8. /\ Marked \in 1 .. Len(report)
        /\ \A j \in 1 .. Len(report) : report[j].score.time <= report[Marked].score.time
    BY <1>5, <2>5, <2>6, <2>7 DEF Marked
  <2> QED
    BY <2>1, <2>2, <2>5, <2>8
<1> QED
  BY <1>6, <1>7, <1>8 DEF ReportRight, S

\* HighScoreManager::insert reports what it is to report, for any scores: the best,
\* and that of the game which is over, each with its rank and in order; and what
\* HighScoreView::refreshScores marks is of the second of that game.
THEOREM ReportIsRight == Spec => []ReportRight
BY Invariance, ReportFollows, PTL

-----------------------------------------------------------------------------
(* The players of a client: Editor, on files of its own. *)

Editor == INSTANCE Editor

\* A list the code's container can hold.
Roster(ps) ==
  /\ ps \in Seq(Editor!ControlledPlayer) /\ Len(ps) <= MaxPlayers
  /\ \A i, j \in DOMAIN ps : ps[i].name = ps[j].name => i = j

\* The list, what save has made of it, and what the next start finds.
Keeps ==
  /\ doing = "down" => players = << >>
  /\ playersFile = Editor!NoFile \/ playersFile = Editor!Whole(Editor!Held(playersFile))
  /\ doing \in {"written", "removed"} => newFile = Editor!Whole(players)
  /\ doing = "playing" => playersFile = Editor!Whole(players)
  /\ doing = "removed" \/ torn \/ Editor!Held(playersFile) \in settled

\* What every step of a client keeps: the form goes with the list, and the list
\* with the file.
EditorInv == /\ Editor!TypeOK
             /\ Roster(players) /\ Roster(Editor!Held(playersFile))
             /\ Keeps
             /\ Editor!FormShowsPlayers

LEMMA PlayersFiles ==
  /\ Editor!NoFile # Editor!Partial
  /\ Editor!Held(Editor!NoFile) = << >>
  /\ \A ps : /\ Editor!Whole(ps) # Editor!NoFile /\ Editor!Whole(ps) # Editor!Partial
             /\ Editor!Held(Editor!Whole(ps)) = ps
<1>1. Len(Editor!NoFile) = 0 /\ Len(Editor!Partial) = 2
  BY DEF Editor!NoFile, Editor!Partial
<1>2. ASSUME NEW ps
      PROVE  Len(Editor!Whole(ps)) = 1 /\ Editor!Whole(ps)[1] = ps
  BY DEF Editor!Whole
<1>3. Editor!Held(Editor!NoFile) = << >>
  BY DEF Editor!Held
<1>4. ASSUME NEW ps
      PROVE  Editor!Whole(ps) # Editor!NoFile
  BY <1>1, <1>2
<1> QED
  BY <1>1, <1>2, <1>3, <1>4 DEF Editor!Held

LEMMA RosterIs ==
  ASSUME NEW ps, Roster(ps)
  PROVE  /\ Len(ps) \in Nat /\ DOMAIN ps = 1 .. Len(ps)
         /\ \A i \in DOMAIN ps : ps[i] \in Editor!ControlledPlayer
BY DEF Roster

\* The names of a list are the rows of the form.
LEMMA NamesAre ==
  ASSUME NEW ps, Roster(ps)
  PROVE  /\ Editor!NamesOf(ps) \in Seq(Names) /\ Len(Editor!NamesOf(ps)) = Len(ps)
         /\ DOMAIN Editor!NamesOf(ps) = DOMAIN ps
         /\ \A i \in DOMAIN ps : Editor!NamesOf(ps)[i] = ps[i].name /\ ps[i].name \in Names
         /\ \A i, j \in DOMAIN ps : Editor!NamesOf(ps)[i] = Editor!NamesOf(ps)[j] => i = j
         /\ Editor!NamesOf(ps) = << >> <=> ps = << >>
<1>1. /\ Len(ps) \in Nat /\ DOMAIN ps = 1 .. Len(ps)
      /\ \A i \in DOMAIN ps : ps[i] \in Editor!ControlledPlayer
  BY RosterIs
<1>2. \A i \in DOMAIN ps : ps[i].name \in Names
  BY <1>1 DEF Editor!ControlledPlayer
<1>3. /\ DOMAIN Editor!NamesOf(ps) = DOMAIN ps
      /\ \A i \in DOMAIN ps : Editor!NamesOf(ps)[i] = ps[i].name
  BY DEF Editor!NamesOf
<1>4. Editor!NamesOf(ps) \in Seq(Names) /\ Len(Editor!NamesOf(ps)) = Len(ps)
  BY <1>1, <1>2 DEF Editor!NamesOf
<1>5. \A i, j \in DOMAIN ps : Editor!NamesOf(ps)[i] = Editor!NamesOf(ps)[j] => i = j
  BY <1>3 DEF Roster
<1>6. Editor!NamesOf(ps) = << >> <=> ps = << >>
  <2>1. ps \in Seq(Editor!ControlledPlayer)
    BY DEF Roster
  <2> QED
    BY <1>4, <2>1, EmptySeq
<1> QED
  BY <1>2, <1>3, <1>4, <1>5, <1>6

LEMMA NobodyYet ==
  ASSUME Editor!PlayersAssumption
  PROVE  Roster(<< >>) /\ Editor!NamesOf(<< >>) = << >>
<1> DEFINE none == << >>
<1>1. none \in Seq(Editor!ControlledPlayer) /\ Len(none) = 0
  BY EmptySeq
<1> HIDE DEF none
<1>2. DOMAIN none = 1 .. Len(none)
  BY <1>1
<1>3. Roster(none)
  BY <1>1, <1>2 DEF Roster, Editor!PlayersAssumption
<1> QED
  BY <1>3, NamesAre DEF none

\* Nobody else has the new name: nobody is erased.
LEMMA ModifiedIs ==
  ASSUME NEW ps, Roster(ps), NEW i \in DOMAIN ps, NEW p \in Editor!ControlledPlayer,
         \A j \in DOMAIN ps \ {i} : ps[j].name # p.name
  PROVE  /\ Roster(Editor!Modified(ps, i, p))
         /\ Editor!Modified(ps, i, p) = [ps EXCEPT ![i] = p]
<1> DEFINE q == [ps EXCEPT ![i] = p]
<1>1. Editor!Modified(ps, i, p) = q
  BY DEF Editor!Modified
<1>2. /\ q \in Seq(Editor!ControlledPlayer) /\ Len(q) = Len(ps) /\ DOMAIN q = DOMAIN ps
      /\ \A j \in DOMAIN ps : q[j] = IF j = i THEN p ELSE ps[j]
  BY RosterIs DEF Roster
<1> HIDE DEF q
<1>3. ASSUME NEW j \in DOMAIN ps, NEW k \in DOMAIN ps, q[j].name = q[k].name
      PROVE  j = k
  BY <1>2, <1>3 DEF Roster
<1>4. Roster(q)
  BY <1>2, <1>3 DEF Roster
<1> QED
  BY <1>1, <1>4 DEF q

\* refreshLocalPlayers ends on a row if there is one.
LEMMA SelectedIs ==
  ASSUME NEW ps, Roster(ps)
  PROVE  /\ Editor!Selected(ps) \in 0 .. Len(ps)
         /\ Editor!Selected(ps) = 0 <=> ps = << >>
<1> DEFINE empty == {i \in DOMAIN ps : ps[i].name = Editor!Blank}
<1>1. /\ Len(ps) \in Nat /\ DOMAIN ps = 1 .. Len(ps) /\ empty \subseteq DOMAIN ps
      /\ ps = << >> <=> Len(ps) = 0
  <2>1. ps \in Seq(Editor!ControlledPlayer)
    BY DEF Roster
  <2> QED
    BY <2>1, RosterIs, EmptySeq
<1>2. /\ ps = << >> => Editor!Selected(ps) = 0
      /\ ps # << >> => Editor!Selected(ps) = CASE empty = {1} /\ Len(ps) > 1 -> 2
                                               [] empty = {} -> 1
                                               [] OTHER -> CHOOSE i \in empty : TRUE
  BY DEF Editor!Selected
<1> HIDE DEF empty
<1>3. CASE ps = << >>
  BY <1>1, <1>2, <1>3
<1>4. CASE ps # << >> /\ empty = {1} /\ Len(ps) > 1
  BY <1>1, <1>2, <1>4
<1>5. CASE ps # << >> /\ empty = {}
  BY <1>1, <1>2, <1>5
<1>6. CASE ps # << >> /\ empty # {} /\ ~(empty = {1} /\ Len(ps) > 1)
  <2>1. Editor!Selected(ps) = CHOOSE i \in empty : TRUE
    BY <1>2, <1>6
  <2>2. Editor!Selected(ps) \in empty
    BY <1>6, <2>1
  <2> QED
    BY <1>1, <1>6, <2>2
<1> QED
  BY <1>3, <1>4, <1>5, <1>6

LEMMA EditorStarts == ASSUME Editor!PlayersAssumption, Editor!Init PROVE EditorInv
<1>1. Roster(<< >>) /\ Editor!NamesOf(<< >>) = << >> /\ << >> \in Seq(Names) /\ Len(<< >>) = 0
  BY NobodyYet, EmptySeq
<1>2. /\ players = << >> /\ rows = << >> /\ active = 0 /\ entry = Editor!Blank
      /\ dialog = Editor!NoDialog /\ doing = "down" /\ exits = FALSE /\ dangling = FALSE
      /\ torn = FALSE /\ settled = {<< >>} /\ playersFile = Editor!NoFile
  BY DEF Editor!Init
<1>3. Editor!TypeOK
  <2>1. /\ players \in Seq(Editor!ControlledPlayer) /\ Len(players) <= MaxPlayers
        /\ rows \in Seq(Names)
    BY <1>1, <1>2 DEF Roster
  <2>2. active \in 0 .. Len(rows)
    BY <1>1, <1>2
  <2>3. entry \in Names
    BY <1>2 DEF Editor!PlayersAssumption
  <2> QED
    BY <1>2, <2>1, <2>2, <2>3 DEF Editor!TypeOK
<1>4. Editor!Held(playersFile) = << >>
  BY <1>2, PlayersFiles
<1>5. Keeps
  BY <1>2, <1>4 DEF Keeps
<1>6. Editor!FormShowsPlayers
  BY <1>2 DEF Editor!FormShowsPlayers
<1> QED
  BY <1>1, <1>2, <1>3, <1>4, <1>5, <1>6 DEF EditorInv

\* Configuring is made, and finds the file.
LEMMA LoadKeeps ==
  ASSUME Editor!PlayersAssumption, EditorInv, doing \in {"down", "playing"},
         Editor!LoadLocalPlayers, exits' \in BOOLEAN,
         \/ settled' = settled /\ torn' = torn
         \/ settled' = {players'} /\ torn' = FALSE
  PROVE  /\ EditorInv'
         /\ players' \in settled \/ torn
<1> DEFINE ps == Editor!Held(playersFile)
<1>1. /\ rows' = IF playersFile = Editor!NoFile THEN << >> ELSE Editor!NamesOf(ps)
      /\ active' = IF playersFile = Editor!NoFile THEN 0 ELSE Editor!Selected(ps)
      /\ playersFile = Editor!NoFile => players' = players /\ entry' = entry
      /\ playersFile # Editor!NoFile =>
           players' = ps /\ entry' = IF active' = 0 THEN Editor!Blank ELSE rows'[active']
      /\ doing' = "configuring" /\ dialog' = dialog /\ dangling' = dangling
      /\ playersFile' = playersFile /\ newFile' = newFile
  BY DEF Editor!LoadLocalPlayers, Editor!RefreshLocalPlayer, Editor!files
<1>2. /\ doing = "down" => players = << >>
      /\ doing = "playing" => playersFile = Editor!Whole(players)
      /\ ps \in settled \/ torn
  BY DEF EditorInv, Keeps
<1>3. playersFile = Editor!NoFile => players = << >> /\ ps = << >>
  BY <1>2, PlayersFiles
<1>4. players' = ps /\ Roster(ps)
  BY <1>1, <1>3 DEF EditorInv
<1>5. << >> = Editor!NamesOf(<< >>) /\ Editor!Selected(<< >>) = 0
  BY NobodyYet, SelectedIs
<1>6. rows' = Editor!NamesOf(ps) /\ active' = Editor!Selected(ps)
  BY <1>1, <1>3, <1>5
<1> HIDE DEF ps
<1>7. /\ rows' \in Seq(Names) /\ Len(rows') = Len(ps) /\ DOMAIN rows' = DOMAIN ps
      /\ \A i, j \in DOMAIN ps : rows'[i] = rows'[j] => i = j
      /\ rows' = << >> <=> ps = << >>
      /\ \A i \in DOMAIN ps : rows'[i] \in Names
      /\ active' \in 0 .. Len(rows')
      /\ active' = 0 <=> rows' = << >>
      /\ Len(ps) \in Nat /\ DOMAIN ps = 1 .. Len(ps)
  BY <1>4, <1>6, NamesAre, SelectedIs, RosterIs
<1>8. \/ entry' = entry
      \/ active' # 0 /\ entry' = rows'[active']
      \/ entry' = Editor!Blank
  BY <1>1
<1>9. entry' \in Names
  <2>1. active' # 0 => active' \in DOMAIN ps
    BY <1>7
  <2> QED
    BY <1>7, <1>8, <2>1 DEF EditorInv, Editor!TypeOK, Editor!PlayersAssumption
<1>10. Editor!TypeOK'
  <2>1. ps \in Seq(Editor!ControlledPlayer) /\ Len(ps) <= MaxPlayers
    BY <1>4 DEF Roster
  <2> QED
    BY <1>1, <1>4, <1>7, <1>9, <2>1 DEF EditorInv, Editor!TypeOK
<1>11. Editor!FormShowsPlayers'
  <2>1. active' # 0 => entry' = rows'[active']
    BY <1>1, <1>7, <1>3
  <2> QED
    BY <1>4, <1>6, <1>7, <2>1 DEF Editor!FormShowsPlayers
<1>12. Keeps'
  BY <1>1, <1>2, <1>4 DEF EditorInv, Keeps, ps
<1>13. Roster(players') /\ Roster(Editor!Held(playersFile'))
  BY <1>1, <1>4 DEF ps
<1> QED
  BY <1>2, <1>4, <1>10, <1>11, <1>12, <1>13 DEF EditorInv

\* What the handlers of the form leave alone.
LEMMA EditingKeeps ==
  ASSUME EditorInv, doing = "configuring", UNCHANGED << doing, playersFile, settled, torn >>
  PROVE  Keeps' /\ Roster(Editor!Held(playersFile'))
BY DEF EditorInv, Keeps

\* The form as its invariant has it.
LEMMA FormIs ==
  ASSUME EditorInv, doing = "configuring"
  PROVE  /\ rows = Editor!NamesOf(players) /\ DOMAIN rows = DOMAIN players
         /\ Len(rows) = Len(players) /\ Len(players) \in Nat /\ DOMAIN players = 1 .. Len(players)
         /\ \A i \in DOMAIN players : rows[i] = players[i].name /\ rows[i] \in Names
         /\ active # 0 => active \in DOMAIN players
         /\ \A i : Editor!IsCurrent(i) => active # 0 /\ i = active
<1>1. /\ rows = Editor!NamesOf(players) /\ active \in 0 .. Len(rows)
      /\ \A i, j \in DOMAIN rows : rows[i] = rows[j] => i = j
  BY DEF EditorInv, Editor!FormShowsPlayers, Editor!TypeOK
<1>2. /\ DOMAIN rows = DOMAIN players /\ Len(rows) = Len(players)
      /\ Len(players) \in Nat /\ DOMAIN players = 1 .. Len(players)
      /\ \A i \in DOMAIN players : rows[i] = players[i].name /\ rows[i] \in Names
  BY <1>1, NamesAre, RosterIs DEF EditorInv
<1>3. active # 0 => active \in DOMAIN players
  BY <1>1, <1>2
<1>4. \A i : Editor!IsCurrent(i) => active # 0 /\ i = active
  BY <1>1, <1>2, <1>3 DEF Editor!IsCurrent
<1> QED
  BY <1>1, <1>2, <1>3, <1>4

LEMMA CreatePlayerKeeps ==
  ASSUME Editor!PlayersAssumption, EditorInv, Editor!CreatePlayer
  PROVE  EditorInv'
<1> DEFINE new == [name |-> NewName, controls |-> [c \in Commands |-> DefaultKey]]
           qs == Append(players, new)
<1>1. /\ doing = "configuring" /\ ~Editor!IsNameInUse(NewName) /\ Len(players) < MaxPlayers
      /\ players' = qs /\ rows' = Append(rows, NewName) /\ active' = Len(rows')
      /\ entry' = IF active' = 0 THEN Editor!Blank ELSE rows'[active']
      /\ UNCHANGED << dialog, doing, exits, playersFile, newFile, dangling, settled, torn >>
  BY DEF Editor!CreatePlayer, Editor!Editing, Editor!RefreshLocalPlayer, Editor!files, Editor!history
<1>2. new \in Editor!ControlledPlayer /\ new.name = NewName /\ NewName \in Names
  BY DEF Editor!ControlledPlayer, Editor!PlayersAssumption
<1>3. /\ rows = Editor!NamesOf(players) /\ Len(rows) = Len(players) /\ DOMAIN rows = DOMAIN players
      /\ Len(players) \in Nat /\ DOMAIN players = 1 .. Len(players)
      /\ \A i \in DOMAIN players : rows[i] = players[i].name
  BY <1>1, FormIs
<1>4. players \in Seq(Editor!ControlledPlayer) /\ rows \in Seq(Names) /\ MaxPlayers \in Nat
  BY DEF EditorInv, Editor!TypeOK, Editor!PlayersAssumption
<1> HIDE DEF new
<1>5. /\ qs \in Seq(Editor!ControlledPlayer) /\ Len(qs) = Len(players) + 1 /\ DOMAIN qs = 1 .. Len(qs)
      /\ \A i \in DOMAIN qs : qs[i] = IF i = Len(qs) THEN new ELSE players[i]
      /\ rows' \in Seq(Names) /\ Len(rows') = Len(qs) /\ DOMAIN rows' = 1 .. Len(qs)
      /\ \A i \in DOMAIN qs : rows'[i] = IF i = Len(qs) THEN NewName ELSE rows[i]
  BY <1>1, <1>2, <1>3, <1>4
<1> HIDE DEF qs
<1>6. /\ \A i \in DOMAIN qs : i # Len(qs) => i \in DOMAIN players
      /\ Len(qs) \in DOMAIN qs /\ Len(qs) # 0 /\ Len(qs) <= MaxPlayers
  BY <1>1, <1>3, <1>4, <1>5
<1>7. \A i \in DOMAIN players : players[i].name # NewName
  BY <1>1 DEF Editor!IsNameInUse
<1>8. Roster(qs)
  <2>1. \A i, j \in DOMAIN qs : qs[i].name = qs[j].name => i = j
    BY <1>2, <1>5, <1>6, <1>7 DEF EditorInv, Roster
  <2> QED
    BY <1>5, <1>6, <2>1 DEF Roster
<1>9. rows' = Editor!NamesOf(qs)
  <2>1. \A i \in DOMAIN qs : rows'[i] = qs[i].name
    BY <1>2, <1>3, <1>5, <1>6
  <2>2. rows' = [i \in DOMAIN rows' |-> rows'[i]]
    BY <1>5
  <2> QED
    BY <1>5, <2>1, <2>2 DEF Editor!NamesOf
<1>10. active' = Len(qs) /\ entry' = rows'[active'] /\ entry' = NewName
  BY <1>1, <1>5, <1>6
<1>11. Editor!TypeOK'
  BY <1>1, <1>2, <1>5, <1>6, <1>10 DEF EditorInv, Editor!TypeOK
<1>12. Editor!FormShowsPlayers'
  <2>1. \A i, j \in DOMAIN rows' : rows'[i] = rows'[j] => i = j
    BY <1>8, <1>9, NamesAre
  <2>2. rows' # << >>
    BY <1>5, <1>6
  <2> QED
    BY <1>1, <1>6, <1>9, <1>10, <2>1, <2>2 DEF Editor!FormShowsPlayers
<1> QED
  BY <1>1, <1>8, <1>11, <1>12, EditingKeeps DEF EditorInv

LEMMA SelectKeeps ==
  ASSUME EditorInv, NEW a, Editor!Select(a)
  PROVE  EditorInv'
<1>1. /\ doing = "configuring" /\ dialog = Editor!NoDialog /\ a \in DOMAIN rows
      /\ active' = a /\ entry' = IF a = 0 THEN Editor!Blank ELSE rows[a]
      /\ UNCHANGED << players, rows, dialog, doing, exits, playersFile, newFile,
                      dangling, settled, torn >>
  BY DEF Editor!Select, Editor!Editing, Editor!RefreshLocalPlayer, Editor!files, Editor!history
<1>2. /\ DOMAIN rows = 1 .. Len(rows) /\ Len(rows) \in Nat /\ a \in DOMAIN players
      /\ rows[a] \in Names
  BY <1>1, FormIs
<1>3. a # 0 /\ a \in 0 .. Len(rows) /\ entry' = rows[a] /\ entry' \in Names
  BY <1>1, <1>2
<1>4. Editor!TypeOK'
  BY <1>1, <1>3 DEF EditorInv, Editor!TypeOK
<1>5. Editor!FormShowsPlayers'
  <2>1. rows # << >>
    BY <1>1, <1>2, EmptySeq
  <2> QED
    BY <1>1, <1>3, <2>1 DEF EditorInv, Editor!FormShowsPlayers
<1> QED
  BY <1>1, <1>4, <1>5, EditingKeeps DEF EditorInv

\* A name that nobody has goes to the current player and to his row.
LEMMA PlayerNameChangedKeeps ==
  ASSUME EditorInv, NEW name \in Names, Editor!PlayerNameChanged(name)
  PROVE  EditorInv'
<1>1. /\ doing = "configuring" /\ dialog = Editor!NoDialog /\ entry' = name
      /\ UNCHANGED << active, dialog, doing, exits, playersFile, newFile,
                      dangling, settled, torn >>
  BY DEF Editor!PlayerNameChanged, Editor!Editing, Editor!files, Editor!history
<1>2. Keeps' /\ Roster(Editor!Held(playersFile'))
  BY <1>1, EditingKeeps
<1>3. CASE active = 0 \/ Editor!IsNameInUse(name)
  <2>1. players' = players /\ rows' = rows
    BY <1>3 DEF Editor!PlayerNameChanged
  <2>2. Editor!TypeOK'
    BY <1>1, <2>1 DEF EditorInv, Editor!TypeOK
  <2>3. active # 0 => Editor!IsNameInUse(entry)'
    BY <1>1, <1>3, <2>1 DEF Editor!IsNameInUse
  <2>4. Editor!FormShowsPlayers'
    BY <1>1, <2>1, <2>3 DEF EditorInv, Editor!FormShowsPlayers
  <2> QED
    BY <1>2, <2>1, <2>2, <2>4 DEF EditorInv
<1>4. CASE active # 0 /\ ~Editor!IsNameInUse(name)
  <2>1. PICK i \in DOMAIN players :
              /\ Editor!IsCurrent(i)
              /\ players' = Editor!Modified(players, i, [players[i] EXCEPT !.name = name])
              /\ rows' = [rows EXCEPT ![active] = name]
    BY <1>4 DEF Editor!PlayerNameChanged
  <2> DEFINE p == [players[i] EXCEPT !.name = name]
  <2>2. p \in Editor!ControlledPlayer /\ p.name = name
    <3>1. players[i] \in Editor!ControlledPlayer
      BY RosterIs DEF EditorInv
    <3> QED
      BY <3>1 DEF Editor!ControlledPlayer
  <2>3. \A j \in DOMAIN players : players[j].name # name
    BY <1>4 DEF Editor!IsNameInUse
  <2>4. players' = [players EXCEPT ![i] = p] /\ Roster(players')
    <3>1. players' = Editor!Modified(players, i, p) /\ i \in DOMAIN players
      BY <2>1
    <3> HIDE DEF p
    <3>2. /\ Roster(players) /\ p \in Editor!ControlledPlayer
          /\ \A j \in DOMAIN players \ {i} : players[j].name # p.name
      BY <2>2, <2>3 DEF EditorInv
    <3> QED
      BY <3>1, <3>2, ModifiedIs
  <2> HIDE DEF p
  <2>5. /\ DOMAIN rows = DOMAIN players /\ i = active /\ rows \in Seq(Names)
        /\ \A j \in DOMAIN players : rows[j] = players[j].name
        /\ Len(rows) \in Nat /\ DOMAIN rows = 1 .. Len(rows)
    BY <1>1, <2>1, FormIs DEF EditorInv, Editor!TypeOK
  <2>6. /\ rows' \in Seq(Names) /\ Len(rows') = Len(rows) /\ DOMAIN rows' = DOMAIN rows
        /\ \A j \in DOMAIN rows : rows'[j] = IF j = i THEN name ELSE rows[j]
    BY <2>1, <2>5
  <2>7. /\ DOMAIN players' = DOMAIN players
        /\ \A j \in DOMAIN players : players'[j] = IF j = i THEN p ELSE players[j]
    BY <2>4
  <2>8. rows' = Editor!NamesOf(players')
    <3>1. \A j \in DOMAIN players' : rows'[j] = players'[j].name
      BY <2>2, <2>5, <2>6, <2>7
    <3>2. rows' = [j \in DOMAIN rows' |-> rows'[j]]
      BY <2>6
    <3> QED
      BY <2>5, <2>6, <2>7, <3>1, <3>2 DEF Editor!NamesOf
  <2>9. entry' = rows'[active] /\ active # 0
    BY <1>1, <1>4, <2>5, <2>6
  <2>10. Editor!TypeOK'
    BY <1>1, <2>4, <2>6 DEF EditorInv, Editor!TypeOK, Roster
  <2>11. Editor!FormShowsPlayers'
    <3>1. \A j, k \in DOMAIN rows' : rows'[j] = rows'[k] => j = k
      BY <2>4, <2>8, NamesAre
    <3>2. rows' # << >>
      BY <2>5, <2>6, EmptySeq
    <3> QED
      BY <1>1, <2>8, <2>9, <3>1, <3>2 DEF Editor!FormShowsPlayers
  <2> QED
    BY <1>2, <2>4, <2>10, <2>11 DEF EditorInv
<1> QED
  BY <1>3, <1>4

\* A handler without its object has run.
LEMMA DanglesKeeps == ASSUME EditorInv, Editor!Dangles PROVE EditorInv'
<1>1. /\ doing # "configuring" /\ dangling' = TRUE
      /\ UNCHANGED << players, rows, active, entry, dialog, doing, exits, playersFile,
                      newFile, settled, torn >>
  BY DEF Editor!Dangles, Editor!Orphaned, Editor!form, Editor!files, Editor!history
<1>2. Editor!TypeOK' /\ Editor!FormShowsPlayers'
  BY <1>1 DEF EditorInv, Editor!TypeOK, Editor!FormShowsPlayers
<1>3. Keeps'
  BY <1>1 DEF EditorInv, Keeps
<1> QED
  BY <1>1, <1>2, <1>3 DEF EditorInv

LEMMA SetBindingKeeps ==
  ASSUME EditorInv, NEW command \in Commands, Editor!SetBinding(command)
  PROVE  EditorInv'
<1>1. /\ doing = "configuring" /\ dialog = Editor!NoDialog /\ dialog' = command
      /\ UNCHANGED << players, rows, active, entry, doing, exits, playersFile, newFile,
                      dangling, settled, torn >>
  BY DEF Editor!SetBinding, Editor!Editing, Editor!form, Editor!files, Editor!history
<1>2. Editor!TypeOK'
  BY <1>1 DEF EditorInv, Editor!TypeOK
<1>3. Editor!FormShowsPlayers'
  BY <1>1 DEF EditorInv, Editor!FormShowsPlayers, Editor!IsNameInUse
<1> QED
  BY <1>1, <1>2, <1>3, EditingKeeps DEF EditorInv

\* The key goes to the current player, whose name stays.
LEMMA NewKeyKeeps ==
  ASSUME Editor!PlayersAssumption, EditorInv, NEW key \in Keys, Editor!NewKey(key)
  PROVE  EditorInv'
<1>1. CASE Editor!Dangles
  BY <1>1, DanglesKeeps
<1>2. CASE ~Editor!Dangles
  <2>1. /\ dialog' = Editor!Closing /\ dialog \in Commands /\ ~Editor!Orphaned
        /\ UNCHANGED << rows, active, entry, doing, exits, playersFile, newFile,
                        dangling, settled, torn >>
        /\ \E i \in DOMAIN players :
             /\ Editor!IsCurrent(i)
             /\ players' = Editor!Modified(players, i,
                                           [players[i] EXCEPT !.controls[dialog] = key])
    BY <1>2 DEF Editor!NewKey, Editor!form, Editor!files, Editor!history
  <2>2. dialog # Editor!NoDialog /\ doing = "configuring" /\ Editor!Closing # Editor!NoDialog
    BY <2>1 DEF Editor!PlayersAssumption, Editor!Orphaned, Editor!Closing, Editor!NoDialog
  <2>3. PICK i \in DOMAIN players :
              players' = Editor!Modified(players, i,
                                         [players[i] EXCEPT !.controls[dialog] = key])
    BY <2>1
  <2> DEFINE p == [players[i] EXCEPT !.controls[dialog] = key]
  <2>4. p \in Editor!ControlledPlayer /\ p.name = players[i].name
    <3>1. players[i] \in Editor!ControlledPlayer
      BY RosterIs DEF EditorInv
    <3> QED
      BY <3>1 DEF Editor!ControlledPlayer
  <2>5. players' = [players EXCEPT ![i] = p] /\ Roster(players')
    <3>1. players' = Editor!Modified(players, i, p) /\ i \in DOMAIN players
      BY <2>3
    <3> HIDE DEF p
    <3>2. /\ Roster(players) /\ p \in Editor!ControlledPlayer
          /\ \A j \in DOMAIN players \ {i} : players[j].name # p.name
      BY <2>4 DEF EditorInv, Roster
    <3> QED
      BY <3>1, <3>2, ModifiedIs
  <2> HIDE DEF p
  <2>6. /\ DOMAIN players' = DOMAIN players
        /\ \A j \in DOMAIN players : players'[j].name = players[j].name
    BY <2>4, <2>5
  <2>7. Editor!NamesOf(players') = Editor!NamesOf(players)
    BY <2>6 DEF Editor!NamesOf
  <2>8. Editor!TypeOK'
    BY <2>1, <2>5 DEF EditorInv, Editor!TypeOK, Roster
  <2>9. Editor!FormShowsPlayers'
    BY <2>1, <2>2, <2>7 DEF EditorInv, Editor!FormShowsPlayers
  <2> QED
    BY <2>1, <2>2, <2>5, <2>8, <2>9, EditingKeeps DEF EditorInv
<1> QED
  BY <1>1, <1>2

LEMMA CancelNewKeyKeeps ==
  ASSUME EditorInv, Editor!CancelNewKey
  PROVE  EditorInv'
<1>1. /\ dialog' = Editor!Closing /\ Editor!Closing # Editor!NoDialog
      /\ UNCHANGED << players, rows, active, entry, doing, exits, playersFile, newFile,
                      dangling, settled, torn >>
  BY DEF Editor!CancelNewKey, Editor!form, Editor!files, Editor!history,
         Editor!Closing, Editor!NoDialog
<1>2. Editor!TypeOK' /\ Editor!FormShowsPlayers'
  BY <1>1 DEF EditorInv, Editor!TypeOK, Editor!FormShowsPlayers
<1>3. Keeps'
  BY <1>1 DEF EditorInv, Keeps
<1> QED
  BY <1>1, <1>2, <1>3 DEF EditorInv

\* The form is shown anew: the text is the name in the row.
LEMMA DialogReturnsKeeps ==
  ASSUME Editor!PlayersAssumption, EditorInv, Editor!DialogReturns
  PROVE  EditorInv'
<1>1. CASE Editor!Dangles
  BY <1>1, DanglesKeeps
<1>2. CASE ~Editor!Dangles
  <2>1. /\ dialog = Editor!Closing /\ dialog' = Editor!NoDialog /\ ~Editor!Orphaned
        /\ entry' = IF active = 0 THEN Editor!Blank ELSE rows[active]
        /\ UNCHANGED << players, rows, active, doing, exits, playersFile, newFile,
                        dangling, settled, torn >>
    BY <1>2 DEF Editor!DialogReturns, Editor!RefreshLocalPlayer, Editor!files, Editor!history
  <2>2. doing = "configuring"
    BY <2>1 DEF Editor!Orphaned, Editor!Closing, Editor!NoDialog
  <2>3. active # 0 => rows[active] \in Names
    BY <2>2, FormIs
  <2>4. Editor!TypeOK'
    BY <2>1, <2>3 DEF EditorInv, Editor!TypeOK, Editor!PlayersAssumption
  <2>5. Editor!FormShowsPlayers'
    BY <2>1, <2>2 DEF EditorInv, Editor!FormShowsPlayers
  <2> QED
    BY <2>1, <2>2, <2>4, <2>5, EditingKeeps DEF EditorInv
<1> QED
  BY <1>1, <1>2

\* Configuring is left: what it had is what the file will hold or holds.
LEMMA LeavesKeeps ==
  ASSUME EditorInv, doing # "removed", NEW ends \in BOOLEAN, Editor!Leaves(ends)
  PROVE  EditorInv'
<1>1. /\ doing' = "opening" /\ exits' = ends /\ settled' = settled \cup {players}
      /\ UNCHANGED << players, rows, active, entry, dialog, playersFile, newFile,
                      dangling, torn >>
  BY DEF Editor!Leaves, Editor!form, Editor!files
<1>2. Editor!TypeOK' /\ Editor!FormShowsPlayers'
  BY <1>1 DEF EditorInv, Editor!TypeOK, Editor!FormShowsPlayers
<1>3. Keeps'
  BY <1>1 DEF EditorInv, Keeps
<1> QED
  BY <1>1, <1>2, <1>3 DEF EditorInv

\* A form that nobody sees any more is not bound to the list.
LEMMA ClosedKeeps ==
  ASSUME Editor!PlayersAssumption, EditorInv, doing' # "configuring",
         doing' \in {"down", "opening", "writing", "written", "removed", "playing"},
         players' = players \/ players' = << >>,
         \/ UNCHANGED << rows, active >>
         \/ rows' = << >> /\ active' = 0,
         entry' = entry \/ entry' = Editor!Blank,
         dialog' = dialog \/ dialog' = Editor!NoDialog,
         exits' = exits, dangling' = dangling, torn' \in BOOLEAN
  PROVE  Editor!TypeOK' /\ Roster(players') /\ Editor!FormShowsPlayers'
<1>1. Roster(players')
  BY NobodyYet DEF EditorInv
<1>2. rows' \in Seq(Names) /\ active' \in 0 .. Len(rows')
  <2> DEFINE none == << >>
  <2>1. none \in Seq(Names) /\ Len(none) = 0
    BY EmptySeq
  <2> HIDE DEF none
  <2>2. CASE UNCHANGED << rows, active >>
    BY <2>2 DEF EditorInv, Editor!TypeOK
  <2>3. CASE rows' = none /\ active' = 0
    BY <2>1, <2>3
  <2> QED
    BY <2>2, <2>3 DEF none
<1>3. entry' \in Names
  BY DEF EditorInv, Editor!TypeOK, Editor!PlayersAssumption
<1>4. Editor!TypeOK'
  BY <1>1, <1>2, <1>3 DEF EditorInv, Editor!TypeOK, Roster
<1>5. Editor!FormShowsPlayers'
  BY DEF Editor!FormShowsPlayers
<1> QED
  BY <1>1, <1>4, <1>5

LEMMA TerminatePlayingKeeps ==
  ASSUME Editor!PlayersAssumption, EditorInv, Editor!TerminatePlaying
  PROVE  EditorInv'
<1>1. /\ doing = "playing" /\ doing' = "down" /\ players' = << >> /\ rows' = << >>
      /\ active' = 0 /\ entry' = Editor!Blank
      /\ UNCHANGED << dialog, exits, playersFile, newFile, dangling, settled, torn >>
  BY DEF Editor!TerminatePlaying, Editor!files, Editor!history
<1>2. torn \in BOOLEAN
  BY DEF EditorInv, Editor!TypeOK
<1>3. Editor!TypeOK' /\ Roster(players') /\ Editor!FormShowsPlayers'
  BY <1>1, <1>2, ClosedKeeps
<1>4. Keeps'
  BY <1>1 DEF EditorInv, Keeps
<1> QED
  BY <1>1, <1>3, <1>4 DEF EditorInv

\* The steps of saveLocalPlayers that write and remove.
LEMMA SavingKeeps ==
  ASSUME Editor!PlayersAssumption, EditorInv,
         Editor!Open \/ Editor!Write \/ Editor!Remove
  PROVE  EditorInv'
<1>1. /\ doing' \in {"writing", "written", "removed"}
      /\ UNCHANGED << players, rows, active, entry, dialog, exits, dangling, settled, torn >>
      /\ doing # "removed"
  BY DEF Editor!Open, Editor!Write, Editor!Remove, Editor!form, Editor!history
<1>2. torn \in BOOLEAN
  BY DEF EditorInv, Editor!TypeOK
<1>3. Editor!TypeOK' /\ Roster(players') /\ Editor!FormShowsPlayers'
  BY <1>1, <1>2, ClosedKeeps
<1>4. Keeps' /\ Roster(Editor!Held(playersFile'))
  <2>1. CASE Editor!Open
    BY <1>1, <2>1 DEF EditorInv, Keeps, Editor!Open
  <2>2. CASE Editor!Write
    BY <1>1, <2>2 DEF EditorInv, Keeps, Editor!Write
  <2>3. CASE Editor!Remove
    <3>1. /\ doing = "written" /\ doing' = "removed" /\ playersFile' = Editor!NoFile
          /\ newFile' = newFile
      BY <2>3 DEF Editor!Remove
    <3>2. Roster(Editor!Held(playersFile'))
      BY <3>1, PlayersFiles, NobodyYet
    <3> QED
      BY <1>1, <3>1, <3>2 DEF EditorInv, Keeps
  <2> QED
    BY <2>1, <2>2, <2>3
<1> QED
  BY <1>3, <1>4 DEF EditorInv

\* The new file is whole, and holds what the list does.
LEMMA RenameKeeps ==
  ASSUME Editor!PlayersAssumption, EditorInv, Editor!Rename
  PROVE  EditorInv'
<1>1. /\ doing = "removed" /\ playersFile' = newFile /\ settled' = {players}
      /\ torn' = FALSE /\ rows' = << >> /\ active' = 0
      /\ doing' = IF exits THEN "down" ELSE "playing"
      /\ players' = IF exits THEN << >> ELSE players
      /\ entry' = IF exits THEN Editor!Blank ELSE entry
      /\ UNCHANGED << dialog, exits, dangling >>
  BY DEF Editor!Rename
<1>2. Editor!TypeOK' /\ Roster(players') /\ Editor!FormShowsPlayers'
  BY <1>1, ClosedKeeps
<1>3. /\ playersFile' = Editor!Whole(players) /\ Editor!Held(playersFile') = players
      /\ Roster(players)
  BY <1>1, PlayersFiles DEF EditorInv, Keeps
<1>4. Keeps'
  BY <1>1, <1>3 DEF Keeps
<1> QED
  BY <1>2, <1>3, <1>4 DEF EditorInv

LEMMA DiesKeeps ==
  ASSUME Editor!PlayersAssumption, EditorInv, Editor!Dies
  PROVE  EditorInv'
<1>1. /\ doing' = "down" /\ players' = << >> /\ rows' = << >> /\ active' = 0
      /\ entry' = Editor!Blank /\ dialog' = Editor!NoDialog
      /\ torn' = (torn \/ doing = "removed")
      /\ UNCHANGED << exits, playersFile, newFile, dangling, settled >>
  BY DEF Editor!Dies, Editor!files
<1>2. torn' \in BOOLEAN /\ (torn' <=> torn \/ doing = "removed")
  BY <1>1, Zenon
<1>3. Editor!TypeOK' /\ Roster(players') /\ Editor!FormShowsPlayers'
  BY <1>1, <1>2, ClosedKeeps
<1>4. Keeps'
  BY <1>1, <1>2 DEF EditorInv, Keeps
<1> QED
  BY <1>1, <1>3, <1>4 DEF EditorInv

LEMMA BeginKeeps ==
  ASSUME Editor!PlayersAssumption, EditorInv, Editor!Begin \/ Editor!HighScoreOk
  PROVE  EditorInv' /\ (players' \in settled \/ torn)
<1>1. /\ doing \in {"down", "playing"} /\ Editor!LoadLocalPlayers
      /\ exits' = FALSE \/ exits' = exits
      /\ \/ settled' = settled /\ torn' = torn
         \/ settled' = {players'} /\ torn' = FALSE
  BY DEF Editor!Begin, Editor!HighScoreOk, Editor!history
<1>2. exits' \in BOOLEAN
  BY <1>1 DEF EditorInv, Editor!TypeOK
<1> QED
  BY <1>1, <1>2, LoadKeeps

LEMMA EditorUnchanged == EditorInv /\ UNCHANGED Editor!vars => EditorInv'
<1> SUFFICES ASSUME EditorInv, UNCHANGED Editor!vars
             PROVE  EditorInv'
  OBVIOUS
<1>1. UNCHANGED << players, rows, active, entry, dialog, doing, exits, playersFile,
                   newFile, dangling, settled, torn >>
  BY DEF Editor!vars
<1>2. Editor!TypeOK' /\ Editor!FormShowsPlayers'
  BY <1>1 DEF EditorInv, Editor!TypeOK, Editor!FormShowsPlayers, Editor!IsNameInUse
<1>3. Keeps'
  BY <1>1 DEF EditorInv, Keeps
<1> QED
  BY <1>1, <1>2, <1>3 DEF EditorInv

LEMMA EditorKept ==
  ASSUME Editor!PlayersAssumption, EditorInv, [Editor!Next]_(Editor!vars)
  PROVE  EditorInv'
<1>1. CASE Editor!Begin \/ Editor!HighScoreOk
  BY <1>1, BeginKeeps
<1>2. CASE Editor!CreatePlayer
  BY <1>2, CreatePlayerKeeps
<1>3. ASSUME NEW a \in 1 .. MaxPlayers, Editor!Select(a)
      PROVE  EditorInv'
  BY <1>3, SelectKeeps
<1>4. ASSUME NEW name \in Names, Editor!PlayerNameChanged(name)
      PROVE  EditorInv'
  BY <1>4, PlayerNameChangedKeeps
<1>5. ASSUME NEW command \in Commands, Editor!SetBinding(command)
      PROVE  EditorInv'
  BY <1>5, SetBindingKeeps
<1>6. ASSUME NEW key \in Keys, Editor!NewKey(key)
      PROVE  EditorInv'
  BY <1>6, NewKeyKeeps
<1>7. CASE Editor!CancelNewKey
  BY <1>7, CancelNewKeyKeeps
<1>8. CASE Editor!DialogReturns
  BY <1>8, DialogReturnsKeeps
<1>9. CASE Editor!GameStart \/ Editor!Terminate
  <2>1. /\ doing = "configuring"
        /\ Editor!Leaves(FALSE) \/ Editor!Leaves(TRUE)
    BY <1>9 DEF Editor!GameStart, Editor!Terminate, Editor!Editing
  <2> QED
    BY <2>1, LeavesKeeps
<1>10. CASE Editor!TerminatePlaying
  BY <1>10, TerminatePlayingKeeps
<1>11. CASE Editor!Save
  BY <1>11, SavingKeeps, RenameKeeps DEF Editor!Save
<1>12. CASE Editor!Dies
  BY <1>12, DiesKeeps
<1>13. CASE UNCHANGED Editor!vars
  BY <1>13, EditorUnchanged
<1> QED
  BY <1>1, <1>2, <1>3, <1>4, <1>5, <1>6, <1>7, <1>8, <1>9, <1>10, <1>11, <1>12, <1>13
     DEF Editor!Next

\* Editor's words are those of Players.
LEMMA EditorSays ==
  /\ Editor!PlayersAssumption
  /\ EditorInv => FormShowsPlayers
  /\ playersFile # Editor!Partial <=> playersFile # Partial
<1>1. Editor!PlayersAssumption
  BY PlayersAssumption, Zenon
     DEF PlayersAssumption, Editor!PlayersAssumption, Blank, Editor!Blank, NoDialog,
         Editor!NoDialog, Closing, Editor!Closing
<1>2. Editor!FormShowsPlayers => FormShowsPlayers
  BY Zenon DEF FormShowsPlayers, Editor!FormShowsPlayers, NamesOf, Editor!NamesOf,
               IsNameInUse, Editor!IsNameInUse, NoDialog, Editor!NoDialog
<1>3. Editor!Partial = Partial
  BY DEF Partial, Editor!Partial
<1> QED
  BY <1>1, <1>2, <1>3 DEF EditorInv

\* The list, the form and the files are bound together in every state of a client
\* (configuring.cpp: the handlers, loadLocalPlayers, saveLocalPlayers).
THEOREM EditorKeeps == Editor!Spec => []EditorInv
<1>1. Editor!Init => EditorInv
  BY EditorStarts, EditorSays
<1>2. EditorInv /\ [Editor!Next]_(Editor!vars) => EditorInv'
  BY EditorKept, EditorSays
<1> QED
  BY <1>1, <1>2, PTL DEF Editor!Spec

\* Whatever the user types and takes, for any names, keys and number of players:
\* the form shows the players, no two have one name, and a name that is typed is that
\* of the row or taken (configuring.cpp: playerNameChanged, createPlayer,
\* refreshLocalPlayers).
THEOREM FormIsRight == Editor!Spec => [](Editor!TypeOK /\ FormShowsPlayers)
<1>1. EditorInv => Editor!TypeOK /\ FormShowsPlayers
  BY EditorSays DEF EditorInv
<1> QED
  BY <1>1, EditorKeeps, PTL

\* Only a Configuring that is made brings the machine there.
LEMMA OnlyLoading ==
  ASSUME doing # "configuring", doing' = "configuring", Editor!Next
  PROVE  Editor!Begin \/ Editor!HighScoreOk
<1>1. \A a, b : Editor!Select(a) \/ Editor!PlayerNameChanged(b) \/ Editor!SetBinding(b)
                  => doing' = doing
  BY DEF Editor!Select, Editor!PlayerNameChanged, Editor!SetBinding
<1>2. \A key : Editor!NewKey(key) => doing' = doing
  BY DEF Editor!NewKey, Editor!Dangles
<1>3. ~(Editor!CreatePlayer \/ Editor!CancelNewKey \/ Editor!DialogReturns)
  BY DEF Editor!CreatePlayer, Editor!CancelNewKey, Editor!DialogReturns, Editor!Dangles
<1>4. ~(Editor!GameStart \/ Editor!Terminate \/ Editor!TerminatePlaying)
  BY DEF Editor!GameStart, Editor!Terminate, Editor!Leaves, Editor!TerminatePlaying
<1>5. ~(Editor!Save \/ Editor!Dies)
  BY DEF Editor!Save, Editor!Open, Editor!Write, Editor!Remove, Editor!Rename, Editor!Dies
<1> QED
  BY <1>1, <1>2, <1>3, <1>4, <1>5 DEF Editor!Next

\* A client that starts, or comes back from a game, finds the list its last Configuring
\* left, or the one before if it died while it saved, or has lost the file to a death
\* between remove and rename; and no file it reads is cut short (configuring.cpp:
\* loadLocalPlayers, saveLocalPlayers).
THEOREM PlayersComeBack == Editor!Spec => PlayersRemembered
<1>1. EditorInv /\ [Editor!Next]_(Editor!vars)
        => [doing # "configuring" /\ doing' = "configuring"
              => players' \in settled \/ torn]_doing
  <2> SUFFICES ASSUME EditorInv, [Editor!Next]_(Editor!vars),
                      doing # "configuring", doing' = "configuring"
               PROVE  players' \in settled \/ torn
    OBVIOUS
  <2>1. Editor!Next
    BY DEF Editor!vars
  <2> QED
    BY <2>1, OnlyLoading, BeginKeeps, EditorSays
<1>2. EditorInv => playersFile # Partial
  BY PlayersFiles, EditorSays DEF EditorInv, Keeps
<1> QED
  BY <1>1, <1>2, EditorKeeps, PTL DEF Editor!Spec, PlayersRemembered
==============================================================================
