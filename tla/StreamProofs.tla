---------------------------- MODULE StreamProofs ----------------------------
(***************************************************************************)
(* A connection delivers (Stream implements Delivery): for messages of any *)
(* sizes, cut into writes and reads in any way.                            *)
(***************************************************************************)
EXTENDS Stream, FiniteSetTheorems, SequenceTheorems, TLAPS

Strings == Seq(Byte)

-----------------------------------------------------------------------------
(* The sending end: there is always a handler that will write what waits. *)

SenderType == /\ alive \in BOOLEAN
              /\ sent \in Seq(Message)
              /\ outgoing \in Strings /\ writing \in Strings
              /\ written \in Nat
              /\ write \in {"idle", "busy", "done", "failed"}
              /\ link \in {"up", "down"}

\* send takes writing_, whether empty or not, for whether a write is under way: it
\* is so while the object exists.  Where no write is under way there is nothing to
\* write, but for what a write that failed has left.
WritingTells ==
  /\ ~alive => link = "down"
  /\ write = "failed" => link = "down"
  /\ alive => (writing # << >> <=> write # "idle")
  /\ link = "up" /\ outgoing # << >> => writing # << >>

IInv == SenderType /\ WritingTells

LEMMA EmptyString == << >> \in Strings
BY DEF Strings

\* A packet is never empty.
LEMMA PacketType ==
  ASSUME NEW m \in Message, Size(m) <= MaxPacketLen
  PROVE  Packet(m) \in Strings /\ Packet(m) # << >>
<1>1. Size(m) \in Sizes
  BY DEF Message, Size
<1>2. Header \in Nat \ {0} /\ Size(m) \in Nat \ {0}
  BY <1>1, StreamAssumption
<1>3. PICK n \in Nat \ {0} : n = Header + Size(m)
  BY <1>2
<1>4. Packet(m) = [i \in 1 .. n |-> [msg |-> m, at |-> i]]
  BY <1>3 DEF Packet
<1>5. \A i \in 1 .. n : [msg |-> m, at |-> i] \in Byte
  BY <1>2, <1>3, StreamAssumption DEF Byte
<1>6. Packet(m) \in Strings /\ Len(Packet(m)) = n
  BY <1>4, <1>5 DEF Strings
<1> QED
  BY <1>3, <1>6

\* Neither is a string to which one is added.
LEMMA StringsGrow ==
  ASSUME NEW s \in Strings, NEW t \in Strings, s # << >> \/ t # << >>
  PROVE  s \o t \in Strings /\ s \o t # << >>
<1>1. s \o t \in Strings /\ Len(s \o t) = Len(s) + Len(t)
  BY DEF Strings
<1>2. Len(s) > 0 \/ Len(t) > 0
  BY DEF Strings
<1>3. Len(s) \in Nat /\ Len(t) \in Nat
  BY DEF Strings
<1>4. Len(s \o t) > 0
  BY <1>1, <1>2, <1>3
<1> QED
  BY <1>1, <1>4

\* startWrite begins a write, which fails at once on a connection that is closed.
LEMMA WriteStarts ==
  ASSUME NEW before \in Strings, NEW out \in Strings,
         before # << >> \/ out # << >>, StartWrite(before, out)
  PROVE  /\ writing' \in Strings /\ writing' # << >>
         /\ outgoing' = << >> /\ written' = 0
         /\ write' = IF link = "up" THEN "busy" ELSE "failed"
BY StringsGrow DEF StartWrite

LEMMA InitIInv == Init => IInv
BY DEF Init, IInv, SenderType, WritingTells, Strings

LEMMA SendIInv ==
  ASSUME IInv, NEW size \in Sizes, Send(size)
  PROVE  IInv'
<1> DEFINE m == << Len(sent) + 1, size >>
<1>1. /\ alive /\ alive' = alive /\ link' = link
      /\ sent' = Append(sent, m)
  BY DEF Send
<1>2. m \in Message
  BY StreamAssumption DEF Send, Message, IInv, SenderType
<1>9. Size(m) <= MaxPacketLen
  BY DEF Send, Accepted, Size
<1>3. sent' \in Seq(Message)
  BY <1>1, <1>2 DEF IInv, SenderType
<1>4. outgoing \o Packet(m) \in Strings /\ outgoing \o Packet(m) # << >>
  BY <1>2, <1>9, PacketType, StringsGrow DEF IInv, SenderType
<1>5. CASE writing = << >> /\ StartWrite(writing, outgoing \o Packet(m))
  <2>1. writing \in Strings
    BY DEF IInv, SenderType
  <2>2. /\ writing' \in Strings /\ writing' # << >>
        /\ outgoing' = << >> /\ written' = 0
        /\ write' = IF link = "up" THEN "busy" ELSE "failed"
    BY <1>4, <1>5, <2>1, WriteStarts
  <2> QED
    BY <1>1, <1>3, <2>2, EmptyString DEF IInv, SenderType, WritingTells
<1>6. CASE /\ writing # << >>
           /\ outgoing' = outgoing \o Packet(m)
           /\ UNCHANGED << writing, written, write >>
  BY <1>1, <1>3, <1>4, <1>6 DEF IInv, SenderType, WritingTells
<1> QED
  BY <1>5, <1>6 DEF Send

LEMMA HandleWriteIInv ==
  ASSUME IInv, HandleWrite
  PROVE  IInv'
<1>1. alive' = alive /\ sent' = sent /\ write \in {"done", "failed"}
  BY DEF HandleWrite
<1>2. CASE ~alive
  BY <1>1, <1>2 DEF HandleWrite, IInv, SenderType, WritingTells
<1>3. CASE alive /\ write = "failed"
  BY <1>1, <1>3 DEF HandleWrite, IInv, SenderType, WritingTells, Down, Strings
<1>4. CASE alive /\ write = "done" /\ outgoing # << >>
  <2>1. StartWrite(<< >>, outgoing) /\ link' = link
    BY <1>4 DEF HandleWrite
  <2>2. outgoing \in Strings
    BY DEF IInv, SenderType
  <2>3. /\ writing' \in Strings /\ writing' # << >>
        /\ outgoing' = << >> /\ written' = 0
        /\ write' = IF link = "up" THEN "busy" ELSE "failed"
    BY <1>4, <2>1, <2>2, EmptyString, WriteStarts
  <2> QED
    BY <1>1, <1>4, <2>1, <2>3, EmptyString DEF IInv, SenderType, WritingTells
<1>5. CASE alive /\ write = "done" /\ outgoing = << >>
  BY <1>1, <1>5 DEF HandleWrite, IInv, SenderType, WritingTells, Strings
<1> QED
  BY <1>1, <1>2, <1>3, <1>4, <1>5

LEMMA NextIInv == IInv /\ [Next]_vars => IInv'
<1> SUFFICES ASSUME IInv, [Next]_vars
             PROVE  IInv'
  OBVIOUS
<1>1. CASE \E size \in Sizes : Send(size)
  BY <1>1, SendIInv
<1>2. CASE Transmit
  <2>1. written' \in Nat
    BY <1>2 DEF Transmit, IInv, SenderType, Strings
  <2>2. write' \in {"busy", "done"} /\ write = "busy"
    BY <1>2 DEF Transmit
  <2> QED
    BY <1>2, <2>1, <2>2 DEF Transmit, IInv, SenderType, WritingTells
<1>3. CASE WriteFails
  BY <1>3 DEF WriteFails, IInv, SenderType, WritingTells
<1>4. CASE HandleWrite
  BY <1>4, HandleWriteIInv
<1>5. CASE HandleReadError
  <2>1. UNCHANGED << sent, outgoing, writing, written >>
    BY <1>5 DEF HandleReadError
  <2>2. CASE UNCHANGED << alive, link, write >>
    BY <2>1, <2>2 DEF IInv, SenderType, WritingTells
  <2>3. CASE Destroyed
    BY <2>1, <2>3 DEF Destroyed, IInv, SenderType, WritingTells
  <2> QED
    BY <1>5, <2>2, <2>3 DEF HandleReadError
<1>6. CASE ClientDrops
  BY <1>6 DEF ClientDrops, Destroyed, IInv, SenderType, WritingTells
<1>7. CASE Break
  BY <1>7 DEF Break, Down, IInv, SenderType, WritingTells
<1>8. CASE HandleRead
  BY <1>8 DEF HandleRead, sender, IInv, SenderType, WritingTells
<1>9. CASE ReadFails
  BY <1>9 DEF ReadFails, sender, IInv, SenderType, WritingTells
<1>10. CASE UNCHANGED vars
  BY <1>10 DEF vars, sender, IInv, SenderType, WritingTells
<1> QED
  BY <1>1, <1>2, <1>3, <1>4, <1>5, <1>6, <1>7, <1>8, <1>9, <1>10 DEF Next

-----------------------------------------------------------------------------
(* The loop of handleRead: its recursion is well-founded.  Every set of    *)
(* numbers has a smallest, which makes up for induction.                   *)

LEMMA Smallest ==
  ASSUME NEW T \in SUBSET Nat, T # {}
  PROVE  \E x \in T : \A y \in T : x <= y
<1> DEFINE F == {0 .. n : n \in T}
<1>1. F \subseteq FiniteSubsetsOf(Nat)
  <2>1. ASSUME NEW n \in T
        PROVE  IsFiniteSet(0 .. n) /\ 0 .. n \in SUBSET Nat
    BY FS_Interval
  <2> QED
    BY <2>1 DEF FiniteSubsetsOf
<1>2. F # {}
  OBVIOUS
<1> HIDE DEF F
<1>3. PICK A \in F : \A B \in F : ~(<< B, A >> \in StrictSubsetOrdering(Nat))
  BY <1>1, <1>2, FS_StrictSubsetOrderingWellFounded, WFMin
<1>4. PICK x \in T : A = 0 .. x
  BY DEF F
<1>5. ASSUME NEW y \in T, y < x
      PROVE  FALSE
  <2>1. 0 .. y \in F
    BY DEF F
  <2>2. x \in 0 .. x /\ x \notin 0 .. y
    BY <1>5
  <2>3. 0 .. y \subseteq 0 .. x /\ 0 .. y # 0 .. x
    BY <2>2, <1>5
  <2>4. << 0 .. y, A >> \in StrictSubsetOrdering(Nat)
    BY <2>3, <1>4 DEF StrictSubsetOrdering
  <2> QED
    BY <1>3, <2>1, <2>4
<1> QED
  BY <1>5

\* The loop's recursion, from place m on.
Loop(f, d, i) == IF Complete(d, i) THEN << i >> \o f[PacketEnd(d, i)] ELSE << >>

Unfolds(f, d, m) == f = [i \in m .. Len(d) |-> Loop(f, d, i)]

Chain(q, d, i) ==
  /\ q \in Seq(0 .. Len(d))
  /\ q # << >> => q[1] = i
  /\ \A j \in 1 .. Len(q) : Complete(d, q[j])
  /\ \A j \in 1 .. Len(q) - 1 : q[j + 1] = PacketEnd(d, q[j])
  /\ ~Complete(d, IF q = << >> THEN i ELSE PacketEnd(d, q[Len(q)]))

LEMMA Forward ==
  ASSUME NEW d \in Strings, NEW i \in Nat, Complete(d, i)
  PROVE  /\ PacketLength(d, i) \in Nat
         /\ PacketEnd(d, i) \in i + Header .. Len(d)
<1>1. Len(d) \in Nat /\ Header \in Nat \ {0}
  BY StreamAssumption DEF Strings
<1>2. i + 1 \in 1 .. Len(d)
  BY <1>1 DEF Complete
<1>3. d[i + 1].msg \in Message
  <2>1. d[i + 1] \in Byte
    BY <1>2, ElementOfSeq DEF Strings
  <2> QED
    BY <2>1 DEF Byte
<1>4. Size(d[i + 1].msg) \in Nat
  BY <1>3, StreamAssumption DEF Message, Size
<1>5. PacketLength(d, i) \in Nat
  BY <1>4 DEF PacketLength
<1> QED
  BY <1>1, <1>5 DEF Complete, PacketEnd

LEMMA ChainGrows ==
  ASSUME NEW d \in Strings, NEW i \in 0 .. Len(d), Complete(d, i),
         NEW q, Chain(q, d, PacketEnd(d, i))
  PROVE  Chain(<< i >> \o q, d, i)
<1> DEFINE r == << i >> \o q
<1>1. q \in Seq(0 .. Len(d)) /\ Len(q) \in Nat
  BY DEF Chain
<1>2. /\ r \in Seq(0 .. Len(d)) /\ r # << >> /\ Len(r) = Len(q) + 1
      /\ r[1] = i /\ \A j \in 1 .. Len(q) : r[j + 1] = q[j]
  BY <1>1
<1> HIDE DEF r
<1>3. ASSUME NEW j \in 1 .. Len(r)
      PROVE  Complete(d, r[j])
  <2>1. CASE j = 1
    BY <2>1, <1>2
  <2>2. CASE j # 1
    <3>1. j - 1 \in 1 .. Len(q) /\ (j - 1) + 1 = j
      BY <1>1, <1>2, <2>2
    <3> QED
      BY <3>1, <1>2 DEF Chain
  <2> QED
    BY <2>1, <2>2
<1>4. ASSUME NEW j \in 1 .. Len(r) - 1
      PROVE  r[j + 1] = PacketEnd(d, r[j])
  <2>1. CASE j = 1
    <3>1. q # << >> /\ r[2] = q[1]
      BY <1>1, <1>2, <2>1
    <3> QED
      BY <3>1, <1>2, <2>1 DEF Chain
  <2>2. CASE j # 1
    <3>1. PICK p \in 1 .. Len(q) - 1 : j = p + 1
      BY <1>1, <1>2, <2>2
    <3>2. p \in 1 .. Len(q) /\ p + 1 \in 1 .. Len(q)
      BY <1>1
    <3>3. r[p + 1] = q[p] /\ r[(p + 1) + 1] = q[p + 1]
      BY <3>2, <1>2
    <3>4. q[p + 1] = PacketEnd(d, q[p])
      BY DEF Chain
    <3> QED
      BY <3>1, <3>3, <3>4
  <2> QED
    BY <2>1, <2>2
<1>5. ~Complete(d, PacketEnd(d, r[Len(r)]))
  <2>1. CASE q = << >>
    BY <2>1, <1>2 DEF Chain
  <2>2. CASE q # << >>
    BY <2>2, <1>1, <1>2 DEF Chain
  <2> QED
    BY <2>1, <2>2
<1>6. Chain(r, d, i)
  BY <1>2, <1>3, <1>4, <1>5 DEF Chain
<1> QED
  BY <1>6 DEF r

\* It has a solution.
LEMMA LoopEnds ==
  ASSUME NEW d \in Strings
  PROVE  \E f : Unfolds(f, d, 0)
<1> DEFINE N == Len(d)
           T == {m \in 0 .. N : \E f : Unfolds(f, d, m)}
<1>1. N \in Nat /\ Header \in Nat \ {0}
  BY StreamAssumption DEF Strings
<1>2. N \in T
  <2> DEFINE f == [i \in N .. N |-> << >>]
  <2>1. ~Complete(d, N)
    BY <1>1 DEF Complete
  <2>2. \A i \in N .. N : Loop(f, d, i) = << >>
    BY <2>1, <1>1 DEF Loop
  <2>3. Unfolds(f, d, N)
    BY <2>2 DEF Unfolds
  <2> QED
    BY <2>3, <1>1
<1>3. T \in SUBSET Nat /\ T # {}
  BY <1>1, <1>2
<1>4. \E m \in T : \A n \in T : m <= n
  <2> HIDE DEF T
  <2> QED
    BY <1>3, Smallest
<1>5. PICK m \in T : \A n \in T : m <= n
  BY <1>4
<1>6. PICK f : Unfolds(f, d, m)
  BY <1>5
<1>7. CASE m > 0
  <2> DEFINE k == m - 1
             h == [i \in k .. N |-> Loop(f, d, i)]
  <2>1. k \in 0 .. N /\ m \in 0 .. N /\ k < m
    BY <1>7, <1>5, <1>1
  <2>2. \A i \in k .. N : Complete(d, i) => PacketEnd(d, i) \in m .. N
    BY <2>1, <1>1, Forward
  <2>3. \A i \in m .. N : h[i] = f[i]
    BY <1>6, <2>1, <1>1 DEF Unfolds
  <2> HIDE DEF h
  <2>4. \A i \in k .. N : Loop(h, d, i) = Loop(f, d, i)
    BY <2>2, <2>3 DEF Loop
  <2>5. Unfolds(h, d, k)
    BY <2>4 DEF Unfolds, h
  <2> QED
    BY <2>1, <2>5, <1>5
<1>8. CASE m = 0
  BY <1>6, <1>8
<1> QED
  BY <1>5, <1>7, <1>8, <1>1

LEMMA LoopChains ==
  ASSUME NEW d \in Strings, NEW f, Unfolds(f, d, 0)
  PROVE  \A i \in 0 .. Len(d) : Chain(f[i], d, i)
<1> DEFINE N == Len(d)
           T == {m \in 0 .. N : \A i \in m .. N : Chain(f[i], d, i)}
<1>1. N \in Nat /\ Header \in Nat \ {0}
  BY StreamAssumption DEF Strings
<1>2. \A i \in 0 .. N : f[i] = Loop(f, d, i)
  BY DEF Unfolds
<1>3. ASSUME NEW i \in 0 .. N, ~Complete(d, i)
      PROVE  Chain(f[i], d, i)
  <2>1. f[i] = << >>
    BY <1>2, <1>3 DEF Loop
  <2> QED
    BY <2>1, <1>3 DEF Chain
<1>4. N \in T
  <2>1. ~Complete(d, N)
    BY <1>1 DEF Complete
  <2>2. Chain(f[N], d, N)
    BY <2>1, <1>1, <1>3
  <2> QED
    BY <2>2, <1>1
<1>5. T \in SUBSET Nat /\ T # {}
  BY <1>1, <1>4
<1>6. \E m \in T : \A n \in T : m <= n
  <2> HIDE DEF T
  <2> QED
    BY <1>5, Smallest
<1>7. PICK m \in T : \A n \in T : m <= n
  BY <1>6
<1>8. CASE m > 0
  <2> DEFINE k == m - 1
  <2>1. k \in 0 .. N /\ m \in 0 .. N /\ k < m
    BY <1>8, <1>7, <1>1
  <2>2. ASSUME Complete(d, k)
        PROVE  Chain(f[k], d, k)
    <3>1. PacketEnd(d, k) \in m .. N
      BY <2>1, <2>2, <1>1, Forward
    <3>2. Chain(f[PacketEnd(d, k)], d, PacketEnd(d, k))
      BY <3>1, <1>7
    <3>3. f[k] = Loop(f, d, k)
      BY <2>1, <1>2
    <3>4. f[k] = << k >> \o f[PacketEnd(d, k)]
      BY <2>2, <3>3 DEF Loop
    <3> QED
      BY <2>1, <2>2, <3>2, <3>4, ChainGrows
  <2>3. Chain(f[k], d, k)
    BY <2>1, <2>2, <1>3
  <2>4. \A i \in k .. N : i = k \/ i \in m .. N
    BY <2>1, <1>1
  <2>5. \A i \in k .. N : Chain(f[i], d, i)
    BY <2>3, <2>4, <1>7
  <2>6. k \in T
    BY <2>1, <2>5
  <2>7. m <= k
    <3> HIDE DEF T, k
    <3> QED
      BY <2>6, <1>7
  <2> QED
    BY <2>1, <2>7
<1>9. CASE m = 0
  BY <1>7, <1>9
<1> QED
  BY <1>7, <1>8, <1>9, <1>1

\* What handleRead's loop takes from its buffer.
LEMMA LoopTakes ==
  ASSUME NEW d \in Strings
  PROVE  Chain(PacketStarts(d), d, 0)
<1> DEFINE F == CHOOSE f : f = [i \in 0 .. Len(d) |->
                IF Complete(d, i) THEN << i >> \o f[PacketEnd(d, i)] ELSE << >>]
<1>1. PICK g : Unfolds(g, d, 0)
  BY LoopEnds, Zenon
<1>2. Unfolds(F, d, 0)
  BY <1>1, Zenon DEF Unfolds, Loop
<1>3. PacketStarts(d) = F[0]
  BY DEF PacketStarts
<1> HIDE DEF F
<1>4. 0 \in 0 .. Len(d)
  BY DEF Strings
<1> QED
  BY <1>2, <1>3, <1>4, LoopChains

-----------------------------------------------------------------------------
(* What the loop makes of the bytes of packets in order. *)

Start(ms, n) == [msg |-> ms[n], at |-> 1]

IsLast(b) == b.at = Header + Size(b.msg)

\* Byte c is the next to be sent after b.
Follows(ms, b, c) ==
  \/ ~IsLast(b) /\ c = [msg |-> b.msg, at |-> b.at + 1]
  \/ /\ IsLast(b) /\ b.msg[1] < Len(ms)
     /\ c = Start(ms, b.msg[1] + 1)

\* The bytes of the packets of ms, from the first of message n + 1.
Flow(s, ms, n) ==
  /\ s \in Strings
  /\ s # << >> => n < Len(ms) /\ s[1] = Start(ms, n + 1)
  /\ \A i \in 1 .. Len(s) - 1 : Follows(ms, s[i], s[i + 1])

Sound(ms) == /\ ms \in Seq(Message)
             /\ \A i \in 1 .. Len(ms) : ms[i][1] = i /\ Size(ms[i]) <= MaxPacketLen

LEMMA SizeType ==
  ASSUME NEW m \in Message
  PROVE  Size(m) \in Nat \ {0}
<1>1. Size(m) \in Sizes
  BY DEF Message, Size
<1> QED
  BY <1>1, StreamAssumption

LEMMA FlowTypes ==
  ASSUME NEW ms, Sound(ms), NEW n, NEW s, Flow(s, ms, n)
  PROVE  /\ s \in Seq(Byte) /\ Len(s) \in Nat
         /\ \A i \in 1 .. Len(s) : s[i] \in Byte
         /\ Header \in Nat \ {0}
         /\ \A m \in 1 .. Len(ms) : ms[m] \in Message /\ Size(ms[m]) \in Nat \ {0}
<1>1. s \in Seq(Byte) /\ Header \in Nat \ {0}
  BY StreamAssumption DEF Flow, Strings
<1>2. \A i \in 1 .. Len(s) : s[i] \in Byte
  BY <1>1, ElementOfSeq
<1>3. \A m \in 1 .. Len(ms) : ms[m] \in Message
  BY ElementOfSeq DEF Sound
<1> QED
  BY <1>1, <1>2, <1>3, SizeType

\* A packet that has begun goes on to its end.
LEMMA PacketLies ==
  ASSUME NEW ms, Sound(ms), NEW n, NEW s, Flow(s, ms, n),
         NEW m \in 1 .. Len(ms), NEW i \in Nat, i < Len(s), s[i + 1] = Start(ms, m)
  PROVE  \A k \in 1 .. Header + Size(ms[m]) :
           i + k <= Len(s) => s[i + k] = [msg |-> ms[m], at |-> k]
<1>1. PICK P \in Nat \ {0} : P = Header + Size(ms[m])
  BY FlowTypes
<1>2. Len(s) \in Nat
  BY FlowTypes
<1> DEFINE T == {k \in 1 .. P : i + k <= Len(s) /\ s[i + k] # [msg |-> ms[m], at |-> k]}
<1>3. T \in SUBSET Nat
  OBVIOUS
<1>4. SUFFICES ASSUME T # {}
               PROVE  FALSE
  BY <1>1
<1>5. \E x \in T : \A y \in T : x <= y
  <2> HIDE DEF T
  <2> QED
    BY <1>3, <1>4, Smallest
<1>6. PICK x \in T : \A y \in T : x <= y
  BY <1>5
<1>7. /\ x \in 1 .. P /\ i + x <= Len(s)
      /\ s[i + x] # [msg |-> ms[m], at |-> x]
  OBVIOUS
<1>8. x # 1
  BY <1>7 DEF Start
<1>9. PICK w \in 1 .. P - 1 : x = w + 1
  BY <1>7, <1>8
<1>10. w \notin T
  <2> HIDE DEF T
  <2> QED
    BY <1>3, <1>6, <1>9
<1>11. s[i + w] = [msg |-> ms[m], at |-> w]
  BY <1>2, <1>7, <1>9, <1>10
<1>12. ~IsLast(s[i + w])
  BY <1>1, <1>9, <1>11 DEF IsLast
<1>13. i + w \in 1 .. Len(s) - 1 /\ (i + w) + 1 = i + x
  BY <1>2, <1>7, <1>9
<1>14. s[i + x] = [msg |-> s[i + w].msg, at |-> s[i + w].at + 1]
  BY <1>12, <1>13 DEF Flow, Follows
<1>15. s[i + x] = [msg |-> ms[m], at |-> x]
  BY <1>11, <1>14, <1>9
<1> QED
  BY <1>7, <1>15

\* Behind it the next begins.
LEMMA NextLies ==
  ASSUME NEW ms, Sound(ms), NEW n, NEW s, Flow(s, ms, n),
         NEW m \in 1 .. Len(ms), NEW i \in Nat, s[i + 1] = Start(ms, m),
         i + Header + Size(ms[m]) < Len(s)
  PROVE  /\ m < Len(ms)
         /\ s[i + Header + Size(ms[m]) + 1] = Start(ms, m + 1)
<1>1. PICK P \in Nat \ {0} : P = Header + Size(ms[m])
  BY FlowTypes
<1>2. Len(s) \in Nat /\ ms[m][1] = m /\ i + P < Len(s)
  <2>1. Len(s) \in Nat /\ Header \in Nat /\ Size(ms[m]) \in Nat
    BY FlowTypes
  <2> QED
    BY <1>1, <2>1 DEF Sound
<1>3. i < Len(s) /\ P \in 1 .. P /\ i + P <= Len(s)
  BY <1>2
<1>4. s[i + P] = [msg |-> ms[m], at |-> P]
  BY <1>1, <1>3, PacketLies
<1>5. i + P \in 1 .. Len(s) - 1
  BY <1>2
<1>6. Follows(ms, s[i + P], s[(i + P) + 1])
  BY <1>5 DEF Flow
<1>7. IsLast(s[i + P]) /\ s[i + P].msg[1] = m
  BY <1>1, <1>2, <1>4 DEF IsLast
<1>8. m < Len(ms) /\ s[(i + P) + 1] = Start(ms, m + 1)
  BY <1>6, <1>7 DEF Follows
<1>9. (i + P) + 1 = i + Header + Size(ms[m]) + 1
  <2>1. Header \in Nat /\ Size(ms[m]) \in Nat
    BY FlowTypes
  <2> QED
    BY <1>1, <2>1
<1> QED
  BY <1>8, <1>9

\* t is the l bytes of s behind place i.
IsStretch(t, B, s, i, l) ==
  /\ t \in Seq(B) /\ Len(t) = l
  /\ \A k \in 1 .. l : t[k] = s[i + k]

LEMMA Stretch ==
  ASSUME NEW B, NEW s \in Seq(B), NEW i \in Nat, NEW l \in Nat, i + l <= Len(s)
  PROVE  IsStretch(SubSeq(s, i + 1, i + l), B, s, i, l)
<1>1. Len(s) \in Nat /\ \A k \in i + 1 .. i + l : s[k] \in B
  BY LenProperties, ElementOfSeq
<1>2. /\ SubSeq(s, i + 1, i + l) \in Seq(B)
      /\ Len(SubSeq(s, i + 1, i + l)) =
           IF i + 1 <= i + l THEN (i + l) - (i + 1) + 1 ELSE 0
      /\ \A k \in 1 .. (i + l) - (i + 1) + 1 :
           SubSeq(s, i + 1, i + l)[k] = s[(i + 1) + k - 1]
  BY <1>1, SubSeqProperties
<1>3. Len(SubSeq(s, i + 1, i + l)) = l
  <2>1. (i + l) - (i + 1) + 1 = l /\ (i + 1 <= i + l <=> l # 0)
    OBVIOUS
  <2> QED
    BY <1>2, <2>1
<1>4. ASSUME NEW k \in 1 .. l
      PROVE  SubSeq(s, i + 1, i + l)[k] = s[i + k]
  <2>1. k \in 1 .. (i + l) - (i + 1) + 1 /\ (i + 1) + k - 1 = i + k
    OBVIOUS
  <2> QED
    BY <1>2, <2>1
<1> QED
  BY <1>2, <1>3, <1>4 DEF IsStretch

\* The l bytes of s behind place i are those of t behind place j.
Agree(s, i, t, j, l) == \A k \in 1 .. l : s[i + k] = t[j + k]

\* Two stretches of bytes are the same when their bytes are.
LEMMA SameStretch ==
  ASSUME NEW B, NEW s \in Seq(B), NEW t \in Seq(B), NEW i \in Nat, NEW j \in Nat,
         NEW l \in Nat, i + l <= Len(s), j + l <= Len(t), Agree(s, i, t, j, l)
  PROVE  SubSeq(s, i + 1, i + l) = SubSeq(t, j + 1, j + l)
<1> DEFINE a == SubSeq(s, i + 1, i + l)
           b == SubSeq(t, j + 1, j + l)
<1>1. /\ a \in Seq(B) /\ Len(a) = l /\ \A k \in 1 .. l : a[k] = s[i + k]
      /\ b \in Seq(B) /\ Len(b) = l /\ \A k \in 1 .. l : b[k] = t[j + k]
  <2>1. IsStretch(a, B, s, i, l) /\ IsStretch(b, B, t, j, l)
    BY Stretch
  <2> HIDE DEF a, b
  <2> QED
    BY <2>1 DEF IsStretch
<1>2. a = b
  <2> HIDE DEF a, b
  <2>1. \A k \in 1 .. Len(a) : a[k] = b[k]
    BY <1>1 DEF Agree
  <2> QED
    BY <1>1, <2>1, SeqEqual
<1> QED
  BY <1>2

\* Of a whole packet the loop finds length and message.
LEMMA PacketParses ==
  ASSUME NEW ms, Sound(ms), NEW n, NEW d, Flow(d, ms, n),
         NEW m \in 1 .. Len(ms), NEW i \in Nat, d[i + 1] = Start(ms, m)
  PROVE  /\ Len(d) >= i + Header => PacketLength(d, i) = Size(ms[m])
         /\ Complete(d, i) =>
              /\ PacketEnd(d, i) = i + Header + Size(ms[m])
              /\ Decoded(SubSeq(d, i + Header + 1, PacketEnd(d, i))) = ms[m]
<1> DEFINE P == Packet(ms[m])
           B == Byte
<1>1. PICK Z \in Nat : Z = Size(ms[m]) /\ Z # 0
  BY FlowTypes
<1>2. PICK H \in Nat : H = Header /\ H # 0
  BY FlowTypes
<1>3. d \in Seq(B) /\ Len(d) \in Nat
  BY FlowTypes
<1>4. P \in Seq(B) /\ Len(P) = H + Z /\ \A k \in 1 .. H + Z : P[k] = [msg |-> ms[m], at |-> k]
  <2>1. PICK l \in Nat : l = H + Z
    OBVIOUS
  <2>2. \A k \in 1 .. l : [msg |-> ms[m], at |-> k] \in B
    <3>1. ms[m] \in Message /\ H + Z <= Header + MaxPacketLen
      BY <1>1, <1>2, FlowTypes, StreamAssumption DEF Sound
    <3> QED
      BY <3>1, <2>1, StreamAssumption DEF Byte
  <2>3. P = [k \in 1 .. l |-> [msg |-> ms[m], at |-> k]]
    BY <1>1, <1>2, <2>1 DEF Packet
  <2> HIDE DEF P
  <2>4. P \in Seq(B) /\ Len(P) = l /\ \A k \in 1 .. l : P[k] = [msg |-> ms[m], at |-> k]
    BY <2>2, <2>3
  <2> QED
    BY <2>1, <2>4
<1>5. ASSUME i < Len(d), NEW k \in 1 .. H + Z, i + k <= Len(d)
      PROVE  d[i + k] = P[k]
  <2>1. \A j \in 1 .. Header + Size(ms[m]) :
          i + j <= Len(d) => d[i + j] = [msg |-> ms[m], at |-> j]
    BY <1>5, PacketLies
  <2>2. k \in 1 .. Header + Size(ms[m])
    BY <1>1, <1>2
  <2>3. d[i + k] = [msg |-> ms[m], at |-> k]
    BY <2>1, <2>2, <1>5
  <2> QED
    BY <2>3, <1>4
<1>6. ASSUME Len(d) >= i + H
      PROVE  PacketLength(d, i) = Z
  <2>1. i < Len(d) /\ i + H <= Len(d) /\ 0 + H <= Len(P)
    BY <1>2, <1>3, <1>4, <1>6, SMTT(20)
  <2>2. \A k \in 1 .. H : k \in 1 .. H + Z /\ i + k <= Len(d) /\ 0 + k = k
    BY <1>3, <1>6
  <2>3. \A k \in 1 .. H : d[i + k] = P[0 + k]
    BY <2>1, <2>2, <1>5
  <2> HIDE DEF P, B
  <2>4. SubSeq(d, i + 1, i + H) = SubSeq(P, 0 + 1, 0 + H)
    <3>2. i + H <= Len(d) /\ 0 + H <= Len(P) /\ 0 \in Nat
      BY <2>1
    <3>3. d \in Seq(B) /\ P \in Seq(B)
      BY <1>3, <1>4
    <3>4. Agree(d, i, P, 0, H)
      BY <2>3 DEF Agree
    <3> QED
      BY <3>2, <3>3, <3>4, SameStretch
  <2>5. d[i + 1].msg = ms[m]
    BY DEF Start
  <2> QED
    BY <2>4, <2>5, <1>1, <1>2 DEF PacketLength, P
<1>7. ASSUME Complete(d, i)
      PROVE  /\ PacketEnd(d, i) = (i + H) + Z
             /\ Decoded(SubSeq(d, (i + H) + 1, (i + H) + Z)) = ms[m]
  <2>1. Len(d) >= i + H
    BY <1>7, <1>2 DEF Complete
  <2>2. PacketEnd(d, i) = (i + H) + Z /\ (i + H) + Z <= Len(d)
    BY <1>2, <1>6, <1>7, <2>1 DEF PacketEnd, Complete
  <2>3. PICK h \in Nat : h = i + H
    OBVIOUS
  <2>4. i < Len(d) /\ h + Z <= Len(d) /\ H + Z <= Len(P) /\ H \in Nat /\ Z \in Nat
    BY <1>1, <1>2, <1>3, <1>4, <2>2, <2>3
  <2>5. \A k \in 1 .. Z : /\ H + k \in 1 .. H + Z /\ i + (H + k) <= Len(d)
                          /\ i + (H + k) = h + k
    BY <1>3, <2>2, <2>3
  <2>6. \A k \in 1 .. Z : d[h + k] = P[H + k]
    BY <2>4, <2>5, <1>5
  <2> HIDE DEF P, B
  <2> DEFINE s == SubSeq(d, h + 1, h + Z)
             t == SubSeq(P, H + 1, H + Z)
  <2>7. /\ s \in Seq(B) /\ Len(s) = Z /\ \A k \in 1 .. Z : s[k] = d[h + k]
        /\ t \in Seq(B) /\ Len(t) = Z /\ \A k \in 1 .. Z : t[k] = P[H + k]
    <3>1. /\ d \in Seq(B) /\ h \in Nat /\ Z \in Nat /\ h + Z <= Len(d)
          /\ P \in Seq(B) /\ H \in Nat /\ H + Z <= Len(P)
      BY <1>3, <1>4, <2>4
    <3>2. IsStretch(s, B, d, h, Z) /\ IsStretch(t, B, P, H, Z)
      BY <3>1, Stretch
    <3> HIDE DEF s, t
    <3> QED
      BY <3>2 DEF IsStretch
  <2> HIDE DEF s, t
  <2>8. s = t
    <3>1. \A k \in 1 .. Len(s) : s[k] = t[k]
      BY <2>6, <2>7
    <3> QED
      BY <2>7, <3>1, SeqEqual
  <2>9. s # << >> /\ s[1].msg = ms[m]
    <3>1. 1 \in 1 .. Z /\ H + 1 \in 1 .. H + Z
      BY <1>1
    <3>2. s[1] = P[H + 1] /\ P[H + 1] = [msg |-> ms[m], at |-> H + 1]
      BY <3>1, <2>6, <2>7, <1>4
    <3>3. s # << >>
      BY <1>1, <2>7
    <3> QED
      BY <3>2, <3>3
  <2>10. Decoded(s) = ms[m]
    BY <2>8, <2>9, <1>1, <1>2 DEF Decoded, P, t
  <2> QED
    BY <2>2, <2>3, <2>10 DEF s
<1> QED
  BY <1>1, <1>2, <1>6, <1>7

Consumed(d) ==
  LET q == PacketStarts(d) IN IF q = << >> THEN 0 ELSE PacketEnd(d, q[Len(q)])

\* The loop takes the messages from ms[n + 1] on, each at its place, and stops where
\* the next has come in part.
LEMMA LoopFinds ==
  ASSUME NEW ms, Sound(ms), NEW n \in Nat, NEW d, Flow(d, ms, n),
         NEW j \in 1 .. Len(PacketStarts(d))
  PROVE  /\ n + j \in 1 .. Len(ms)
         /\ PacketStarts(d)[j] \in Nat
         /\ d[PacketStarts(d)[j] + 1] = Start(ms, n + j)
<1> DEFINE q == PacketStarts(d)
           Found(k) == /\ n + k \in 1 .. Len(ms)
                       /\ d[q[k] + 1] = Start(ms, n + k)
           T == {k \in 1 .. Len(q) : ~Found(k)}
<1>1. d \in Strings /\ Len(d) \in Nat /\ Len(ms) \in Nat
  BY FlowTypes DEF Flow, Sound
<1>2. Chain(q, d, 0)
  BY <1>1, LoopTakes
<1> HIDE DEF q
<1>3. /\ q \in Seq(0 .. Len(d)) /\ Len(q) \in Nat
      /\ \A k \in 1 .. Len(q) : q[k] \in 0 .. Len(d) /\ Complete(d, q[k])
  BY <1>2, ElementOfSeq DEF Chain
<1>4. \A k \in 1 .. Len(q) : q[k] \in Nat /\ q[k] < Len(d)
  <2> TAKE k \in 1 .. Len(q)
  <2>1. q[k] \in 0 .. Len(d) /\ Len(d) >= q[k] + Header
    BY <1>3 DEF Complete
  <2> QED
    BY <2>1, <1>1, StreamAssumption
<1>5. T = {}
  <2>1. SUFFICES ASSUME T # {}
                 PROVE  FALSE
    OBVIOUS
  <2>2. T \in SUBSET Nat
    OBVIOUS
  <2>3. \E x \in T : \A y \in T : x <= y
    <3> HIDE DEF T
    <3> QED
      BY <2>1, <2>2, Smallest
  <2>4. PICK x \in T : \A y \in T : x <= y
    BY <2>3
  <2>5. x \in 1 .. Len(q) /\ ~Found(x)
    OBVIOUS
  <2>6. CASE x = 1
    <3>1. q[1] = 0 /\ 0 < Len(d)
      <4>1. q # << >> /\ 1 \in 1 .. Len(q)
        BY <2>5, <2>6, <1>3
      <4>2. q[1] = 0
        BY <4>1, <1>2 DEF Chain
      <4> QED
        BY <4>1, <4>2, <1>4
    <3>2. n < Len(ms) /\ d[1] = Start(ms, n + 1)
      BY <3>1, <1>1 DEF Flow
    <3>3. Found(1)
      BY <3>1, <3>2, <1>1
    <3> QED
      BY <3>3, <2>5, <2>6
  <2>7. CASE x # 1
    <3>1. PICK w \in 1 .. Len(q) - 1 : x = w + 1
      BY <2>5, <2>7, <1>3
    <3>2. w \in 1 .. Len(q) /\ w < x
      BY <3>1, <1>3
    <3>3. w \notin T
      <4> HIDE DEF T
      <4> QED
        BY <2>2, <2>4, <3>2
    <3>4. Found(w)
      BY <3>2, <3>3
    <3>5. PICK m \in 1 .. Len(ms) : m = n + w
      BY <3>4
    <3>6. PICK i \in Nat : i = q[w]
      BY <3>2, <1>4
    <3>7. d[i + 1] = Start(ms, m) /\ Complete(d, i)
      BY <3>2, <3>4, <3>5, <3>6, <1>3
    <3>8. PacketEnd(d, i) = i + Header + Size(ms[m])
      BY <3>7, PacketParses
    <3>9. q[x] = i + Header + Size(ms[m]) /\ q[x] < Len(d)
      <4>1. q[w + 1] = PacketEnd(d, q[w])
        BY <1>2 DEF Chain
      <4> QED
        BY <4>1, <3>1, <3>6, <3>8, <2>5, <1>4
    <3>10. m < Len(ms) /\ d[q[x] + 1] = Start(ms, m + 1)
      BY <3>7, <3>9, NextLies
    <3>11. Found(x)
      BY <3>10, <3>1, <3>5, <1>1
    <3> QED
      BY <3>11, <2>5
  <2> QED
    BY <2>6, <2>7
<1>6. j \in 1 .. Len(q)
  BY DEF q
<1>7. Found(j)
  BY <1>5, <1>6
<1>8. q[j] \in Nat
  BY <1>4, <1>6
<1> QED
  BY <1>7, <1>8 DEF q

LEMMA LoopReads ==
  ASSUME NEW ms, Sound(ms), NEW n \in Nat, NEW d, Flow(d, ms, n)
  PROVE  /\ Signalled(d) \in Seq(Message)
         /\ Len(Signalled(d)) = Len(PacketStarts(d))
         /\ \A j \in 1 .. Len(PacketStarts(d)) :
              n + j \in 1 .. Len(ms) /\ Signalled(d)[j] = ms[n + j]
<1> DEFINE q == PacketStarts(d)
           L == Len(q)
<1>1. q \in Seq(0 .. Len(d)) /\ \A j \in 1 .. L : Complete(d, q[j])
  <2>1. Chain(q, d, 0)
    BY LoopTakes DEF Flow
  <2> HIDE DEF q
  <2> QED
    BY <2>1 DEF Chain
<1>2. L \in Nat /\ DOMAIN q = 1 .. L
  BY <1>1
<1>3. \A j \in 1 .. L :
        /\ n + j \in 1 .. Len(ms)
        /\ Decoded(SubSeq(d, q[j] + Header + 1, PacketEnd(d, q[j]))) = ms[n + j]
  <2> TAKE j \in 1 .. L
  <2>1. n + j \in 1 .. Len(ms) /\ q[j] \in Nat /\ d[q[j] + 1] = Start(ms, n + j)
    BY LoopFinds
  <2>2. Complete(d, q[j])
    BY <1>1
  <2> QED
    BY <2>1, <2>2, PacketParses
<1>4. \A j \in 1 .. L : ms[n + j] \in Message
  BY <1>3, FlowTypes
<1>5. Signalled(d) = [j \in 1 .. L |-> Decoded(SubSeq(d, q[j] + Header + 1, PacketEnd(d, q[j])))]
  BY <1>2 DEF Signalled
<1> HIDE DEF L
<1>6. Signalled(d) = [j \in 1 .. L |-> ms[n + j]]
  BY <1>3, <1>5
<1>7. Signalled(d) \in Seq(Message) /\ Len(Signalled(d)) = L
  BY <1>2, <1>4, <1>6
<1> QED
  BY <1>3, <1>6, <1>7 DEF L

LEMMA LoopStops ==
  ASSUME NEW ms, Sound(ms), NEW n \in Nat, NEW d, Flow(d, ms, n),
         NEW l, l = n + Len(PacketStarts(d)),
         NEW e, e = Consumed(d)
  PROVE  /\ e \in 0 .. Len(d) /\ ~Complete(d, e)
         /\ e < Len(d) => l < Len(ms) /\ d[e + 1] = Start(ms, l + 1)
         /\ e > 0 => l \in 1 .. Len(ms) /\ IsLast(d[e]) /\ d[e].msg[1] = l
         /\ e = 0 => l = n
<1> DEFINE q == PacketStarts(d)
<1>1. d \in Strings /\ Len(d) \in Nat /\ Len(ms) \in Nat
  BY FlowTypes DEF Flow, Sound
<1>2. Chain(q, d, 0) /\ Len(q) \in Nat
  BY <1>1, LoopTakes DEF Chain
<1>3. ~Complete(d, e)
  BY <1>2 DEF Chain, Consumed
<1>4. CASE q = << >>
  <2>1. e = 0 /\ l = n
    BY <1>4 DEF Consumed
  <2>2. e < Len(d) => l < Len(ms) /\ d[e + 1] = Start(ms, l + 1)
    BY <2>1, <1>1 DEF Flow
  <2> QED
    BY <2>1, <2>2, <1>1, <1>3
<1>5. CASE q # << >>
  <2>1. PICK j \in 1 .. Len(q) : j = Len(q)
    BY <1>2, <1>5 DEF Chain
  <2>2. n + j \in 1 .. Len(ms) /\ q[j] \in Nat /\ d[q[j] + 1] = Start(ms, n + j)
    BY LoopFinds
  <2>3. PICK i \in Nat : i = q[j]
    BY <2>2
  <2>4. l \in 1 .. Len(ms) /\ d[i + 1] = Start(ms, l) /\ l >= n
    BY <2>1, <2>2, <2>3
  <2>5. Complete(d, i)
    BY <1>2, <2>3 DEF Chain
  <2>6. PICK P \in Nat \ {0} : P = Header + Size(ms[l])
    BY <2>4, FlowTypes
  <2>7. PacketEnd(d, i) = i + P
    <3>1. PacketEnd(d, i) = i + Header + Size(ms[l])
      BY <2>4, <2>5, PacketParses
    <3>2. Header \in Nat /\ Size(ms[l]) \in Nat
      BY <2>4, FlowTypes
    <3> QED
      BY <3>1, <3>2, <2>6
  <2>8. e = i + P /\ i + P <= Len(d)
    <3>1. e = PacketEnd(d, i)
      BY <1>5, <2>1, <2>3 DEF Consumed
    <3>2. PacketEnd(d, i) <= Len(d)
      BY <2>5 DEF Complete
    <3> QED
      BY <3>1, <3>2, <2>7
  <2>9. d[e] = [msg |-> ms[l], at |-> P]
    <3>1. i < Len(d) /\ P \in 1 .. Header + Size(ms[l])
      BY <1>1, <2>6, <2>8
    <3>2. \A k \in 1 .. Header + Size(ms[l]) :
            i + k <= Len(d) => d[i + k] = [msg |-> ms[l], at |-> k]
      BY <3>1, <2>4, PacketLies
    <3> QED
      BY <3>1, <3>2, <2>8
  <2>10. IsLast(d[e]) /\ d[e].msg[1] = l
    BY <2>4, <2>6, <2>9 DEF IsLast, Sound
  <2>11. e < Len(d) => l < Len(ms) /\ d[e + 1] = Start(ms, l + 1)
    <3>1. SUFFICES ASSUME e < Len(d)
                   PROVE  l < Len(ms) /\ d[e + 1] = Start(ms, l + 1)
      OBVIOUS
    <3>2. Header \in Nat /\ Size(ms[l]) \in Nat
      BY <2>4, FlowTypes
    <3>3. e = i + Header + Size(ms[l])
      BY <3>2, <2>6, <2>8
    <3>4. l < Len(ms) /\ d[i + Header + Size(ms[l]) + 1] = Start(ms, l + 1)
      BY <3>1, <3>3, <2>4, NextLies
    <3> QED
      BY <3>3, <3>4
  <2> QED
    BY <2>4, <2>8, <2>10, <2>11, <1>1, <1>3
<1> QED
  BY <1>4, <1>5

\* What is left of the buffer leaves room in it.
LEMMA LeavesRoom ==
  ASSUME NEW ms, Sound(ms), NEW n \in Nat, NEW d, Flow(d, ms, n)
  PROVE  /\ Consumed(d) \in 0 .. Len(d)
         /\ Len(d) - Consumed(d) < MaxPacketLen + Header
<1>1. PICK e \in 0 .. Len(d) : e = Consumed(d)
  BY LoopStops
<1>2. PICK l : l = n + Len(PacketStarts(d))
  OBVIOUS
<1>3. Len(d) \in Nat /\ Header \in Nat \ {0} /\ MaxPacketLen \in Nat
  BY FlowTypes, StreamAssumption
<1>4. /\ ~Complete(d, e)
      /\ e < Len(d) => l < Len(ms) /\ d[e + 1] = Start(ms, l + 1)
  BY <1>1, <1>2, LoopStops
<1>5. l \in Nat
  <2>1. Len(PacketStarts(d)) \in Nat
    BY LoopTakes DEF Flow, Chain
  <2> QED
    BY <1>2, <2>1
<1>6. CASE Len(d) < e + Header
  BY <1>1, <1>3, <1>6
<1>7. CASE Len(d) >= e + Header
  <2>1. e < Len(d)
    BY <1>3, <1>7
  <2>2. PICK m \in 1 .. Len(ms) : m = l + 1
    BY <2>1, <1>4, <1>5 DEF Sound
  <2>3. PacketLength(d, e) = Size(ms[m])
    BY <2>1, <2>2, <1>4, <1>7, PacketParses
  <2>4. Size(ms[m]) \in Nat /\ Size(ms[m]) <= MaxPacketLen
    BY FlowTypes DEF Sound
  <2>5. Len(d) < e + Header + Size(ms[m])
    BY <2>3, <2>4, <1>3, <1>4, <1>7 DEF Complete, PacketEnd
  <2> QED
    BY <2>4, <2>5, <1>1, <1>3
<1> QED
  BY <1>1, <1>3, <1>6, <1>7

-----------------------------------------------------------------------------
(* Bytes in order stay in order: cut off at either end, or with a packet   *)
(* added to them.                                                          *)

LEMMA FlowPrefix ==
  ASSUME NEW ms, Sound(ms), NEW n, NEW s, Flow(s, ms, n), NEW l \in Nat, l <= Len(s)
  PROVE  Flow(SubSeq(s, 1, l), ms, n)
<1> DEFINE t == SubSeq(s, 0 + 1, 0 + l)
<1>1. s \in Seq(Byte) /\ Len(s) \in Nat
  BY FlowTypes
<1>2. t \in Seq(Byte) /\ Len(t) = l /\ \A k \in 1 .. l : t[k] = s[0 + k]
  <2>1. IsStretch(t, Byte, s, 0, l)
    BY <1>1, Stretch
  <2> HIDE DEF t
  <2> QED
    BY <2>1 DEF IsStretch
<1> HIDE DEF t
<1>3. \A k \in 1 .. l : t[k] = s[k]
  BY <1>2
<1>4. t # << >> => n < Len(ms) /\ t[1] = Start(ms, n + 1)
  BY <1>1, <1>2, <1>3 DEF Flow
<1>5. \A k \in 1 .. Len(t) - 1 : Follows(ms, t[k], t[k + 1])
  <2> TAKE k \in 1 .. Len(t) - 1
  <2>1. k \in 1 .. l /\ k + 1 \in 1 .. l /\ k \in 1 .. Len(s) - 1
    BY <1>1, <1>2
  <2>2. t[k] = s[k] /\ t[k + 1] = s[k + 1]
    BY <2>1, <1>3
  <2> QED
    BY <2>1, <2>2 DEF Flow
<1>6. Flow(t, ms, n)
  BY <1>2, <1>4, <1>5 DEF Flow, Strings
<1> QED
  BY <1>6 DEF t

LEMMA FlowSuffix ==
  ASSUME NEW ms, Sound(ms), NEW n, NEW s, Flow(s, ms, n),
         NEW e \in Nat, e <= Len(s), NEW l,
         e < Len(s) => l < Len(ms) /\ s[e + 1] = Start(ms, l + 1)
  PROVE  /\ Flow(SubSeq(s, e + 1, Len(s)), ms, l)
         /\ Len(SubSeq(s, e + 1, Len(s))) = Len(s) - e
         /\ \A k \in 1 .. Len(s) - e : SubSeq(s, e + 1, Len(s))[k] = s[e + k]
<1>1. s \in Seq(Byte) /\ Len(s) \in Nat
  BY FlowTypes
<1>2. PICK r \in Nat : r = Len(s) - e /\ e + r = Len(s)
  <2>1. Len(s) - e \in Nat /\ e + (Len(s) - e) = Len(s)
    BY <1>1
  <2> QED
    BY <2>1, Zenon
<1> DEFINE t == SubSeq(s, e + 1, e + r)
<1>3. t \in Seq(Byte) /\ Len(t) = r /\ \A k \in 1 .. r : t[k] = s[e + k]
  <2>1. IsStretch(t, Byte, s, e, r)
    BY <1>1, <1>2, Stretch
  <2> HIDE DEF t
  <2> QED
    BY <2>1 DEF IsStretch
<1> HIDE DEF t
<1>4. t # << >> => l < Len(ms) /\ t[1] = Start(ms, l + 1)
  <2>1. t # << >> => 1 \in 1 .. r /\ e < Len(s)
    BY <1>1, <1>2, <1>3
  <2> QED
    BY <2>1, <1>3
<1>5. \A k \in 1 .. Len(t) - 1 : Follows(ms, t[k], t[k + 1])
  <2> TAKE k \in 1 .. Len(t) - 1
  <2>1. PICK j \in 1 .. Len(s) - 1 : j = e + k
    BY <1>1, <1>2, <1>3
  <2>2. k \in 1 .. r /\ k + 1 \in 1 .. r /\ e + (k + 1) = j + 1
    BY <1>3, <2>1
  <2>3. t[k] = s[j] /\ t[k + 1] = s[j + 1]
    BY <1>3, <2>1, <2>2
  <2> QED
    BY <2>3 DEF Flow
<1>6. Flow(t, ms, l)
  BY <1>3, <1>4, <1>5 DEF Flow, Strings
<1> QED
  BY <1>2, <1>3, <1>6 DEF t

\* All of ms has been sent.
ToTheEnd(s, ms, n) ==
  IF s = << >> THEN n = Len(ms)
               ELSE IsLast(s[Len(s)]) /\ s[Len(s)].msg[1] = Len(ms)

LEMMA FlowKeeps ==
  ASSUME NEW ms, Sound(ms), NEW n \in Nat, NEW s, Flow(s, ms, n), NEW m \in Message
  PROVE  Flow(s, Append(ms, m), n)
<1> DEFINE us == Append(ms, m)
<1>1. Len(us) = Len(ms) + 1 /\ Len(ms) \in Nat /\ \A k \in 1 .. Len(ms) : us[k] = ms[k]
  BY DEF Sound
<1>2. s \in Seq(Byte) /\ Len(s) \in Nat /\ \A k \in 1 .. Len(s) : s[k] \in Byte
  BY FlowTypes
<1> HIDE DEF us
<1>3. s # << >> => n < Len(us) /\ s[1] = Start(us, n + 1)
  <2>1. SUFFICES ASSUME s # << >>
                 PROVE  n < Len(us) /\ s[1] = Start(us, n + 1)
    OBVIOUS
  <2>2. n < Len(ms) /\ s[1] = Start(ms, n + 1)
    BY <2>1 DEF Flow
  <2>3. n + 1 \in 1 .. Len(ms) /\ n < Len(us)
    BY <2>2, <1>1
  <2> QED
    BY <2>2, <2>3, <1>1 DEF Start
<1>4. \A k \in 1 .. Len(s) - 1 : Follows(us, s[k], s[k + 1])
  <2> TAKE k \in 1 .. Len(s) - 1
  <2>1. Follows(ms, s[k], s[k + 1])
    BY DEF Flow
  <2>2. PICK b \in Byte : b = s[k]
    BY <1>2
  <2>3. PICK x \in Nat \ {0} : x = b.msg[1]
    BY DEF Byte, Message
  <2>4. CASE IsLast(b)
    <3>1. x < Len(ms) /\ s[k + 1] = Start(ms, x + 1)
      BY <2>1, <2>2, <2>3, <2>4 DEF Follows
    <3>2. x + 1 \in 1 .. Len(ms) /\ x < Len(us)
      BY <3>1, <1>1
    <3>3. s[k + 1] = Start(us, x + 1)
      BY <3>1, <3>2, <1>1 DEF Start
    <3> QED
      BY <3>2, <3>3, <2>2, <2>3, <2>4 DEF Follows
  <2>5. CASE ~IsLast(b)
    BY <2>1, <2>2, <2>5 DEF Follows
  <2> QED
    BY <2>4, <2>5
<1>5. Flow(s, us, n)
  BY <1>3, <1>4 DEF Flow
<1> QED
  BY <1>5 DEF us

LEMMA SoundGrows ==
  ASSUME NEW ms, Sound(ms), NEW m \in Message, m[1] = Len(ms) + 1, Size(m) <= MaxPacketLen
  PROVE  Sound(Append(ms, m))
<1> DEFINE us == Append(ms, m)
<1>1. us \in Seq(Message) /\ Len(us) = Len(ms) + 1 /\ Len(ms) \in Nat
      /\ us[Len(ms) + 1] = m /\ \A k \in 1 .. Len(ms) : us[k] = ms[k]
  BY DEF Sound
<1> HIDE DEF us
<1>2. \A k \in 1 .. Len(us) : us[k][1] = k /\ Size(us[k]) <= MaxPacketLen
  <2> TAKE k \in 1 .. Len(us)
  <2>1. CASE k = Len(ms) + 1
    BY <2>1, <1>1
  <2>2. CASE k # Len(ms) + 1
    <3>1. k \in 1 .. Len(ms)
      BY <2>2, <1>1
    <3> QED
      BY <3>1, <1>1 DEF Sound
  <2> QED
    BY <2>1, <2>2
<1>3. Sound(us)
  BY <1>1, <1>2 DEF Sound
<1> QED
  BY <1>3 DEF us

LEMMA FlowGrows ==
  ASSUME NEW ms, Sound(ms), NEW n \in Nat, NEW s, Flow(s, ms, n), ToTheEnd(s, ms, n),
         NEW m \in Message, m[1] = Len(ms) + 1, Size(m) <= MaxPacketLen
  PROVE  /\ Flow(s \o Packet(m), Append(ms, m), n)
         /\ ToTheEnd(s \o Packet(m), Append(ms, m), n)
<1> DEFINE us == Append(ms, m)
           t == Packet(m)
           u == s \o t
<1>1. /\ Len(us) = Len(ms) + 1 /\ Len(ms) \in Nat /\ us[Len(ms) + 1] = m
  BY DEF Sound
<1>2. Flow(s, us, n) /\ s \in Seq(Byte) /\ Len(s) \in Nat
  BY FlowKeeps, FlowTypes
<1>3. PICK P \in Nat : P # 0 /\ P = Header + Size(m)
  BY SizeType, StreamAssumption
<1>4. t \in Seq(Byte) /\ Len(t) = P /\ \A k \in 1 .. P : t[k] = [msg |-> m, at |-> k]
  <2>1. t \in Seq(Byte)
    BY PacketType DEF Strings
  <2>2. t = [k \in 1 .. P |-> [msg |-> m, at |-> k]]
    BY <1>3 DEF Packet
  <2> QED
    BY <2>1, <2>2
<1> HIDE DEF us, t
<1>5. u \in Seq(Byte) /\ Len(u) = Len(s) + P
      /\ (\A k \in 1 .. Len(s) : u[k] = s[k])
      /\ \A k \in 1 .. P : u[Len(s) + k] = t[k]
  <2>1. /\ u \in Seq(Byte) /\ Len(u) = Len(s) + P
        /\ \A k \in 1 .. Len(s) + P :
             u[k] = IF k <= Len(s) THEN s[k] ELSE t[k - Len(s)]
    BY <1>2, <1>4, ConcatProperties, ZenonT(30)
  <2> HIDE DEF u
  <2>2. \A k \in 1 .. Len(s) : u[k] = s[k]
    BY <2>1, <1>2
  <2>3. ASSUME NEW k \in 1 .. P
        PROVE  u[Len(s) + k] = t[k]
    <3>1. PICK j \in 1 .. Len(s) + P : j = Len(s) + k
      BY <1>2
    <3>2. ~(j <= Len(s)) /\ j - Len(s) = k
      BY <3>1, <1>2
    <3> QED
      BY <2>1, <3>1, <3>2
  <2> QED
    BY <2>1, <2>2, <2>3
<1> HIDE DEF u
<1>6. u # << >> /\ n < Len(us) /\ u[1] = Start(us, n + 1)
  <2>1. CASE s = << >>
    <3>1. n = Len(ms) /\ Len(s) = 0 /\ 1 \in 1 .. P /\ 0 + 1 = 1
      BY <2>1, <1>3 DEF ToTheEnd
    <3>2. u[1] = [msg |-> m, at |-> 1]
      BY <3>1, <1>4, <1>5
    <3> QED
      BY <3>1, <3>2, <1>1, <1>3, <1>5 DEF Start
  <2>2. CASE s # << >>
    <3>1. 1 \in 1 .. Len(s)
      BY <2>2, <1>2
    <3> QED
      BY <3>1, <2>2, <1>2, <1>3, <1>5 DEF Flow
  <2> QED
    BY <2>1, <2>2
<1>7. \A k \in 1 .. Len(u) - 1 : Follows(us, u[k], u[k + 1])
  <2> TAKE k \in 1 .. Len(u) - 1
  <2>1. CASE k < Len(s)
    <3>1. k \in 1 .. Len(s) - 1 /\ k \in 1 .. Len(s) /\ k + 1 \in 1 .. Len(s)
      BY <2>1, <1>2
    <3> QED
      BY <3>1, <1>2, <1>5 DEF Flow
  <2>2. CASE k = Len(s)
    <3>1. k \in 1 .. Len(s) /\ s # << >> /\ 1 \in 1 .. P
      BY <2>2, <1>2, <1>3
    <3>2. u[k] = s[Len(s)] /\ u[k + 1] = [msg |-> m, at |-> 1]
      BY <3>1, <2>2, <1>4, <1>5
    <3>3. IsLast(u[k]) /\ u[k].msg[1] = Len(ms)
      BY <3>1, <3>2 DEF ToTheEnd
    <3> QED
      BY <3>2, <3>3, <1>1 DEF Follows, Start
  <2>3. CASE k > Len(s)
    <3>1. PICK j \in 1 .. P - 1 : k = Len(s) + j
      <4>1. k - Len(s) \in 1 .. P - 1 /\ k = Len(s) + (k - Len(s))
        BY <2>3, <1>2, <1>5
      <4> QED
        BY <4>1
    <3>2. j \in 1 .. P /\ j + 1 \in 1 .. P /\ k + 1 = Len(s) + (j + 1)
      BY <3>1, <1>2
    <3>3. u[k] = [msg |-> m, at |-> j] /\ u[k + 1] = [msg |-> m, at |-> j + 1]
      BY <3>1, <3>2, <1>4, <1>5
    <3>4. ~IsLast(u[k])
      BY <3>1, <3>3, <1>3 DEF IsLast
    <3> QED
      BY <3>3, <3>4 DEF Follows
  <2> QED
    BY <2>1, <2>2, <2>3, <1>2, <1>5
<1>8. Flow(u, us, n)
  BY <1>5, <1>6, <1>7 DEF Flow, Strings
<1>9. ToTheEnd(u, us, n)
  <2>1. P \in 1 .. P /\ u[Len(u)] = [msg |-> m, at |-> P]
    BY <1>3, <1>4, <1>5
  <2>2. IsLast(u[Len(u)]) /\ u[Len(u)].msg[1] = Len(us)
    BY <2>1, <1>1, <1>3 DEF IsLast
  <2> QED
    BY <2>2, <1>6 DEF ToTheEnd
<1> QED
  BY <1>8, <1>9 DEF u, us, t

-----------------------------------------------------------------------------
(* The connection. *)

\* What the sending end has still to hand over, if it can.
Rest == IF link = "up" THEN SubSeq(writing, written + 1, Len(writing)) \o outgoing
                       ELSE << >>

Pipe == (data \o wire) \o Rest

\* How far a write has come.
Progress == /\ write = "busy" => written < Len(writing)
            /\ write = "done" => written = Len(writing)

\* What is between the ends are the packets of what was sent and not yet signalled,
\* from the first byte of the first, and while the connection holds all of them.
Carries ==
  /\ Sound(sent)
  /\ data \in Strings /\ wire \in Strings /\ got \in Seq(Message)
  /\ IsPrefix(got, sent)
  /\ Flow(Pipe, sent, Len(got))
  /\ link = "up" => ToTheEnd(Pipe, sent, Len(got))
  /\ Len(data) < MaxPacketLen + Header

Inv == IInv /\ Progress /\ Carries

LEMMA SuffixType ==
  ASSUME NEW s \in Strings, NEW i \in Nat
  PROVE  SubSeq(s, i + 1, Len(s)) \in Strings
<1>1. Len(s) \in Nat
  BY DEF Strings
<1>2. \A k \in i + 1 .. Len(s) : s[k] \in Byte
  <2> TAKE k \in i + 1 .. Len(s)
  <2>1. k \in 1 .. Len(s)
    BY <1>1
  <2> QED
    BY <2>1, ElementOfSeq DEF Strings
<1> QED
  BY <1>1, <1>2, SubSeqProperties DEF Strings

LEMMA Joined == \A a, b \in Strings : a \o b \in Strings
BY ConcatProperties DEF Strings

Joint(a, b, c) == (a \o b) \o c = a \o (b \o c)

LEMMA Joins ==
  ASSUME NEW a \in Strings, NEW b \in Strings, NEW c \in Strings
  PROVE  Joint(a, b, c)
BY ConcatAssociative DEF Strings, Joint

LEMMA Alone ==
  ASSUME NEW a \in Strings
  PROVE  a \o << >> = a /\ << >> \o a = a
BY ConcatEmptySeq DEF Strings

LEMMA Whole ==
  ASSUME NEW a \in Strings
  PROVE  SubSeq(a, 0 + 1, Len(a)) = a
<1>1. 0 + 1 = 1
  OBVIOUS
<1> QED
  BY <1>1, SubSeqFull DEF Strings

LEMMA RestType ==
  ASSUME IInv
  PROVE  Rest \in Strings
<1>1. SubSeq(writing, written + 1, Len(writing)) \in Strings /\ outgoing \in Strings
  BY SuffixType DEF IInv, SenderType
<1> QED
  BY <1>1, EmptyString DEF Rest, Strings

LEMMA InitInv == Init => Inv
<1> SUFFICES ASSUME Init
             PROVE  Inv
  OBVIOUS
<1>1. Pipe = << >> /\ IsPrefix(got, sent)
  <2>1. Rest = << >>
    BY DEF Init, Rest
  <2> QED
    BY <2>1 DEF Init, Pipe, IsPrefix
<1>2. Flow(Pipe, sent, Len(got)) /\ ToTheEnd(Pipe, sent, Len(got))
  BY <1>1 DEF Init, Flow, ToTheEnd, Strings
<1>3. Len(data) < MaxPacketLen + Header
  BY StreamAssumption DEF Init
<1>4. Carries
  BY <1>1, <1>2, <1>3, EmptyString DEF Init, Carries, Sound
<1> QED
  BY <1>4, InitIInv DEF Inv, Init, Progress

\* A step that sends nothing new and loses nothing, unless the connection is over.
LEMMA CarriesOn ==
  ASSUME Inv, UNCHANGED << sent, data, wire, got >>,
         link' = "down" \/ (link' = link /\ Rest' = Rest)
  PROVE  Carries'
<1>1. CASE link' = link /\ Rest' = Rest
  <2>1. Pipe' = Pipe
    BY <1>1 DEF Pipe
  <2> QED
    BY <1>1, <2>1 DEF Inv, Carries
<1>2. CASE link' = "down"
  <2>1. data \o wire \in Strings /\ Rest \in Strings
    BY RestType DEF Inv, Carries, Strings
  <2>2. Rest' = << >>
    BY <1>2 DEF Rest
  <2>3. Pipe' = data \o wire
    BY <2>1, <2>2 DEF Pipe, Strings
  <2> DEFINE u == data \o wire
  <2>4. u = SubSeq(Pipe, 1, Len(u)) /\ Len(u) \in Nat /\ Len(u) <= Len(Pipe)
    <3> HIDE DEF u
    <3>1. Pipe = u \o Rest
      BY DEF Pipe, u
    <3> QED
      BY <2>1, <3>1 DEF Strings, u
  <2> HIDE DEF u
  <2>5. Flow(u, sent, Len(got))
    BY <2>4, FlowPrefix DEF Inv, Carries
  <2> QED
    BY <1>2, <2>3, <2>5 DEF Inv, Carries, u
<1> QED
  BY <1>1, <1>2

LEMMA CarriesMore ==
  ASSUME Inv, UNCHANGED << data, wire, got >>, Sound(sent'), IsPrefix(got, sent'),
         Flow(Pipe', sent', Len(got)),
         link' = "up" => ToTheEnd(Pipe', sent', Len(got))
  PROVE  Carries'
<1>1. data' \in Strings /\ wire' \in Strings /\ got' \in Seq(Message)
  BY DEF Inv, Carries
<1>2. IsPrefix(got', sent') /\ Len(data') < MaxPacketLen + Header
  BY DEF Inv, Carries
<1>3. Flow(Pipe', sent', Len(got'))
  OBVIOUS
<1>4. link' = "up" => ToTheEnd(Pipe', sent', Len(got'))
  OBVIOUS
<1> QED
  BY <1>1, <1>2, <1>3, <1>4 DEF Carries

LEMMA SendCarries ==
  ASSUME Inv, NEW size \in Sizes, Send(size)
  PROVE  Carries' /\ Progress'
<1> DEFINE m == << Len(sent) + 1, size >>
<1>1. /\ sent' = Append(sent, m) /\ UNCHANGED << data, wire, got, link >>
  BY DEF Send, receiver
<1>2. m \in Message /\ m[1] = Len(sent) + 1 /\ Size(m) <= MaxPacketLen
  <2>1. Len(sent) + 1 \in 1 .. MaxSent
    BY StreamAssumption DEF Send, Inv, IInv, SenderType
  <2>2. size <= MaxPacketLen
    BY DEF Send, Accepted
  <2> QED
    BY <2>1, <2>2 DEF Message, Size
<1> HIDE DEF m
<1>3. Sound(sent') /\ IsPrefix(got, sent')
  BY <1>1, <1>2, SoundGrows DEF Inv, Carries, IsPrefix, Sound
<1>10. UNCHANGED << data, wire, got >>
  BY <1>1
<1>4. Packet(m) \in Strings /\ Packet(m) # << >> /\ Rest \in Strings /\ outgoing \in Strings /\ writing \in Strings
  BY <1>2, PacketType, RestType DEF Inv, IInv, SenderType
<1>5. Len(got) \in Nat
  BY DEF Inv, Carries
<1>6. ASSUME link = "down"
      PROVE  Carries'
  <2>1. Pipe' = Pipe
    BY <1>1, <1>6 DEF Pipe, Rest
  <2>2. Flow(Pipe, sent', Len(got))
    BY <1>1, <1>2, <1>5, FlowKeeps DEF Inv, Carries
  <2>3. link' = "down"
    BY <1>1, <1>6
  <2>4. Flow(Pipe', sent', Len(got))
    BY <2>1, <2>2
  <2> QED
    BY <2>3, <2>4, <1>10, <1>3, CarriesMore
<1>7. ASSUME link = "up"
      PROVE  Carries'
  <2>1. Rest' = Rest \o Packet(m)
    <3>1. CASE writing = << >> /\ StartWrite(writing, outgoing \o Packet(m))
      <4>1. outgoing = << >>
        BY <1>7, <3>1 DEF Inv, IInv, WritingTells
      <4>2. writing' = Packet(m) /\ outgoing' = << >> /\ written' = 0
        BY <3>1, <4>1, <1>4 DEF StartWrite, Strings
      <4>3. Rest = << >>
        <5>1. SubSeq(writing, written + 1, Len(writing)) = << >>
          BY <3>1, SubSeqEmpty DEF Inv, IInv, SenderType
        <5> QED
          BY <4>1, <5>1 DEF Rest
      <4>4. Rest' = Packet(m)
        <5>1. SubSeq(Packet(m), 0 + 1, Len(Packet(m))) = Packet(m)
          BY <1>4, Whole
        <5>2. Packet(m) \o << >> = Packet(m)
          BY <1>4, Alone
        <5> QED
          BY <4>2, <5>1, <5>2, <1>1, <1>7 DEF Rest
      <4> QED
        BY <4>3, <4>4, <1>4 DEF Strings
    <3>2. CASE /\ writing # << >>
               /\ outgoing' = outgoing \o Packet(m)
               /\ UNCHANGED << writing, written, write >>
      <4> DEFINE w == SubSeq(writing, written + 1, Len(writing))
      <4>1. w \in Strings
        BY SuffixType DEF Inv, IInv, SenderType
      <4>2. w \o (outgoing \o Packet(m)) = (w \o outgoing) \o Packet(m)
        <5> HIDE DEF w
        <5>1. Joint(w, outgoing, Packet(m))
          BY <4>1, <1>4, Joins
        <5> QED
          BY <5>1 DEF Joint
      <4> QED
        BY <3>2, <4>2, <1>1, <1>7 DEF Rest
    <3> QED
      BY <3>1, <3>2 DEF Send, m
  <2>2. Pipe' = Pipe \o Packet(m)
    <3>1. data \o wire \in Strings
      BY Joined DEF Inv, Carries
    <3>2. Joint(data \o wire, Rest, Packet(m))
      BY <3>1, <1>4, Joins
    <3> QED
      BY <2>1, <3>2, <1>1 DEF Pipe, Joint
  <2>3. /\ Flow(Pipe \o Packet(m), sent', Len(got))
        /\ ToTheEnd(Pipe \o Packet(m), sent', Len(got))
    BY <1>1, <1>2, <1>5, <1>7, FlowGrows DEF Inv, Carries
  <2>4. Flow(Pipe', sent', Len(got)) /\ ToTheEnd(Pipe', sent', Len(got))
    BY <2>2, <2>3
  <2> QED
    BY <2>4, <1>10, <1>3, CarriesMore
<1>8. Carries'
  BY <1>6, <1>7 DEF Inv, IInv, SenderType
<1>9. Progress'
  <2>1. CASE writing = << >> /\ StartWrite(writing, outgoing \o Packet(m))
    <3>1. writing' # << >> /\ written' = 0 /\ write' \in {"busy", "failed"} /\ writing' \in Strings
      BY <2>1, <1>4, StringsGrow DEF StartWrite
    <3> QED
      BY <3>1 DEF Progress, Strings
  <2>2. CASE UNCHANGED << writing, written, write >>
    BY <2>2 DEF Inv, Progress
  <2> QED
    BY <2>1, <2>2 DEF Send, m
<1> QED
  BY <1>8, <1>9

LEMMA TransmitCarries ==
  ASSUME Inv, Transmit
  PROVE  Carries' /\ Progress'
<1>1. PICK k \in 1 .. Len(writing) - written :
        /\ wire' = wire \o SubSeq(writing, written + 1, written + k)
        /\ written' = written + k
        /\ write' = IF written' = Len(writing) THEN "done" ELSE "busy"
  BY DEF Transmit
<1>2. link = "up" /\ UNCHANGED << sent, data, got, link, writing, outgoing >>
  BY DEF Transmit, receiver
<1>3. /\ writing \in Seq(Byte) /\ outgoing \in Seq(Byte) /\ Len(writing) \in Nat
      /\ written \in Nat /\ k \in Nat /\ written + k <= Len(writing)
      /\ data \in Seq(Byte) /\ wire \in Seq(Byte)
  BY DEF Inv, IInv, SenderType, Carries, Strings
<1>4. PICK w \in Nat : w = written + k /\ written <= w /\ w <= Len(writing)
  BY <1>3
<1> DEFINE a == SubSeq(writing, written + 1, w)
           b == SubSeq(writing, w + 1, Len(writing))
           c == SubSeq(writing, written + 1, Len(writing))
<1>5. a \o b = c
  <2>1. /\ written + 1 \in 1 .. Len(writing) + 1 /\ (written + 1) - 1 = written
        /\ w \in written .. Len(writing) /\ Len(writing) \in w .. Len(writing)
    BY <1>3, <1>4
  <2>2. \A i \in 1 .. Len(writing) + 1 : \A j \in i - 1 .. Len(writing) :
          \A n \in j .. Len(writing) :
            SubSeq(writing, i, j) \o SubSeq(writing, j + 1, n) = SubSeq(writing, i, n)
    BY <1>3, ConcatAdjacentSubSeq
  <2> QED
    BY <2>1, <2>2
<1>6. b \in Seq(Byte) /\ c \in Seq(Byte) /\ a \in Seq(Byte)
  <2>1. b \in Seq(Byte) /\ c \in Seq(Byte)
    BY <1>3, SuffixType DEF Strings
  <2>2. \A i \in written + 1 .. w : writing[i] \in Byte
    <3> TAKE i \in written + 1 .. w
    <3>1. i \in 1 .. Len(writing)
      BY <1>3, <1>4
    <3> QED
      BY <3>1, <1>3, ElementOfSeq
  <2>3. a \in Seq(Byte)
    BY <2>2, <1>3, SubSeqProperties
  <2> QED
    BY <2>1, <2>3
<1>7. wire' = wire \o a /\ Rest' = b \o outgoing /\ Rest = c \o outgoing
  BY <1>1, <1>2, <1>4 DEF Rest
<1> HIDE DEF a, b, c
<1>8. Pipe' = Pipe
  <2>1. (data \o (wire \o a)) \o (b \o outgoing) = (data \o wire) \o ((a \o b) \o outgoing)
    <3>1. /\ data \in Strings /\ wire \in Strings /\ outgoing \in Strings
          /\ a \in Strings /\ b \in Strings
      BY <1>3, <1>6 DEF Strings
    <3>5. data \o wire \in Strings /\ b \o outgoing \in Strings
      BY <3>1, Joined
    <3>2. Joint(data, wire, a)
      BY <3>1, Joins
    <3>3. Joint(data \o wire, a, b \o outgoing)
      BY <3>1, <3>5, Joins
    <3>4. Joint(a, b, outgoing)
      BY <3>1, Joins
    <3> QED
      BY <3>2, <3>3, <3>4 DEF Joint
  <2> QED
    BY <2>1, <1>2, <1>5, <1>7 DEF Pipe
<1>9. wire' \in Strings
  BY <1>3, <1>6, <1>7 DEF Strings
<1>10. Carries'
  BY <1>2, <1>8, <1>9 DEF Inv, Carries
<1>11. Progress'
  BY <1>1, <1>2, <1>3 DEF Progress
<1> QED
  BY <1>10, <1>11

LEMMA HandleWriteCarries ==
  ASSUME Inv, HandleWrite
  PROVE  Carries' /\ Progress'
<1>1. UNCHANGED << sent, data, wire, got >>
  BY DEF HandleWrite, receiver
<1>2. outgoing \in Seq(Byte) /\ Len(outgoing) \in Nat
  BY DEF Inv, IInv, SenderType, Strings
<1>3. CASE ~alive
  <2>1. link = "down" /\ link' = "down" /\ write' = "idle"
    BY <1>3 DEF HandleWrite, Inv, IInv, WritingTells
  <2> QED
    BY <1>1, <2>1, CarriesOn DEF Progress
<1>4. CASE alive /\ write = "failed"
  <2>1. link' = "down" /\ write' = "idle"
    BY <1>4 DEF HandleWrite, Down
  <2> QED
    BY <1>1, <2>1, CarriesOn DEF Progress
<1>5. CASE alive /\ write = "done"
  <2>1. link' = link
    BY <1>5 DEF HandleWrite
  <2>2. SubSeq(writing, written + 1, Len(writing)) = << >>
    <3>1. written = Len(writing) /\ Len(writing) \in Nat
      BY <1>5 DEF Inv, Progress, IInv, SenderType, Strings
    <3> QED
      BY <3>1, SubSeqEmpty
  <2>3. link = "up" => Rest = outgoing
    <3>1. << >> \o outgoing = outgoing
      BY <1>2, Alone DEF Strings
    <3> QED
      BY <2>2, <3>1 DEF Rest
  <2>4. CASE outgoing # << >>
    <3>1. writing' = outgoing /\ outgoing' = << >> /\ written' = 0 /\ write' # "done"
      <4>1. StartWrite(<< >>, outgoing)
        BY <1>5, <2>4 DEF HandleWrite
      <4> QED
        BY <4>1, <1>2 DEF StartWrite
    <3>2. SubSeq(outgoing, 0 + 1, Len(outgoing)) = outgoing
      BY <1>2, Whole DEF Strings
    <3>6. outgoing \o << >> = outgoing
      BY <1>2, Alone DEF Strings
    <3>3. link' = "up" => Rest' = outgoing
      BY <3>1, <3>2, <3>6 DEF Rest
    <3>4. Rest' = Rest
      BY <3>3, <2>1, <2>3 DEF Rest
    <3>5. Progress'
      BY <3>1, <1>2, <2>4 DEF Progress
    <3> QED
      BY <3>4, <3>5, <1>1, <2>1, CarriesOn
  <2>5. CASE outgoing = << >>
    <3>1. writing' = << >> /\ outgoing' = << >> /\ written' = written /\ write' = "idle"
      BY <1>5, <2>5 DEF HandleWrite
    <3>2. SubSeq(<< >>, written + 1, Len(<< >>)) = << >>
      BY SubSeqEmpty DEF Inv, IInv, SenderType
    <3>4. << >> \o << >> = << >>
      BY EmptyString, Alone
    <3>3. Rest' = Rest
      BY <3>1, <3>2, <3>4, <2>1, <2>3, <2>5, Zenon DEF Rest
    <3> QED
      BY <3>1, <3>3, <1>1, <2>1, CarriesOn DEF Progress
  <2> QED
    BY <2>4, <2>5
<1> QED
  BY <1>3, <1>4, <1>5 DEF HandleWrite

-----------------------------------------------------------------------------
(* What the loop leaves in the buffer. *)

\* A string cut in two.
LEMMA Cut ==
  ASSUME NEW a \in Strings, NEW k \in 0 .. Len(a)
  PROVE  /\ SubSeq(a, 1, k) \in Strings /\ Len(SubSeq(a, 1, k)) = k
         /\ SubSeq(a, k + 1, Len(a)) \in Strings
         /\ SubSeq(a, 1, k) \o SubSeq(a, k + 1, Len(a)) = a
<1>1. a \in Seq(Byte) /\ Len(a) \in Nat /\ k \in Nat
  BY DEF Strings
<1>2. SubSeq(a, k + 1, Len(a)) \in Strings
  BY <1>1, SuffixType
<1>3. SubSeq(a, 1, k) \in Strings /\ Len(SubSeq(a, 1, k)) = k
  <2>1. SubSeq(a, 0 + 1, 0 + k) \in Strings /\ Len(SubSeq(a, 0 + 1, 0 + k)) = k
    <3>1. IsStretch(SubSeq(a, 0 + 1, 0 + k), Byte, a, 0, k)
      BY <1>1, Stretch
    <3> QED
      BY <3>1 DEF IsStretch, Strings
  <2>2. 0 + 1 = 1 /\ 0 + k = k
    BY <1>1
  <2> QED
    BY <2>1, <2>2
<1>4. SubSeq(a, 1, k) \o SubSeq(a, k + 1, Len(a)) = SubSeq(a, 1, Len(a))
  <2>1. \A i \in 1 .. Len(a) + 1 : \A j \in i - 1 .. Len(a) : \A n \in j .. Len(a) :
          SubSeq(a, i, j) \o SubSeq(a, j + 1, n) = SubSeq(a, i, n)
    BY <1>1, ConcatAdjacentSubSeq
  <2>2. /\ 1 \in 1 .. Len(a) + 1 /\ k \in 1 - 1 .. Len(a)
        /\ Len(a) \in k .. Len(a)
    BY <1>1
  <2> QED
    BY <2>1, <2>2
<1>5. SubSeq(a, 1, Len(a)) = a
  BY <1>1, SubSeqFull
<1> QED
  BY <1>2, <1>3, <1>4, <1>5, Zenon

\* A string joined from two: where the bytes of each are, and each is found again.
LEMMA Halves ==
  ASSUME NEW a \in Strings, NEW b \in Strings
  PROVE  /\ a \o b \in Strings /\ Len(a \o b) = Len(a) + Len(b)
         /\ \A k \in 1 .. Len(a) : (a \o b)[k] = a[k]
         /\ SubSeq(a \o b, 1, Len(a)) = a
         /\ SubSeq(a \o b, Len(a) + 1, Len(a \o b)) = b
<1> DEFINE c == a \o b
<1>1. /\ a \in Seq(Byte) /\ b \in Seq(Byte) /\ Len(a) \in Nat /\ Len(b) \in Nat
      /\ c \in Seq(Byte) /\ Len(c) = Len(a) + Len(b)
      /\ \A k \in 1 .. Len(a) + Len(b) : c[k] = IF k <= Len(a) THEN a[k] ELSE b[k - Len(a)]
  BY ConcatProperties DEF Strings
<1> HIDE DEF c
<1>2. \A k \in 1 .. Len(a) : c[k] = a[k]
  BY <1>1
<1>7. /\ a \in Seq(Byte) /\ b \in Seq(Byte) /\ c \in Seq(Byte)
      /\ Len(a) \in Nat /\ Len(b) \in Nat
  BY <1>1
<1>3. SubSeq(c, 0 + 1, 0 + Len(a)) = SubSeq(a, 0 + 1, 0 + Len(a))
  <2>1. Agree(c, 0, a, 0, Len(a))
    BY <1>1, <1>2 DEF Agree
  <2>2. 0 \in Nat /\ 0 + Len(a) <= Len(a) /\ 0 + Len(a) <= Len(c)
    BY <1>1
  <2> QED
    BY <1>7, <2>1, <2>2, SameStretch, SMTT(20)
<1>4. SubSeq(c, Len(a) + 1, Len(a) + Len(b)) = SubSeq(b, 0 + 1, 0 + Len(b))
  <2>1. Agree(c, Len(a), b, 0, Len(b))
    <3> SUFFICES \A k \in 1 .. Len(b) : c[Len(a) + k] = b[0 + k]
      BY DEF Agree
    <3> TAKE k \in 1 .. Len(b)
    <3>1. PICK j \in 1 .. Len(a) + Len(b) : j = Len(a) + k
      BY <1>1
    <3>2. ~(j <= Len(a)) /\ j - Len(a) = k /\ 0 + k = k
      BY <3>1, <1>1
    <3> QED
      BY <1>1, <3>1, <3>2
  <2>2. 0 \in Nat /\ 0 + Len(b) <= Len(b) /\ Len(a) + Len(b) <= Len(c)
    BY <1>1
  <2> QED
    BY <1>7, <2>1, <2>2, SameStretch
<1>5. SubSeq(a, 0 + 1, 0 + Len(a)) = a /\ SubSeq(b, 0 + 1, 0 + Len(b)) = b
  <2>1. 0 + Len(a) = Len(a) /\ 0 + Len(b) = Len(b)
    BY <1>1
  <2> QED
    BY <2>1, Whole
<1>6. SubSeq(c, 1, Len(a)) = a
  <2>1. 0 + 1 = 1 /\ 0 + Len(a) = Len(a)
    BY <1>1
  <2> QED
    BY <1>3, <1>5, <2>1
<1> QED
  BY <1>1, <1>2, <1>4, <1>5, <1>6 DEF Strings, c

LEMMA RemainderIs ==
  ASSUME NEW d \in Strings
  PROVE  Remainder(d) = SubSeq(d, Consumed(d) + 1, Len(d))
<1>1. CASE PacketStarts(d) = << >>
  <2>1. Consumed(d) = 0
    BY <1>1 DEF Consumed
  <2>2. SubSeq(d, 0 + 1, Len(d)) = d
    BY Whole
  <2> QED
    BY <1>1, <2>1, <2>2 DEF Remainder
<1>2. CASE PacketStarts(d) # << >>
  BY <1>2 DEF Remainder, Consumed, Last
<1> QED
  BY <1>1, <1>2

\* What is left, with what is still to come, flows on from the next message.
LEMMA LoopAdvances ==
  ASSUME NEW ms, Sound(ms), NEW n \in Nat, NEW d \in Strings, NEW z \in Strings,
         Flow(d \o z, ms, n), NEW l, l = n + Len(PacketStarts(d))
  PROVE  /\ Remainder(d) \in Strings
         /\ Len(Remainder(d)) < MaxPacketLen + Header
         /\ Flow(Remainder(d) \o z, ms, l)
         /\ ToTheEnd(d \o z, ms, n) => ToTheEnd(Remainder(d) \o z, ms, l)
<1>1. PICK s : s = d \o z
  OBVIOUS
<1>2. /\ Flow(s, ms, n) /\ s \in Strings /\ Len(s) = Len(d) + Len(z)
      /\ Len(d) \in Nat /\ Len(z) \in Nat
      /\ \A k \in 1 .. Len(d) : s[k] = d[k]
  BY <1>1, Halves DEF Strings
<1>3. Flow(d, ms, n)
  <2>1. SubSeq(s, 1, Len(d)) = d /\ Len(d) <= Len(s)
    BY <1>1, <1>2, Halves
  <2> QED
    BY <1>2, <2>1, FlowPrefix
<1>4. PICK e : e = Consumed(d)
  OBVIOUS
<1>5. /\ e \in 0 .. Len(d)
      /\ e < Len(d) => l < Len(ms) /\ d[e + 1] = Start(ms, l + 1)
      /\ e > 0 => l \in 1 .. Len(ms) /\ IsLast(d[e]) /\ d[e].msg[1] = l
      /\ e = 0 => l = n
  BY <1>3, <1>4, LoopStops
<1>6. PICK r : r = Remainder(d)
  OBVIOUS
<1>7. r = SubSeq(d, e + 1, Len(d)) /\ r \in Strings /\ Len(r) = Len(d) - e
  <2>1. r = SubSeq(d, e + 1, Len(d))
    BY <1>4, <1>6, RemainderIs
  <2>2. PICK c \in Strings : Len(c) = e /\ r \in Strings /\ c \o r = d
    BY <1>5, <2>1, Cut
  <2>3. Len(c \o r) = Len(c) + Len(r)
    BY <2>2, Halves
  <2>4. Len(r) \in Nat
    BY <2>2 DEF Strings
  <2>5. Len(d) = e + Len(r)
    BY <2>2, <2>3, Zenon
  <2>6. Len(r) = Len(d) - e
    BY <2>4, <2>5, <1>5
  <2> QED
    BY <2>1, <2>2, <2>6
<1>8. Len(r) < MaxPacketLen + Header
  BY <1>3, <1>4, <1>7, LeavesRoom
<1>9. SubSeq(s, e + 1, Len(s)) = r \o z
  <2>1. PICK c \in Strings : Len(c) = e /\ c \o r = d
    BY <1>5, <1>7, Cut
  <2>2. s = c \o (r \o z) /\ r \o z \in Strings
    <3>1. r \o z \in Strings
      BY <1>7, Joined, Zenon
    <3>2. Joint(c, r, z)
      BY <1>7, <2>1, Joins
    <3> QED
      BY <1>1, <2>1, <3>1, <3>2 DEF Joint
  <2> QED
    BY <2>1, <2>2, Halves
<1>10. e < Len(s) => l < Len(ms) /\ s[e + 1] = Start(ms, l + 1)
  <2> SUFFICES ASSUME e < Len(s)
               PROVE  l < Len(ms) /\ s[e + 1] = Start(ms, l + 1)
    OBVIOUS
  <2>1. CASE e < Len(d)
    <3>1. e + 1 \in 1 .. Len(d)
      BY <2>1, <1>2, <1>5
    <3> QED
      BY <3>1, <2>1, <1>2, <1>5
  <2>2. CASE e = Len(d) /\ e > 0
    <3>1. e \in 1 .. Len(d) /\ e \in 1 .. Len(s) - 1
      BY <2>2, <1>2, <1>5
    <3>2. Follows(ms, s[e], s[e + 1]) /\ s[e] = d[e]
      BY <3>1, <1>2 DEF Flow
    <3> QED
      BY <3>2, <2>2, <1>5 DEF Follows
  <2>3. CASE e = 0
    <3>1. s # << >> /\ 0 + 1 = 1
      BY <2>3, <1>2
    <3> QED
      BY <3>1, <2>3, <1>2, <1>5 DEF Flow
  <2> QED
    BY <2>1, <2>2, <2>3, <1>2, <1>5
<1>11. e \in Nat /\ e <= Len(s) /\ Len(s) \in Nat
  BY <1>2, <1>5
<1>12. PICK t : t = SubSeq(s, e + 1, Len(s))
  OBVIOUS
<1>13. /\ Flow(t, ms, l) /\ Len(t) = Len(s) - e
       /\ \A k \in 1 .. Len(s) - e : t[k] = s[e + k]
  <2>1. /\ Flow(SubSeq(s, e + 1, Len(s)), ms, l)
        /\ Len(SubSeq(s, e + 1, Len(s))) = Len(s) - e
        /\ \A k \in 1 .. Len(s) - e : SubSeq(s, e + 1, Len(s))[k] = s[e + k]
    <3>1. Flow(s, ms, n)
      BY <1>2
    <3>2. Flow(SubSeq(s, e + 1, Len(s)), ms, l)
      BY <3>1, <1>10, <1>11, FlowSuffix
    <3>3. Len(SubSeq(s, e + 1, Len(s))) = Len(s) - e
      BY <3>1, <1>10, <1>11, FlowSuffix
    <3>4. \A k \in 1 .. Len(s) - e : SubSeq(s, e + 1, Len(s))[k] = s[e + k]
      BY <3>1, <1>10, <1>11, FlowSuffix
    <3> QED
      BY <3>2, <3>3, <3>4
  <2> QED
    BY <2>1, <1>12
<1>14. ToTheEnd(s, ms, n) => ToTheEnd(t, ms, l)
  <2> SUFFICES ASSUME ToTheEnd(s, ms, n)
               PROVE  ToTheEnd(t, ms, l)
    OBVIOUS
  <2>0. t \in Seq(Byte)
    BY <1>13 DEF Flow, Strings
  <2>1. CASE t = << >> /\ e = 0
    <3>1. s = << >>
      BY <2>1, <1>2, <1>13 DEF Strings
    <3> QED
      BY <3>1, <2>1, <1>5 DEF ToTheEnd
  <2>2. CASE t = << >> /\ e > 0
    <3>1. Len(s) = e /\ e = Len(d) /\ e \in 1 .. Len(d) /\ s # << >>
      BY <2>2, <1>2, <1>5, <1>13
    <3>2. s[Len(s)] = d[e]
      BY <3>1, <1>2
    <3> QED
      BY <3>1, <3>2, <2>2, <1>5 DEF ToTheEnd
  <2>3. CASE t # << >>
    <3>1. Len(t) \in 1 .. Len(s) - e /\ e + Len(t) = Len(s) /\ s # << >>
      BY <2>0, <2>3, <1>11, <1>13
    <3>2. t[Len(t)] = s[Len(s)]
      BY <3>1, <1>13
    <3> QED
      BY <3>1, <3>2, <2>3 DEF ToTheEnd
  <2> QED
    BY <2>1, <2>2, <2>3, <1>11
<1> QED
  BY <1>1, <1>6, <1>7, <1>8, <1>9, <1>12, <1>13, <1>14

-----------------------------------------------------------------------------
(* Prefixes. *)

LEMMA PrefixMeans ==
  ASSUME NEW B, NEW s \in Seq(B), NEW t \in Seq(B)
  PROVE  IsPrefix(s, t) <=> /\ Len(s) <= Len(t)
                            /\ \A k \in 1 .. Len(s) : s[k] = t[k]
<1>1. Len(s) \in Nat /\ Len(t) \in Nat /\ SubSeq(s, 1, Len(s)) = s
  BY SubSeqFull
<1>2. ASSUME Len(s) <= Len(t)
      PROVE  SubSeq(t, 1, Len(s)) = s <=> \A k \in 1 .. Len(s) : s[k] = t[k]
  <2>1. PICK u : u = SubSeq(t, 1, Len(s))
    OBVIOUS
  <2>2. u \in Seq(B) /\ Len(u) = Len(s) /\ \A k \in 1 .. Len(s) : u[k] = t[k]
    <3>1. /\ SubSeq(t, 0 + 1, 0 + Len(s)) \in Seq(B)
          /\ Len(SubSeq(t, 0 + 1, 0 + Len(s))) = Len(s)
          /\ \A k \in 1 .. Len(s) : SubSeq(t, 0 + 1, 0 + Len(s))[k] = t[0 + k]
      <4>1. IsStretch(SubSeq(t, 0 + 1, 0 + Len(s)), B, t, 0, Len(s))
        BY <1>1, <1>2, Stretch
      <4> QED
        BY <4>1, Zenon DEF IsStretch
    <3>2. 0 + 1 = 1 /\ 0 + Len(s) = Len(s) /\ \A k \in 1 .. Len(s) : 0 + k = k
      BY <1>1
    <3> QED
      BY <2>1, <3>1, <3>2
  <2>3. (\A k \in 1 .. Len(s) : s[k] = u[k]) => s = u
    BY <2>2, SeqEqual
  <2> QED
    BY <2>1, <2>2, <2>3
<1> QED
  BY <1>1, <1>2 DEF IsPrefix

\* Signalling the messages that come next.
LEMMA PrefixGrows ==
  ASSUME NEW B, NEW ms \in Seq(B), NEW g \in Seq(B), IsPrefix(g, ms), NEW t \in Seq(B),
         \A j \in 1 .. Len(t) : Len(g) + j \in 1 .. Len(ms) /\ t[j] = ms[Len(g) + j]
  PROVE  /\ g \o t \in Seq(B) /\ Len(g \o t) = Len(g) + Len(t)
         /\ IsPrefix(g, g \o t) /\ IsPrefix(g \o t, ms)
<1> DEFINE u == g \o t
<1>1. /\ u \in Seq(B) /\ Len(u) = Len(g) + Len(t) /\ Len(g) \in Nat /\ Len(t) \in Nat
      /\ Len(ms) \in Nat
      /\ \A k \in 1 .. Len(g) + Len(t) : u[k] = IF k <= Len(g) THEN g[k] ELSE t[k - Len(g)]
  BY ConcatProperties
<1> HIDE DEF u
<1>2. Len(g) <= Len(ms) /\ \A k \in 1 .. Len(g) : g[k] = ms[k]
  BY PrefixMeans
<1>3. IsPrefix(g, u)
  <2>1. Len(g) <= Len(u) /\ \A k \in 1 .. Len(g) : g[k] = u[k]
    BY <1>1
  <2> QED
    BY <2>1, <1>1, PrefixMeans
<1>4. Len(u) <= Len(ms)
  <2>1. CASE Len(t) = 0
    BY <2>1, <1>1, <1>2
  <2>2. CASE Len(t) > 0
    <3>1. Len(t) \in 1 .. Len(t)
      BY <2>2, <1>1
    <3> QED
      BY <3>1, <1>1
  <2> QED
    BY <2>1, <2>2, <1>1
<1>5. \A k \in 1 .. Len(u) : u[k] = ms[k]
  <2> TAKE k \in 1 .. Len(u)
  <2>1. CASE k <= Len(g)
    BY <2>1, <1>1, <1>2
  <2>2. CASE k > Len(g)
    <3>1. PICK j \in 1 .. Len(t) : j = k - Len(g) /\ Len(g) + j = k
      <4>1. k - Len(g) \in 1 .. Len(t) /\ Len(g) + (k - Len(g)) = k
        BY <2>2, <1>1
      <4> QED
        BY <4>1
    <3>2. u[k] = t[j]
      BY <3>1, <2>2, <1>1
    <3> QED
      BY <3>1, <3>2
  <2> QED
    BY <2>1, <2>2, <1>1
<1>6. IsPrefix(u, ms)
  BY <1>1, <1>4, <1>5, PrefixMeans
<1> QED
  BY <1>1, <1>3, <1>6 DEF u

LEMMA HandleReadCarries ==
  ASSUME Inv, HandleRead
  PROVE  /\ Carries' /\ UNCHANGED << sent, link >>
         /\ IsPrefix(got, got')
<1>1. PICK k \in 1 .. Len(wire) :
        /\ got' = got \o Signalled(data \o SubSeq(wire, 1, k))
        /\ data' = Remainder(data \o SubSeq(wire, 1, k))
        /\ wire' = SubSeq(wire, k + 1, Len(wire))
  BY DEF HandleRead
<1>2. UNCHANGED << sent, link, writing, written, outgoing >>
  BY DEF HandleRead, sender
<1>3. /\ Sound(sent) /\ data \in Strings /\ wire \in Strings /\ Rest \in Strings
      /\ got \in Seq(Message) /\ Len(got) \in Nat /\ IsPrefix(got, sent)
      /\ Flow((data \o wire) \o Rest, sent, Len(got))
      /\ link = "up" => ToTheEnd((data \o wire) \o Rest, sent, Len(got))
  BY RestType DEF Inv, Carries, Pipe
<1>4. PICK x \in Strings, y \in Strings :
        /\ x = SubSeq(wire, 1, k) /\ y = SubSeq(wire, k + 1, Len(wire))
        /\ x \o y = wire
  <2>1. k \in 0 .. Len(wire)
    BY <1>3 DEF Strings
  <2>2. /\ SubSeq(wire, 1, k) \in Strings /\ SubSeq(wire, k + 1, Len(wire)) \in Strings
        /\ SubSeq(wire, 1, k) \o SubSeq(wire, k + 1, Len(wire)) = wire
    BY <1>3, <2>1, Cut
  <2> QED
    BY <2>2, Zenon
<1>5. PICK d \in Strings, z \in Strings : d = data \o x /\ z = y \o Rest
  BY <1>3, Joined
<1>19. /\ data \in Strings /\ x \in Strings /\ y \in Strings /\ d \in Strings
       /\ Rest \in Strings
  BY <1>3
<1>6. (data \o wire) \o Rest = d \o z
  <2>1. Joint(data, x, y) /\ Joint(d, y, Rest)
    BY <1>19, Joins
  <2>2. data \o wire = d \o y
    BY <2>1, <1>4, <1>5 DEF Joint
  <2>3. (d \o y) \o Rest = d \o z
    BY <2>1, <1>5 DEF Joint
  <2> QED
    BY <2>2, <2>3
<1>7. Flow(d \o z, sent, Len(got)) /\ (link = "up" => ToTheEnd(d \o z, sent, Len(got)))
  BY <1>3, <1>6
<1>8. PICK l : l = Len(got) + Len(PacketStarts(d))
  OBVIOUS
<1>9. PICK r \in Strings :
        /\ r = Remainder(d) /\ Len(r) < MaxPacketLen + Header
        /\ Flow(r \o z, sent, l)
        /\ link = "up" => ToTheEnd(r \o z, sent, l)
  BY <1>3, <1>7, <1>8, LoopAdvances
<1>10. Flow(d, sent, Len(got))
  <2>1. SubSeq(d \o z, 1, Len(d)) = d /\ Len(d) <= Len(d \o z) /\ Len(d) \in Nat
    <3>1. SubSeq(d \o z, 1, Len(d)) = d /\ Len(d \o z) = Len(d) + Len(z)
      BY Halves
    <3>2. Len(d) \in Nat /\ Len(z) \in Nat
      BY DEF Strings
    <3> QED
      BY <3>1, <3>2
  <2> QED
    BY <1>3, <1>7, <2>1, FlowPrefix
<1>11. PICK t \in Seq(Message) :
         /\ t = Signalled(d) /\ Len(t) = Len(PacketStarts(d))
         /\ \A j \in 1 .. Len(t) : Len(got) + j \in 1 .. Len(sent) /\ t[j] = sent[Len(got) + j]
  BY <1>3, <1>10, LoopReads
<1>12. got' = got \o t /\ data' = r /\ wire' = y /\ Rest' = Rest
  <2>1. got' = got \o t /\ data' = r /\ wire' = y
    BY <1>1, <1>4, <1>5, <1>9, <1>11
  <2>2. Rest' = Rest
    BY <1>2 DEF Rest
  <2> QED
    BY <2>1, <2>2
<1>13. /\ got' \in Seq(Message) /\ Len(got') = l
       /\ IsPrefix(got, got') /\ IsPrefix(got', sent)
  <2>1. sent \in Seq(Message)
    BY <1>3 DEF Sound
  <2>2. /\ got \o t \in Seq(Message) /\ Len(got \o t) = Len(got) + Len(t)
        /\ IsPrefix(got, got \o t) /\ IsPrefix(got \o t, sent)
    BY <2>1, <1>3, <1>11, PrefixGrows
  <2> QED
    BY <2>2, <1>8, <1>11, <1>12
<1>14. Pipe' = r \o z
  <2>1. Pipe' = (r \o y) \o Rest
    BY <1>12 DEF Pipe
  <2>2. Joint(r, y, Rest)
    BY <1>19, Joins
  <2> QED
    BY <2>1, <2>2, <1>5 DEF Joint
<1>15. Flow(Pipe', sent', Len(got'))
  BY <1>2, <1>9, <1>13, <1>14
<1>16. link' = "up" => ToTheEnd(Pipe', sent', Len(got'))
  BY <1>2, <1>9, <1>13, <1>14
<1>17. Sound(sent') /\ IsPrefix(got', sent')
  BY <1>2, <1>3, <1>13
<1>18. data' \in Strings /\ wire' \in Strings /\ Len(data') < MaxPacketLen + Header
  BY <1>9, <1>12
<1> QED
  BY <1>2, <1>13, <1>15, <1>16, <1>17, <1>18 DEF Carries

LEMMA NextInv == Inv /\ [Next]_vars => Inv'
<1> SUFFICES ASSUME Inv, [Next]_vars
             PROVE  Inv'
  OBVIOUS
<1>1. IInv'
  BY NextIInv DEF Inv
<1>2. ASSUME UNCHANGED << sent, data, wire, got >>,
             link' = "down" \/ UNCHANGED << link, writing, written, outgoing >>,
             UNCHANGED << writing, written >>,
             write' = write \/ write' = "failed"
      PROVE  Carries' /\ Progress'
  <2>1. link' = "down" \/ (link' = link /\ Rest' = Rest)
    BY <1>2 DEF Rest
  <2>2. Carries'
    BY <1>2, <2>1, CarriesOn
  <2>3. Progress'
    BY <1>2 DEF Inv, Progress
  <2> QED
    BY <2>2, <2>3
<1>3. CASE \E size \in Sizes : Send(size)
  BY <1>1, <1>3, SendCarries DEF Inv
<1>4. CASE Transmit
  BY <1>1, <1>4, TransmitCarries DEF Inv
<1>5. CASE WriteFails
  BY <1>1, <1>2, <1>5 DEF WriteFails, receiver, Inv
<1>6. CASE HandleWrite
  BY <1>1, <1>6, HandleWriteCarries DEF Inv
<1>7. CASE HandleReadError
  BY <1>1, <1>2, <1>7 DEF HandleReadError, Destroyed, receiver, Inv
<1>8. CASE ClientDrops
  BY <1>1, <1>2, <1>8 DEF ClientDrops, Destroyed, receiver, Inv
<1>9. CASE Break
  BY <1>1, <1>2, <1>9 DEF Break, Down, receiver, Inv
<1>10. CASE HandleRead
  <2>1. UNCHANGED << write, writing, written >>
    BY <1>10 DEF HandleRead, sender
  <2>2. Progress'
    BY <2>1 DEF Inv, Progress
  <2> QED
    BY <1>1, <1>10, <2>2, HandleReadCarries DEF Inv
<1>11. CASE ReadFails
  BY <1>1, <1>2, <1>11 DEF ReadFails, sender, Inv
<1>12. CASE UNCHANGED vars
  BY <1>1, <1>2, <1>12 DEF vars, sender, receiver, Inv
<1> QED
  BY <1>3, <1>4, <1>5, <1>6, <1>7, <1>8, <1>9, <1>10, <1>11, <1>12 DEF Next

THEOREM Invariance == Spec => []Inv
BY InitInv, NextInv, PTL DEF Spec

-----------------------------------------------------------------------------
(* Theorems. *)

LEMMA TypeStays == Inv /\ TypeOK /\ [Next]_vars => TypeOK'
<1> SUFFICES ASSUME Inv, TypeOK, [Next]_vars
             PROVE  TypeOK'
  OBVIOUS
<1>1. Inv'
  BY NextInv
<1>2. /\ end' = end
      /\ {alive', reading', dangling'} \subseteq BOOLEAN
      /\ ear' \in {"waiting", "failed", "none"}
      /\ link' \in {"up", "down"}
  BY DEF TypeOK, Next, vars, sender, receiver, Send, Transmit, WriteFails, HandleWrite,
         Down, HandleReadError, Destroyed, ClientDrops, Break, HandleRead, ReadFails
<1>3. /\ sent' \in Seq(Message)
      /\ outgoing' \in Seq(Byte) /\ writing' \in Seq(Byte) /\ wire' \in Seq(Byte)
      /\ written' \in Nat /\ (write' = "busy" => written' < Len(writing'))
      /\ write' \in {"idle", "busy", "done", "failed"}
  BY <1>1 DEF Inv, IInv, SenderType, Progress, Carries, Strings
<1>4. data' \in Seq(Byte) /\ Len(data') <= Capacity /\ got' \in Seq(Message)
  BY <1>1, StreamAssumption DEF Inv, Carries, Capacity, Strings
<1>5. got' \in Seq(Message \cup {Garbled})
  BY <1>4
<1> QED
  BY <1>2, <1>3, <1>4, <1>5 DEF TypeOK

\* Every variable of a connection keeps its type: in particular data_ never holds more
\* than handleRead's buffer has room for.
THEOREM TypeCorrect == Spec => []TypeOK
<1>1. Init => TypeOK
  <2> SUFFICES ASSUME Init
               PROVE  TypeOK
    OBVIOUS
  <2>1. Inv
    BY InitInv
  <2>2. /\ sent \in Seq(Message) /\ outgoing \in Seq(Byte) /\ writing \in Seq(Byte)
        /\ wire \in Seq(Byte) /\ written \in Nat /\ got \in Seq(Message)
        /\ data \in Seq(Byte) /\ Len(data) <= Capacity
    BY <2>1, StreamAssumption DEF Inv, IInv, SenderType, Carries, Capacity, Strings
  <2>3. got \in Seq(Message \cup {Garbled})
    BY <2>2
  <2>4. /\ end \in {"server", "client"} /\ {alive, reading, dangling} \subseteq BOOLEAN
        /\ ear \in {"waiting", "failed", "none"}
        /\ (write = "busy" => written < Len(writing))
        /\ write \in {"idle", "busy", "done", "failed"} /\ link \in {"up", "down"}
    BY DEF Init
  <2> QED
    BY <2>2, <2>3, <2>4 DEF TypeOK
<1> QED
  BY <1>1, Invariance, TypeStays, PTL DEF Spec

\* handleRead's buffer always has room for another byte: continueRead never asks
\* for nothing, however large a packet is.
THEOREM RoomToRead == Spec => [](Space > 0)
<1>1. Inv => Space > 0
  <2> SUFFICES ASSUME Inv
               PROVE  Space > 0
    OBVIOUS
  <2>1. Len(data) \in Nat /\ Len(data) < MaxPacketLen + Header
    BY DEF Inv, Carries, Strings
  <2> QED
    BY <2>1, StreamAssumption DEF Space, Capacity
<1> QED
  BY <1>1, Invariance, PTL

\* While the connection holds and something that was sent is still to be signalled, the
\* buffers and the wire are not all empty.  That nothing of it is missing is what
\* Delivers adds.
THEOREM NothingLost == Spec => [](link = "up" /\ got # sent => Pipe # << >>)
<1>1. Inv => (link = "up" /\ got # sent => Pipe # << >>)
  <2> SUFFICES ASSUME Inv, link = "up", Pipe = << >>
               PROVE  got = sent
    OBVIOUS
  <2>1. got \in Seq(Message) /\ sent \in Seq(Message) /\ IsPrefix(got, sent)
    BY DEF Inv, Carries, Sound
  <2>2. Len(got) = Len(sent)
    BY DEF Inv, Carries, ToTheEnd
  <2>3. \A k \in 1 .. Len(got) : got[k] = sent[k]
    BY <2>1, PrefixMeans
  <2> QED
    BY <2>1, <2>2, <2>3, SeqEqual
<1> QED
  BY <1>1, Invariance, PTL

\* TcpSocket delivers: whatever the sizes of messages, writes and reads, handleRead
\* signals the messages given to send whole, in order and once each.
THEOREM Delivers == Spec => InOrder
<1>1. Init => Delivered!Init
  BY DEF Init, Delivered!Init
<1>3. \A s, t : IsPrefix(s, t) => Delivered!IsPrefix(s, t)
  BY DEF IsPrefix, Delivered!IsPrefix
<1>2. Inv /\ [Next]_vars => [Delivered!Next]_<< sent, got >>
  <2> SUFFICES ASSUME Inv, Next
               PROVE  Delivered!Next \/ UNCHANGED << sent, got >>
    BY DEF vars, sender, receiver
  <2>1. CASE \E size \in Sizes : Send(size)
    <3>1. PICK size \in Sizes : Send(size)
      BY <2>1
    <3>2. PICK m : m = << Len(sent) + 1, size >>
      OBVIOUS
    <3>3. sent' = Append(sent, m) /\ got' = got
      BY <3>1, <3>2 DEF Send, receiver
    <3>4. m \in Message
      <4>1. Len(sent) + 1 \in 1 .. MaxSent
        BY <3>1, StreamAssumption DEF Send, Inv, IInv, SenderType
      <4> QED
        BY <3>2, <4>1 DEF Message
    <3>5. sent \in Seq(Message) /\ sent' \in Seq(Message) /\ Len(sent') = Len(sent) + 1
      BY <3>3, <3>4 DEF Inv, IInv, SenderType
    <3>6. IsPrefix(sent, sent')
      <4>1. Len(sent) <= Len(sent') /\ \A k \in 1 .. Len(sent) : sent[k] = sent'[k]
        BY <3>3, <3>4, <3>5
      <4> QED
        BY <4>1, <3>5, PrefixMeans
    <3>7. sent # sent'
      BY <3>5
    <3> QED
      BY <1>3, <3>3, <3>6, <3>7 DEF Delivered!Next, Delivered!Send
  <2>2. CASE HandleRead
    <3>1. IsPrefix(got, got') /\ sent' = sent /\ Carries'
      BY <2>2, HandleReadCarries
    <3>2. IsPrefix(got', sent)
      BY <3>1 DEF Carries
    <3> QED
      BY <1>3, <3>1, <3>2 DEF Delivered!Next, Delivered!Receive
  <2>3. CASE Transmit \/ WriteFails \/ HandleWrite \/ HandleReadError
             \/ ClientDrops \/ Break \/ ReadFails
    BY <2>3 DEF Transmit, WriteFails, HandleWrite, HandleReadError, ClientDrops, Break,
                ReadFails, receiver, sender
  <2> QED
    BY <2>1, <2>2, <2>3 DEF Next
<1> QED
  BY <1>1, <1>2, Invariance, PTL DEF Spec, InOrder, Delivered!Spec

\* TcpSocket::send may leave its message in outgoing_: there is always a handler,
\* of a write under way or done, that will write it.
THEOREM SendIsEnough == Spec => []NothingHeldBack
<1>1. Init => IInv
  BY InitIInv
<1>2. IInv /\ [Next]_vars => IInv'
  BY NextIInv
<1>3. IInv => NothingHeldBack
  BY DEF IInv, WritingTells, NothingHeldBack
<1> QED
  BY <1>1, <1>2, <1>3, PTL DEF Spec
=============================================================================
