---------------------------- MODULE ThreadsProofs ---------------------------
(***************************************************************************)
(* What the GUI thread and the I/O thread of the client promise each other *)
(* whatever their interleaving: for any number of messages, of connections *)
(* and of messages in one read.                                            *)
(***************************************************************************)
EXTENDS Threads, SequenceTheorems, TLAPS

\* What TcpSocket's signals to disconnectSignal_ leave to be called.
Bye == Raise("disconnect", 0)

\* The GUI thread has left its loop for good.
Out == {"leaving", "joining", "done"}

\* Messages are numbered as they come from the socket: those of s come after n.
Numbered(s, n) ==
  /\ s \in Seq(1 .. MaxNet)
  /\ \A i \in 1 .. Len(s) : s[i] = n + i

Handed == Len(got) + Len(pending["net"])

\* A message is handled, on the list of netMessageSignal_, or still to be raised by
\* the read that brought it; and a thread raises nothing else meanwhile.
Books ==
  /\ Numbered(sent, 0) /\ Numbered(got, 0) /\ Numbered(pending["net"], Len(got))
  /\ IF io = "reading"
     THEN /\ Handed + Len(raising["io"]) = Len(sent)
          /\ \A i \in 1 .. Len(raising["io"]) : raising["io"][i] = Raise("net", Handed + i)
          /\ alerting["io"] \in {None, "net"}
     ELSE /\ Handed = Len(sent)
          /\ raising["io"] \in {<< >>, << Said, Bye >>, << Bye >>}
          /\ alerting["io"] \in {None, "message", "disconnect"}
  /\ raising["gui"] \in {<< >>, << Said >>} /\ alerting["gui"] \in {None, "message"}

\* How far a disconnection has come: it is to be raised, its alert to be written, in
\* the pipe, or read from it.
AtIo == raising["io"] \in {<< Said, Bye >>, << Bye >>}
AtMutex == alerting["io"] = "disconnect"
HasBye(a) == \E i \in 1 .. Len(a) : a[i] = "disconnect"
InPipe == HasBye(alerts)
AtGui == flushing = "disconnect"
Parted == AtIo \/ AtMutex \/ InPipe \/ AtGui

Single(a) ==
  \A i, j \in 1 .. Len(a) : a[i] = "disconnect" /\ a[j] = "disconnect" => i = j

\* There is one disconnection at a time.
Once ==
  /\ AtIo => ~AtMutex /\ ~InPipe /\ ~AtGui
  /\ AtMutex => ~InPipe /\ ~AtGui
  /\ InPipe => ~AtGui
  /\ Single(alerts)
  /\ pending["disconnect"] \in {<< >>, << 0 >>}
  /\ pending["disconnect"] # << >> => AtMutex \/ InPipe \/ AtGui

\* Messages on the list will be flushed, and before any disconnection.
Ahead(a) == \E i \in 1 .. Len(a) : /\ a[i] = "net"
                                   /\ \A j \in 1 .. i - 1 : a[j] # "disconnect"

InTurn ==
  pending["net"] # << >> => /\ ~AtGui
                            /\ flushing = "net" \/ alerting["io"] = "net" \/ Ahead(alerts)

\* The socket is read, or a read of it is at work.
Active == read # None \/ io = "reading"

\* A connection that is read has not failed; without one, and while the program
\* runs, nothing of the last is on its way.
Calm ==
  /\ Active => ~Parted
  /\ ~client /\ gui \notin Out => /\ ~Active /\ ~AtIo /\ ~AtMutex /\ ~InPipe
                                  /\ pending["disconnect"] = << >> /\ pending["net"] = << >>
  /\ gui = "hanging up" => client /\ AtGui /\ pending["disconnect"] = << >>
  /\ gui = "quitting" => client
  /\ gui = "dialling" => ~client /\ flushing = None

Inv == Books /\ Once /\ InTurn /\ Calm

\* The invariant is typed: Books bounds the messages.
IInv == TypeOK /\ Inv

-----------------------------------------------------------------------------
(* Numbered messages. *)

LEMMA NumberedOn ==
  ASSUME NEW n \in Nat, NEW s, Numbered(s, n), NEW x \in 1 .. MaxNet, x = n + Len(s) + 1
  PROVE  Numbered(Append(s, x), n) /\ Len(Append(s, x)) = Len(s) + 1
<1>1. s \in Seq(1 .. MaxNet) /\ Len(s) \in Nat
  BY DEF Numbered
<1>2. Append(s, x) \in Seq(1 .. MaxNet) /\ Len(Append(s, x)) = Len(s) + 1
  BY <1>1
<1>3. \A i \in 1 .. Len(s) + 1 : Append(s, x)[i] = IF i = Len(s) + 1 THEN x ELSE s[i]
  BY <1>1
<1>4. \A i \in 1 .. Len(s) + 1 : Append(s, x)[i] = n + i
  BY <1>1, <1>3 DEF Numbered
<1> QED
  BY <1>2, <1>4 DEF Numbered

LEMMA NumberedOff ==
  ASSUME NEW n \in Nat, NEW s, Numbered(s, n), s # << >>
  PROVE  /\ Head(s) = n + 1 /\ Numbered(Tail(s), n + 1)
         /\ Len(s) \in Nat /\ Len(s) >= 1 /\ Len(Tail(s)) = Len(s) - 1
<1>1. s \in Seq(1 .. MaxNet) /\ Len(s) \in Nat /\ Len(s) >= 1
  BY DEF Numbered
<1>2. Head(s) = s[1] /\ s[1] = n + 1
  BY <1>1 DEF Numbered
<1>3. Tail(s) \in Seq(1 .. MaxNet) /\ Len(Tail(s)) = Len(s) - 1
  BY <1>1
<1>4. \A i \in 1 .. Len(s) - 1 : Tail(s)[i] = s[i + 1]
  BY <1>1
<1>5. ASSUME NEW i \in 1 .. Len(s) - 1
      PROVE  Tail(s)[i] = n + 1 + i
  <2>1. i + 1 \in 1 .. Len(s)
    BY <1>1
  <2>2. s[i + 1] = n + (i + 1)
    BY <2>1 DEF Numbered
  <2> QED
    BY <1>4, <2>2
<1> QED
  BY <1>1, <1>2, <1>3, <1>5 DEF Numbered

\* What comes later of the numbered messages goes on where the earlier end.
LEMMA NumberedPrefix ==
  ASSUME NEW s, Numbered(s, 0), NEW t, Numbered(t, 0), Len(s) <= Len(t)
  PROVE  Channel!IsPrefix(s, t)
<1>1. s \in Seq(1 .. MaxNet) /\ t \in Seq(1 .. MaxNet) /\ Len(s) \in Nat /\ Len(t) \in Nat
  BY DEF Numbered
<1>2. \A i \in 1 .. Len(s) : s[i] = t[i]
  BY <1>1 DEF Numbered
<1>3. SubSeq(s, 1, Len(s)) = SubSeq(t, 1, Len(s))
  BY <1>1, <1>2
<1> QED
  BY <1>1, <1>3 DEF Channel!IsPrefix

-----------------------------------------------------------------------------
(* Types. *)

Raised == [signal : Signal, arg : 0 .. MaxNet]

LEMMA WordsType == Said \in Raised /\ Bye \in Raised
BY ThreadsAssumption DEF Said, Bye, Raise, Raised, Signal

LEMMA PushType ==
  ASSUME TypeOK, NEW t \in Thread, Push(t)
  PROVE  TypeOK'
<1>1. raising[t] \in Seq(Raised) /\ raising[t] # << >>
  BY DEF TypeOK, Push, Raised
<1>2. PICK r \in Raised : r = Head(raising[t])
  BY <1>1
<1>3. r.signal \in Signal /\ r.arg \in 0 .. MaxNet
  BY DEF Raised
<1>4. /\ pending' = [pending EXCEPT ![r.signal] = Append(@, r.arg)]
      /\ alerting' = [alerting EXCEPT ![t] = r.signal]
      /\ raising' = [raising EXCEPT ![t] = Tail(raising[t])]
      /\ UNCHANGED << flushing, alerts, gui, io, timer, client, read, dials, sent, got >>
  BY <1>2 DEF Push, Will
<1>5. pending' \in [Signal -> Seq(0 .. MaxNet)]
  <2>1. pending[r.signal] \in Seq(0 .. MaxNet)
    BY <1>3 DEF TypeOK
  <2>2. Append(pending[r.signal], r.arg) \in Seq(0 .. MaxNet)
    BY <1>3, <2>1, AppendProperties
  <2> QED
    BY <1>3, <1>4, <2>2 DEF TypeOK
<1>6. raising' \in [Thread -> Seq(Raised)]
  <2>1. Tail(raising[t]) \in Seq(Raised)
    BY <1>1
  <2> QED
    BY <1>4, <2>1 DEF TypeOK, Raised
<1>7. alerting' \in [Thread -> Signal \cup {None}]
  BY <1>3, <1>4 DEF TypeOK
<1> QED
  BY ZenonT(40), <1>4, <1>5, <1>6, <1>7 DEF TypeOK, Raised

LEMMA AlertType ==
  ASSUME TypeOK, NEW t \in Thread, Alert(t)
  PROVE  TypeOK'
<1>1. alerting[t] \in Signal
  BY DEF TypeOK, Alert
<1>2. alerts' \in Seq(Signal)
  <2>1. alerts \in Seq(Signal) /\ alerts' = Append(alerts, alerting[t])
    BY DEF TypeOK, Alert
  <2> QED
    BY <1>1, <2>1, AppendProperties
<1>3. alerting' \in [Thread -> Signal \cup {None}]
  BY DEF TypeOK, Alert
<1> QED
  BY ZenonT(40), <1>2, <1>3 DEF TypeOK, Alert, history

LEMMA FlushType == TypeOK /\ Flush => TypeOK'
<1> SUFFICES ASSUME TypeOK, Flush
             PROVE  TypeOK'
  OBVIOUS
<1>1. Head(alerts) \in Signal /\ Tail(alerts) \in Seq(Signal)
  BY DEF TypeOK, Flush
<1> QED
  BY <1>1 DEF TypeOK, Flush, history

\* A call leaves its list.
LEMMA CallsType ==
  ASSUME TypeOK, NEW s \in Signal, Calls(s)
  PROVE  /\ Head(pending[s]) \in 0 .. MaxNet
         /\ pending' \in [Signal -> Seq(0 .. MaxNet)]
         /\ pending'[s] = Tail(pending[s])
         /\ \A u \in Signal : u # s => pending'[u] = pending[u]
         /\ UNCHANGED << flushing, alerts, alerting, io, timer, client, read, dials, sent >>
         /\ gui = "loop" /\ flushing = s /\ pending[s] # << >> /\ Through("gui")
<1>1. pending[s] \in Seq(0 .. MaxNet) /\ pending[s] # << >>
  BY DEF TypeOK, Calls
<1>2. Head(pending[s]) \in 0 .. MaxNet /\ Tail(pending[s]) \in Seq(0 .. MaxNet)
  BY <1>1, HeadTailProperties
<1>3. pending' = [pending EXCEPT ![s] = Tail(pending[s])]
  BY DEF Calls
<1>4. pending' \in [Signal -> Seq(0 .. MaxNet)]
  BY <1>2, <1>3 DEF TypeOK
<1>5. pending'[s] = Tail(pending[s]) /\ \A u \in Signal : u # s => pending'[u] = pending[u]
  BY <1>3 DEF TypeOK
<1> QED
  BY <1>2, <1>4, <1>5 DEF Calls

\* The steps in which a thread plans to raise its signals.
LEMMA WillType ==
  ASSUME TypeOK, NEW t \in Thread, NEW q \in Seq(Raised), Will(t, q)
  PROVE  /\ raising' \in [Thread -> Seq(Raised)] /\ raising'[t] = q
         /\ \A u \in Thread : u # t => raising'[u] = raising[u]
BY DEF TypeOK, Will, Raised

\* The numbers of the messages of a read.
LEMMA FreshType ==
  ASSUME TypeOK, Numbered(sent, 0), NEW n \in 1 .. MaxInRead, Len(sent) + n <= MaxNet,
         HandleRead(n)
  PROVE  /\ Numbered(sent', 0) /\ Len(sent') = Len(sent) + n /\ Len(sent) \in Nat
         /\ raising'["io"] \in Seq(Raised) /\ Len(raising'["io"]) = n
         /\ \A i \in 1 .. n : raising'["io"][i] = Raise("net", Len(sent) + i)
         /\ raising' \in [Thread -> Seq(Raised)] /\ raising'["gui"] = raising["gui"]
<1>1. Len(sent) \in Nat /\ n \in Nat /\ sent \in Seq(1 .. MaxNet) /\ MaxNet \in Nat
  BY ThreadsAssumption DEF Numbered
<1>2. PICK fresh : fresh = [i \in 1 .. n |-> Len(sent) + i]
  OBVIOUS
<1>3. /\ sent' = sent \o fresh
      /\ Will("io", [i \in 1 .. n |-> Raise("net", fresh[i])])
  BY <1>2 DEF HandleRead
<1>4. PICK q : q = [i \in 1 .. n |-> Raise("net", fresh[i])]
  OBVIOUS
<1>5. \A i \in 1 .. n : fresh[i] = Len(sent) + i /\ Len(sent) + i \in 1 .. MaxNet
  BY <1>1, <1>2
<1>6. fresh \in Seq(1 .. MaxNet) /\ Len(fresh) = n
  BY <1>1, <1>2, <1>5
<1>7. sent' \in Seq(1 .. MaxNet) /\ Len(sent') = Len(sent) + n
  BY <1>1, <1>3, <1>6, ConcatProperties
<1>8. \A i \in 1 .. Len(sent) + n : sent'[i] = IF i <= Len(sent) THEN sent[i] ELSE fresh[i - Len(sent)]
  BY <1>1, <1>3, <1>6
<1>9. Numbered(sent', 0)
  <2> SUFFICES ASSUME NEW i \in 1 .. Len(sent) + n
               PROVE  sent'[i] = i
    BY <1>1, <1>7 DEF Numbered
  <2>1. CASE i <= Len(sent)
    BY <1>1, <1>8, <2>1 DEF Numbered
  <2>2. CASE i > Len(sent)
    <3>1. PICK j \in 1 .. n : j = i - Len(sent) /\ Len(sent) + j = i
      BY <1>1, <2>2
    <3> QED
      BY <1>1, <1>5, <1>8, <2>2, <3>1
  <2> QED
    BY <1>1, <2>1, <2>2
<1>10. \A i \in 1 .. n : q[i] = Raise("net", Len(sent) + i) /\ q[i] \in Raised
  BY <1>1, <1>4, <1>5 DEF Raise, Raised, Signal
<1>11. q \in Seq(Raised) /\ Len(q) = n
  BY <1>1, <1>4, <1>10
<1>12. Will("io", q)
  BY <1>3, <1>4
<1> QED
  BY <1>1, <1>7, <1>9, <1>10, <1>11, <1>12, WillType DEF Thread

\* The steps that raise nothing and call nothing.
Quiet == \/ Flushed \/ HangUp \/ Connect \/ Interrupt \/ Join \/ StartThread
         \/ ContinueRead \/ TimerExpired \/ WaitAgain \/ TimerInterrupted \/ RunEnds
         \/ ReadCompletes \/ ConnectionBreaks \/ SecondPasses \/ UNCHANGED vars

LEMMA QuietType == TypeOK /\ Quiet => TypeOK'
<1> SUFFICES ASSUME TypeOK, Quiet
             PROVE  TypeOK'
  OBVIOUS
<1>1. CASE Flushed
  BY <1>1 DEF TypeOK, Flushed, calls, history
<1>2. CASE HangUp
  BY <1>2 DEF TypeOK, HangUp, calls, history, ReadClosed
<1>3. CASE Connect
  BY <1>3 DEF TypeOK, Connect, calls, history
<1>4. CASE Interrupt
  BY <1>4 DEF TypeOK, Interrupt, calls, history
<1>5. CASE Join
  BY <1>5 DEF TypeOK, Join, calls, history
<1>6. CASE StartThread
  BY <1>6 DEF TypeOK, StartThread, calls, history
<1>7. CASE ContinueRead
  BY <1>7 DEF TypeOK, ContinueRead, calls, history
<1>8. CASE TimerExpired
  BY <1>8 DEF TypeOK, TimerExpired, calls, history, Free
<1>9. CASE WaitAgain
  BY <1>9 DEF TypeOK, WaitAgain, calls, history
<1>10. CASE TimerInterrupted
  BY <1>10 DEF TypeOK, TimerInterrupted, calls, history, Free
<1>11. CASE RunEnds
  BY <1>11 DEF TypeOK, RunEnds, calls, history, Free
<1>12. CASE ReadCompletes
  BY <1>12 DEF TypeOK, ReadCompletes, calls, history
<1>13. CASE ConnectionBreaks
  BY ZenonT(40), <1>13 DEF TypeOK, ConnectionBreaks, calls, history
<1>14. CASE SecondPasses
  BY <1>14 DEF TypeOK, SecondPasses, calls, history
<1>15. CASE UNCHANGED vars
  BY ZenonT(40), <1>15 DEF TypeOK, vars
<1> QED
  BY <1>1, <1>2, <1>3, <1>4, <1>5, <1>6, <1>7, <1>8, <1>9, <1>10, <1>11, <1>12, <1>13, <1>14, <1>15 DEF Quiet

\* What the GUI thread says in turn.
LEMMA GuiSays ==
  ASSUME TypeOK, NEW words \in {<< >>, << Said >>}, Will("gui", words)
  PROVE  /\ raising' \in [Thread -> Seq(Raised)]
         /\ raising'["gui"] \in {<< >>, << Said >>} /\ raising'["io"] = raising["io"]
<1>1. << >> \in Seq(Raised) /\ << Said >> \in Seq(Raised)
  BY WordsType
<1>2. words \in Seq(Raised)
  BY <1>1
<1> QED
  BY <1>2, WillType DEF Thread

LEMMA SaysType ==
  ASSUME TypeOK, Dial \/ ConnectFails \/ Quit
  PROVE  TypeOK' /\ raising'["io"] = raising["io"]
         /\ raising'["gui"] \in {raising["gui"], << Said >>}
<1>0. Will("gui", << Said >>) => /\ raising' \in [Thread -> Seq(Raised)]
                                 /\ raising'["gui"] = << Said >>
                                 /\ raising'["io"] = raising["io"]
  <2> SUFFICES ASSUME Will("gui", << Said >>)
               PROVE  /\ raising' \in [Thread -> Seq(Raised)]
                      /\ raising'["gui"] = << Said >>
                      /\ raising'["io"] = raising["io"]
    OBVIOUS
  <2>1. << Said >> \in Seq(Raised)
    BY WordsType
  <2> QED
    BY <2>1, WillType DEF Thread
<1>1. CASE Dial
  <2>1. Will("gui", << Said >>)
    BY <1>1 DEF Dial
  <2>2. dials' \in 0 .. MaxDials
    BY <1>1, ThreadsAssumption DEF Dial, TypeOK
  <2> QED
    BY <1>0, <1>1, <2>1, <2>2 DEF Dial, TypeOK, Raised, history
<1>2. CASE ConnectFails
  BY <1>0, <1>2 DEF ConnectFails, TypeOK, Raised, history
<1>3. CASE Quit
  BY <1>0, <1>3 DEF Quit, TypeOK, Raised, history
<1> QED
  BY <1>1, <1>2, <1>3

LEMMA ReadErrorType ==
  ASSUME TypeOK, HandleReadError
  PROVE  /\ TypeOK' /\ raising'["io"] = << Said, Bye >> /\ raising'["gui"] = raising["gui"]
<1>1. << Said, Bye >> \in Seq(Raised) /\ Will("io", << Said, Bye >>)
  BY WordsType DEF HandleReadError, Bye
<1>2. /\ raising' \in [Thread -> Seq(Raised)] /\ raising'["io"] = << Said, Bye >>
      /\ raising'["gui"] = raising["gui"]
  BY <1>1, WillType DEF Thread
<1> QED
  BY <1>2 DEF HandleReadError, TypeOK, Raised, history

LEMMA ReadType ==
  ASSUME TypeOK, Numbered(sent, 0), NEW n \in 1 .. MaxInRead, Len(sent) + n <= MaxNet,
         HandleRead(n)
  PROVE  TypeOK'
BY FreshType DEF HandleRead, TypeOK, Raised, Numbered

\* The calls flush makes.
LEMMA CallType ==
  ASSUME TypeOK, Numbered(pending["net"], Len(got)),
         WriteMessage \/ HandleNetMessage \/ Disconnect
  PROVE  TypeOK' /\ raising'["io"] = raising["io"]
         /\ raising'["gui"] \in {raising["gui"], << >>, << Said >>}
<1>1. CASE WriteMessage
  BY ZenonT(40), <1>1, CallsType DEF WriteMessage, TypeOK, Signal
<1>2. CASE HandleNetMessage
  <2>1. PICK words \in {<< >>, << Said >>} : Will("gui", words)
    BY <1>2 DEF HandleNetMessage
  <2>2. Calls("net")
    BY <1>2 DEF HandleNetMessage
  <2>3. Head(pending["net"]) \in 1 .. MaxNet
    <3>1. pending["net"] \in Seq(1 .. MaxNet) /\ pending["net"] # << >>
      BY <2>2 DEF Calls, Numbered
    <3> QED
      BY <3>1, HeadTailProperties
  <2>4. got' \in Seq(1 .. MaxNet)
    <3>1. got \in Seq(1 .. MaxNet) /\ got' = Append(got, Head(pending["net"]))
      BY <1>2 DEF TypeOK, HandleNetMessage
    <3> QED
      BY <2>3, <3>1, AppendProperties
  <2> QED
    BY ZenonT(40), <1>2, <2>1, <2>2, <2>4, CallsType, GuiSays DEF HandleNetMessage, TypeOK, Raised, Signal
<1>3. CASE Disconnect
  <2>1. Calls("disconnect") /\ UNCHANGED got
    BY <1>3 DEF Disconnect
  <2>2. \/ Will("gui", << Said >>) /\ gui' = "hanging up"
        \/ UNCHANGED << raising, gui >>
    BY <1>3 DEF Disconnect
  <2> QED
    BY ZenonT(40), <2>1, <2>2, CallsType, GuiSays DEF TypeOK, Raised, Signal
<1> QED
  BY <1>1, <1>2, <1>3

-----------------------------------------------------------------------------
(* The pipe. *)

LEMMA PipeOn ==
  ASSUME NEW a \in Seq(Signal), NEW x \in Signal, NEW b, b = Append(a, x)
  PROVE  /\ HasBye(b) <=> HasBye(a) \/ x = "disconnect"
         /\ Ahead(a) => Ahead(b)
         /\ x = "net" /\ ~HasBye(a) => Ahead(b)
         /\ Single(a) /\ (x = "disconnect" => ~HasBye(a)) => Single(b)
<1>1. Len(a) \in Nat /\ Len(b) = Len(a) + 1
  BY AppendProperties
<1>2. b[Len(a) + 1] = x /\ \A i \in 1 .. Len(a) : b[i] = a[i]
  BY AppendProperties
<1>3. \A i \in 1 .. Len(b) : i \in 1 .. Len(a) \/ i = Len(a) + 1
  BY <1>1
<1>4. Len(a) + 1 \in 1 .. Len(b) /\ \A i \in 1 .. Len(a) : i \in 1 .. Len(b)
  BY <1>1
<1>5. HasBye(b) <=> HasBye(a) \/ x = "disconnect"
  BY <1>2, <1>3, <1>4 DEF HasBye
<1>6. Ahead(a) => Ahead(b)
  <2> SUFFICES ASSUME NEW i \in 1 .. Len(a), a[i] = "net",
                      \A j \in 1 .. i - 1 : a[j] # "disconnect"
               PROVE  Ahead(b)
    BY DEF Ahead
  <2>1. \A j \in 1 .. i - 1 : j \in 1 .. Len(a)
    BY <1>1
  <2>2. \A j \in 1 .. i - 1 : b[j] # "disconnect"
    BY <1>2, <2>1
  <2> QED
    BY <1>2, <1>4, <2>2 DEF Ahead
<1>7. x = "net" /\ ~HasBye(a) => Ahead(b)
  <2> SUFFICES ASSUME x = "net", ~HasBye(a)
               PROVE  Ahead(b)
    OBVIOUS
  <2>1. (Len(a) + 1) - 1 = Len(a)
    BY <1>1
  <2>2. \A j \in 1 .. Len(a) : b[j] # "disconnect"
    BY <1>2 DEF HasBye
  <2> QED
    BY <1>2, <1>4, <2>1, <2>2 DEF Ahead
<1>8. Single(a) /\ (x = "disconnect" => ~HasBye(a)) => Single(b)
  BY <1>2, <1>3 DEF Single, HasBye
<1> QED
  BY <1>5, <1>6, <1>7, <1>8

LEMMA PipeOff ==
  ASSUME NEW a \in Seq(Signal), a # << >>, NEW b, b = Tail(a)
  PROVE  /\ Head(a) \in Signal
         /\ HasBye(b) => HasBye(a)
         /\ Head(a) = "disconnect" => HasBye(a) /\ ~Ahead(a)
         /\ Head(a) = "disconnect" /\ Single(a) => ~HasBye(b)
         /\ Ahead(a) => Head(a) = "net" \/ Ahead(b)
         /\ Single(a) => Single(b)
<1>1. /\ Len(a) \in Nat /\ Len(a) >= 1 /\ Len(b) = Len(a) - 1
      /\ Head(a) = a[1] /\ a[1] \in Signal
  OBVIOUS
<1>2. \A i \in 1 .. Len(b) : b[i] = a[i + 1]
  BY HeadTailProperties
<1>3. \A i \in 1 .. Len(b) : i + 1 \in 1 .. Len(a) /\ i + 1 # 1
  BY <1>1
<1>4. HasBye(b) => HasBye(a)
  BY <1>2, <1>3 DEF HasBye
<1>5. Head(a) = "disconnect" => HasBye(a)
  BY <1>1 DEF HasBye
<1>6. Head(a) = "disconnect" => ~Ahead(a)
  <2> SUFFICES ASSUME a[1] = "disconnect", NEW i \in 1 .. Len(a), a[i] = "net",
                      \A j \in 1 .. i - 1 : a[j] # "disconnect"
               PROVE  FALSE
    BY <1>1 DEF Ahead
  <2>1. i # 1
    OBVIOUS
  <2>2. 1 \in 1 .. i - 1
    BY <2>1
  <2> QED
    BY <2>2
<1>7. Head(a) = "disconnect" /\ Single(a) => ~HasBye(b)
  <2>1. 1 \in 1 .. Len(a)
    BY <1>1
  <2> QED
    BY <1>1, <1>2, <1>3, <2>1 DEF HasBye, Single
<1>8. Ahead(a) => Head(a) = "net" \/ Ahead(b)
  <2> SUFFICES ASSUME NEW i \in 1 .. Len(a), a[i] = "net", a[1] # "net",
                      \A j \in 1 .. i - 1 : a[j] # "disconnect"
               PROVE  Ahead(b)
    BY <1>1 DEF Ahead
  <2>1. i # 1
    OBVIOUS
  <2>2. PICK k \in 1 .. Len(b) : k = i - 1 /\ i = k + 1
    BY <1>1, <2>1
  <2>3. b[k] = "net"
    BY <1>2, <2>2
  <2>4. \A j \in 1 .. k - 1 : j + 1 \in 1 .. i - 1 /\ j \in 1 .. Len(b)
    BY <1>1, <2>2
  <2>5. \A j \in 1 .. k - 1 : b[j] # "disconnect"
    BY <1>2, <2>4
  <2> QED
    BY <2>3, <2>5 DEF Ahead
<1>9. Single(a) => Single(b)
  <2> SUFFICES ASSUME Single(a), NEW i \in 1 .. Len(b), NEW j \in 1 .. Len(b),
                      b[i] = "disconnect", b[j] = "disconnect"
               PROVE  i = j
    BY DEF Single
  <2>1. i + 1 \in 1 .. Len(a) /\ j + 1 \in 1 .. Len(a) /\ a[i + 1] = "disconnect" /\ a[j + 1] = "disconnect"
    BY <1>2, <1>3
  <2>2. i + 1 = j + 1
    BY <2>1 DEF Single
  <2> QED
    BY <2>2
<1> QED
  BY <1>1, <1>4, <1>5, <1>6, <1>7, <1>8, <1>9

-----------------------------------------------------------------------------
(* The invariant, step by step. *)

LEMMA WordsDiffer ==
  /\ << Said, Bye >> # << >> /\ << Bye >> # << >> /\ << Said >> # << >>
  /\ << Said, Bye >> # << Bye >>
  /\ Head(<< Said, Bye >>) = Said /\ Tail(<< Said, Bye >>) = << Bye >>
  /\ Head(<< Bye >>) = Bye /\ Tail(<< Bye >>) = << >>
  /\ Head(<< Said >>) = Said /\ Tail(<< Said >>) = << >>
  /\ Said.signal = "message" /\ Bye.signal = "disconnect" /\ Bye.arg = 0
BY DEF Said, Bye, Raise

\* A list of messages to raise is none of words.
LEMMA NetsDiffer ==
  ASSUME NEW q \in Seq(Raised), NEW n,
         \A i \in 1 .. Len(q) : q[i] = Raise("net", n + i)
  PROVE  q \notin {<< Said, Bye >>, << Bye >>}
<1> SUFFICES ASSUME q = << Said, Bye >> \/ q = << Bye >>
             PROVE  FALSE
  OBVIOUS
<1>1. 1 \in 1 .. Len(q) /\ q[1] \in {Said, Bye}
  OBVIOUS
<1>2. q[1] = Raise("net", n + 1)
  BY <1>1
<1>3. Said.signal # "net" /\ Bye.signal # "net" /\ Raise("net", n + 1).signal = "net"
  BY DEF Said, Bye, Raise
<1> QED
  BY <1>1, <1>2, <1>3

LEMMA PushGuiKeeps ==
  ASSUME IInv, Push("gui")
  PROVE  Inv'
<1>1. raising["gui"] = << Said >> /\ alerting["gui"] = None
  BY DEF IInv, Inv, Books, Push
<1>2. /\ pending' = [pending EXCEPT !["message"] = Append(@, Said.arg)]
      /\ alerting' = [alerting EXCEPT !["gui"] = "message"]
      /\ raising' = [raising EXCEPT !["gui"] = << >>]
      /\ UNCHANGED << flushing, alerts, gui, io, client, read, sent, got >>
  BY <1>1, WordsDiffer DEF Push, Will
<1>3. /\ pending'["net"] = pending["net"] /\ pending'["disconnect"] = pending["disconnect"]
      /\ raising'["io"] = raising["io"] /\ raising'["gui"] = << >>
      /\ alerting'["io"] = alerting["io"] /\ alerting'["gui"] = "message"
  BY <1>2 DEF IInv, TypeOK, Signal, Thread
<1>4. Books'
  BY <1>2, <1>3 DEF IInv, Inv, Books, Handed, Numbered
<1>5. Once' /\ InTurn' /\ Calm'
  BY <1>2, <1>3 DEF IInv, Inv, Once, InTurn, Calm, Active, Parted, AtIo, AtMutex, InPipe, AtGui
<1> QED
  BY <1>4, <1>5 DEF Inv

LEMMA PushReadKeeps ==
  ASSUME IInv, Push("io"), io = "reading"
  PROVE  Inv'
<1> DEFINE q == raising["io"]
<1>1. /\ q \in Seq(Raised) /\ q # << >> /\ alerting["io"] = None
      /\ Handed + Len(q) = Len(sent)
      /\ \A i \in 1 .. Len(q) : q[i] = Raise("net", Handed + i)
  BY DEF IInv, Inv, Books, TypeOK, Raised, Thread, Push
<1>2. /\ Len(got) \in Nat /\ Len(pending["net"]) \in Nat /\ Handed \in Nat
      /\ Handed = Len(got) + Len(pending["net"])
      /\ Numbered(pending["net"], Len(got)) /\ Len(sent) \in Nat
  BY DEF IInv, Inv, Books, Numbered, Handed
<1>3. /\ Len(q) \in Nat /\ Len(q) >= 1 /\ Head(q) = Raise("net", Handed + 1)
      /\ Len(Tail(q)) = Len(q) - 1
  BY <1>1
<1>4. \A i \in 1 .. Len(Tail(q)) : Tail(q)[i] = Raise("net", Handed + 1 + i)
  <2> TAKE i \in 1 .. Len(Tail(q))
  <2>1. Tail(q)[i] = q[i + 1] /\ i + 1 \in 1 .. Len(q)
    BY <1>1, <1>3, HeadTailProperties
  <2>2. i \in Nat
    BY <1>3
  <2>3. \A m \in Nat : m + (i + 1) = m + 1 + i
    BY <2>2
  <2> QED
    BY <1>1, <1>2, <2>1, <2>3
<1>5. Handed + 1 \in 1 .. MaxNet
  <2>1. Head(q) \in Raised
    BY <1>1, HeadTailProperties
  <2>2. Raise("net", Handed + 1).arg \in 0 .. MaxNet
    BY <1>3, <2>1 DEF Raised
  <2>3. Handed + 1 \in 0 .. MaxNet
    BY <2>2 DEF Raise
  <2> QED
    BY <1>2, <2>3
<1>6. /\ pending' = [pending EXCEPT !["net"] = Append(@, Handed + 1)]
      /\ alerting' = [alerting EXCEPT !["io"] = "net"]
      /\ raising' = [raising EXCEPT !["io"] = Tail(q)]
      /\ UNCHANGED << flushing, alerts, gui, io, client, read, sent, got >>
  <2>1. PICK r : r = Head(q) /\ r.signal = "net" /\ r.arg = Handed + 1
    BY <1>3 DEF Raise
  <2> QED
    BY <2>1 DEF Push, Will
<1>7. /\ pending'["net"] = Append(pending["net"], Handed + 1)
      /\ pending'["disconnect"] = pending["disconnect"]
      /\ raising'["io"] = Tail(q) /\ raising'["gui"] = raising["gui"]
      /\ alerting'["io"] = "net" /\ alerting'["gui"] = alerting["gui"]
  BY <1>6 DEF IInv, TypeOK, Signal, Thread
<1> HIDE DEF q
<1>8. Numbered(pending'["net"], Len(got)) /\ Len(pending'["net"]) = Len(pending["net"]) + 1
  BY ZenonT(40), <1>2, <1>5, <1>7, NumberedOn
<1>9. Handed' = Handed + 1
  BY <1>2, <1>6, <1>8 DEF Handed
<1>10. Books'
  <2>1. Handed' + Len(raising'["io"]) = Len(sent')
    <3>1. Len(raising'["io"]) = Len(q) - 1 /\ sent' = sent
      BY <1>3, <1>6, <1>7
    <3>2. \A m, n \in Nat : m + 1 + (n - 1) = m + n
      OBVIOUS
    <3>3. Handed' + Len(raising'["io"]) = Handed + Len(q)
      BY <1>2, <1>3, <1>9, <3>1, <3>2
    <3> QED
      BY <1>1, <3>1, <3>3
  <2>2. \A i \in 1 .. Len(raising'["io"]) : raising'["io"][i] = Raise("net", Handed' + i)
    BY <1>4, <1>7, <1>9
  <2>3. Numbered(sent', 0) /\ Numbered(got', 0) /\ Numbered(pending'["net"], Len(got'))
    BY <1>6, <1>8 DEF IInv, Inv, Books
  <2>4. io' = "reading" /\ raising'["gui"] \in {<< >>, << Said >>} /\ alerting'["gui"] \in {None, "message"}
    BY <1>6, <1>7 DEF IInv, Inv, Books
  <2> QED
    BY <2>1, <2>2, <2>3, <2>4, <1>7 DEF Books
<1>11. ~AtIo'
  <2>1. Tail(q) \in Seq(Raised)
    BY <1>1, HeadTailProperties
  <2> QED
    BY <2>1, <1>4, <1>7, NetsDiffer DEF AtIo
<1>12. ~AtIo /\ ~AtMutex /\ ~InPipe /\ ~AtGui
  BY DEF IInv, Inv, Calm, Active, Parted
<1>13. Once' /\ InTurn' /\ Calm'
  BY <1>6, <1>7, <1>11, <1>12 DEF IInv, Inv, Once, InTurn, Calm, Active, Parted, AtMutex, InPipe, AtGui
<1> QED
  BY <1>10, <1>13 DEF Inv

LEMMA PushByeKeeps ==
  ASSUME IInv, Push("io"), io # "reading"
  PROVE  Inv'
<1>1. /\ raising["io"] \in {<< Said, Bye >>, << Bye >>} /\ alerting["io"] = None
      /\ AtIo /\ ~AtMutex /\ ~InPipe /\ ~AtGui /\ ~Active /\ pending["disconnect"] = << >>
  BY DEF IInv, Inv, Books, Push, Once, Calm, Parted, AtIo
<1>2. UNCHANGED << flushing, alerts, gui, io, client, read, sent, got >>
  BY DEF Push
<1>3. CASE raising["io"] = << Said, Bye >>
  <2>1. /\ pending' = [pending EXCEPT !["message"] = Append(@, Said.arg)]
        /\ alerting' = [alerting EXCEPT !["io"] = "message"]
        /\ raising' = [raising EXCEPT !["io"] = << Bye >>]
    BY <1>3, WordsDiffer DEF Push, Will
  <2>2. /\ pending'["net"] = pending["net"] /\ pending'["disconnect"] = << >>
        /\ raising'["io"] = << Bye >> /\ raising'["gui"] = raising["gui"]
        /\ alerting'["io"] = "message" /\ alerting'["gui"] = alerting["gui"]
    BY <1>1, <2>1 DEF IInv, TypeOK, Signal, Thread
  <2>3. Books'
    BY <1>2, <2>2 DEF IInv, Inv, Books, Handed, Numbered
  <2>4. ~AtMutex' /\ ~InPipe' /\ ~AtGui' /\ ~Active'
    BY <1>1, <1>2, <2>2 DEF AtMutex, InPipe, AtGui, Active
  <2>5. Once'
    BY <1>2, <2>2, <2>4 DEF IInv, Inv, Once
  <2>6. InTurn'
    BY <1>1, <1>2, <2>2, <2>4 DEF IInv, Inv, InTurn, None
  <2>7. Calm'
    BY <1>1, <1>2, <2>2, <2>4 DEF IInv, Inv, Calm
  <2> QED
    BY <2>3, <2>5, <2>6, <2>7 DEF Inv
<1>4. CASE raising["io"] = << Bye >>
  <2>1. /\ pending' = [pending EXCEPT !["disconnect"] = Append(@, 0)]
        /\ alerting' = [alerting EXCEPT !["io"] = "disconnect"]
        /\ raising' = [raising EXCEPT !["io"] = << >>]
    BY <1>4, WordsDiffer DEF Push, Will
  <2>0. Append(<< >>, 0) = << 0 >>
    OBVIOUS
  <2>2. /\ pending'["net"] = pending["net"]
        /\ pending'["disconnect"] = << 0 >>
        /\ raising'["io"] = << >> /\ raising'["gui"] = raising["gui"]
        /\ alerting'["io"] = "disconnect" /\ alerting'["gui"] = alerting["gui"]
    BY <1>1, <2>0, <2>1 DEF IInv, TypeOK, Signal, Thread
  <2>3. Books'
    BY <1>1, <1>2, <2>2 DEF IInv, Inv, Books, Handed, Numbered
  <2>4. ~AtIo' /\ AtMutex'
    BY <2>2, WordsDiffer DEF AtIo, AtMutex
  <2>5. ~InPipe' /\ ~AtGui' /\ ~Active'
    BY <1>1, <1>2 DEF InPipe, AtGui, Active
  <2>6. Once'
    BY <1>2, <2>2, <2>4, <2>5 DEF IInv, Inv, Once
  <2>7. InTurn'
    BY <1>1, <1>2, <2>2, <2>5 DEF IInv, Inv, InTurn, None
  <2>8. Calm'
    BY <1>1, <1>2, <2>2, <2>5 DEF IInv, Inv, Calm
  <2> QED
    BY <2>3, <2>6, <2>7, <2>8 DEF Inv
<1> QED
  BY <1>1, <1>3, <1>4

LEMMA NetsAreRead ==
  ASSUME IInv, alerting["io"] = "net"
  PROVE  ~AtIo /\ ~AtMutex /\ ~InPipe /\ ~AtGui
<1>1. io = "reading"
  BY DEF IInv, Inv, Books, None
<1> QED
  BY <1>1 DEF IInv, Inv, Calm, Active, Parted

LEMMA AlertGuiKeeps ==
  ASSUME IInv, Alert("gui")
  PROVE  Inv'
<1>1. alerting["gui"] = "message"
  BY DEF IInv, Inv, Books, Alert
<1>2. /\ alerts \in Seq(Signal) /\ "message" \in Signal /\ alerts' = Append(alerts, "message")
      /\ alerting' = [alerting EXCEPT !["gui"] = None]
      /\ UNCHANGED << pending, flushing, raising, gui, io, client, read, sent, got >>
  BY <1>1 DEF IInv, TypeOK, Alert, history, Signal
<1>3. alerting'["io"] = alerting["io"] /\ alerting'["gui"] = None
  BY <1>2 DEF IInv, TypeOK, Thread
<1>4. /\ HasBye(alerts') <=> HasBye(alerts)
      /\ Ahead(alerts) => Ahead(alerts')
      /\ Single(alerts) => Single(alerts')
  BY <1>2, PipeOn
<1>5. Books'
  BY <1>2, <1>3 DEF IInv, Inv, Books, Handed, Numbered
<1>6. /\ AtIo' <=> AtIo
      /\ AtMutex' <=> AtMutex
      /\ InPipe' <=> InPipe
      /\ AtGui' <=> AtGui
      /\ Active' <=> Active
  BY <1>2, <1>3, <1>4 DEF AtIo, AtMutex, InPipe, AtGui, Active
<1>7. Once'
  BY <1>2, <1>4, <1>6 DEF IInv, Inv, Once
<1>8. InTurn'
  BY <1>2, <1>3, <1>4, <1>6 DEF IInv, Inv, InTurn
<1>9. Calm'
  BY <1>2, <1>6 DEF IInv, Inv, Calm, Parted
<1> QED
  BY <1>5, <1>7, <1>8, <1>9 DEF Inv

LEMMA AlertIoKeeps ==
  ASSUME IInv, Alert("io")
  PROVE  Inv'
<1>1. PICK x \in Signal : x = alerting["io"]
  BY DEF IInv, TypeOK, Alert, Thread
<1>2. /\ alerts \in Seq(Signal) /\ alerts' = Append(alerts, x)
      /\ alerting' = [alerting EXCEPT !["io"] = None]
      /\ UNCHANGED << pending, flushing, raising, gui, io, client, read, sent, got >>
  BY <1>1 DEF IInv, TypeOK, Alert, history
<1>3. alerting'["gui"] = alerting["gui"] /\ alerting'["io"] = None
  BY <1>2 DEF IInv, TypeOK, Thread
<1>4. AtMutex <=> x = "disconnect"
  BY <1>1 DEF AtMutex
<1>5. AtMutex => ~AtIo /\ ~InPipe /\ ~AtGui
  BY DEF IInv, Inv, Once
<1>6. x = "net" => ~InPipe
  BY <1>1, NetsAreRead
<1>7. /\ HasBye(alerts') <=> InPipe \/ AtMutex
      /\ Ahead(alerts) \/ x = "net" => Ahead(alerts')
      /\ Single(alerts')
  <2>1. Single(alerts)
    BY DEF IInv, Inv, Once
  <2> QED
    BY <1>2, <1>4, <1>5, <1>6, <2>1, PipeOn DEF InPipe
<1>8. Books'
  BY <1>2, <1>3 DEF IInv, Inv, Books, Handed, Numbered
<1>9. /\ AtIo' <=> AtIo
      /\ ~AtMutex'
      /\ InPipe' <=> InPipe \/ AtMutex
      /\ AtGui' <=> AtGui
      /\ Active' <=> Active
  BY <1>2, <1>3, <1>7 DEF AtIo, AtMutex, InPipe, AtGui, Active, None
<1>10. Once'
  BY <1>2, <1>5, <1>7, <1>9 DEF IInv, Inv, Once
<1>11. InTurn'
  BY <1>1, <1>2, <1>3, <1>7, <1>9 DEF IInv, Inv, InTurn
<1>12. Calm'
  BY <1>2, <1>9 DEF IInv, Inv, Calm, Parted
<1> QED
  BY <1>8, <1>10, <1>11, <1>12 DEF Inv

LEMMA FlushKeeps ==
  ASSUME IInv, Flush
  PROVE  Inv'
<1>1. /\ alerts \in Seq(Signal) /\ alerts # << >> /\ alerts' = Tail(alerts)
      /\ flushing = None /\ flushing' = Head(alerts) /\ gui = "loop"
      /\ UNCHANGED << pending, raising, alerting, gui, io, client, read, sent, got >>
  BY DEF IInv, TypeOK, Flush, history
<1>2. PICK x \in Signal : x = Head(alerts)
  BY <1>1, PipeOff
<1>3. /\ HasBye(alerts') => InPipe
      /\ x = "disconnect" => InPipe /\ ~Ahead(alerts) /\ ~HasBye(alerts')
      /\ Ahead(alerts) => x = "net" \/ Ahead(alerts')
      /\ Single(alerts')
  <2>1. Single(alerts)
    BY DEF IInv, Inv, Once
  <2> QED
    BY <1>1, <1>2, <2>1, PipeOff DEF InPipe
<1>4. HasBye(alerts') \/ x = "disconnect" <=> InPipe
  <2>1. Len(alerts) \in Nat /\ Head(alerts) = alerts[1] /\ Len(alerts') = Len(alerts) - 1
    BY <1>1
  <2>2. \A i \in 1 .. Len(alerts') : alerts'[i] = alerts[i + 1]
    BY <1>1, HeadTailProperties
  <2>3. ASSUME NEW i \in 1 .. Len(alerts), alerts[i] = "disconnect", i # 1
        PROVE  HasBye(alerts')
    <3>1. PICK j \in 1 .. Len(alerts') : j + 1 = i
      BY <2>1, <2>3
    <3> QED
      BY <2>2, <2>3, <3>1 DEF HasBye
  <2> QED
    BY <1>2, <1>3, <2>1, <2>3 DEF InPipe, HasBye
<1>5. ~AtGui
  BY <1>1 DEF AtGui, None
<1>6. Books'
  BY <1>1 DEF IInv, Inv, Books, Handed, Numbered
<1>7. /\ AtIo' <=> AtIo
      /\ AtMutex' <=> AtMutex
      /\ InPipe' \/ AtGui' <=> InPipe
      /\ InPipe' => ~AtGui'
      /\ Active' <=> Active
      /\ AtGui' <=> x = "disconnect"
  BY <1>1, <1>2, <1>3, <1>4 DEF AtIo, AtMutex, InPipe, AtGui, Active
<1>8. Once'
  BY <1>1, <1>3, <1>5, <1>7 DEF IInv, Inv, Once
<1>9. InTurn'
  <2> SUFFICES ASSUME pending["net"] # << >>
               PROVE  ~AtGui' /\ (flushing' = "net" \/ alerting["io"] = "net" \/ Ahead(alerts'))
    BY <1>1 DEF InTurn
  <2>1. alerting["io"] = "net" \/ Ahead(alerts)
    BY <1>1 DEF IInv, Inv, InTurn, None
  <2>2. alerting["io"] = "net" => ~InPipe
    BY NetsAreRead
  <2> QED
    BY <1>1, <1>2, <1>3, <1>7, <2>1, <2>2
<1>10. Calm'
  BY <1>1, <1>5, <1>7 DEF IInv, Inv, Calm, Parted
<1> QED
  BY <1>6, <1>8, <1>9, <1>10 DEF Inv

LEMMA FlushedKeeps ==
  ASSUME IInv, Flushed
  PROVE  Inv'
<1>1. /\ gui = "loop" /\ pending[flushing] = << >> /\ flushing # None /\ flushing' = None
      /\ UNCHANGED << pending, raising, alerting, alerts, gui, io, client, read, sent, got >>
  BY DEF Flushed, calls, history
<1>2. Books'
  BY <1>1 DEF IInv, Inv, Books, Handed, Numbered
<1>3. /\ AtIo' <=> AtIo
      /\ AtMutex' <=> AtMutex
      /\ InPipe' <=> InPipe
      /\ ~AtGui'
      /\ Active' <=> Active
  BY <1>1 DEF AtIo, AtMutex, InPipe, AtGui, Active, None
<1>4. Once'
  BY <1>1, <1>3 DEF IInv, Inv, Once, AtGui
<1>5. InTurn'
  BY <1>1, <1>3 DEF IInv, Inv, InTurn, None
<1>6. Calm'
  BY <1>1, <1>3 DEF IInv, Inv, Calm, Parted
<1> QED
  BY <1>2, <1>4, <1>5, <1>6 DEF Inv

LEMMA WriteKeeps ==
  ASSUME IInv, WriteMessage
  PROVE  Inv'
<1>1. Calls("message") /\ UNCHANGED << raising, gui, got >>
  BY DEF WriteMessage
<1>2. /\ pending'["net"] = pending["net"] /\ pending'["disconnect"] = pending["disconnect"]
      /\ UNCHANGED << flushing, alerts, alerting, raising, gui, io, client, read, sent, got >>
  BY <1>1, CallsType DEF IInv, Signal
<1>3. Books'
  BY <1>2 DEF IInv, Inv, Books, Handed, Numbered
<1>4. Once' /\ InTurn' /\ Calm'
  BY <1>2 DEF IInv, Inv, Once, InTurn, Calm, Active, Parted, AtIo, AtMutex, InPipe, AtGui
<1> QED
  BY <1>3, <1>4 DEF Inv

LEMMA NetKeeps ==
  ASSUME IInv, HandleNetMessage
  PROVE  Inv'
<1>1. /\ Calls("net") /\ got' = Append(got, Head(pending["net"])) /\ UNCHANGED gui
      /\ \E words \in {<< >>, << Said >>} : Will("gui", words)
  BY DEF HandleNetMessage
<1>2. /\ pending'["net"] = Tail(pending["net"]) /\ pending["net"] # << >>
      /\ pending'["disconnect"] = pending["disconnect"]
      /\ flushing = "net"
      /\ UNCHANGED << flushing, alerts, alerting, gui, io, client, read, sent >>
  BY <1>1, CallsType DEF IInv, Signal
<1>3. raising'["gui"] \in {<< >>, << Said >>} /\ raising'["io"] = raising["io"]
  BY <1>1, GuiSays DEF IInv
<1>4. /\ Numbered(got, 0) /\ Numbered(pending["net"], Len(got)) /\ Len(got) \in Nat
  BY DEF IInv, Inv, Books, Numbered
<1>5. /\ Head(pending["net"]) = Len(got) + 1 /\ Numbered(Tail(pending["net"]), Len(got) + 1)
      /\ Len(pending["net"]) \in Nat /\ Len(Tail(pending["net"])) = Len(pending["net"]) - 1
  BY <1>2, <1>4, NumberedOff
<1>6. Head(pending["net"]) \in 1 .. MaxNet
  <2>1. pending["net"] \in Seq(1 .. MaxNet)
    BY <1>4 DEF Numbered
  <2> QED
    BY <1>2, <2>1, HeadTailProperties
<1>7. Numbered(got', 0) /\ Len(got') = Len(got) + 1
  BY <1>1, <1>4, <1>5, <1>6, NumberedOn
<1>8. Handed' = Handed
  <2>1. \A m, n \in Nat : (m + 1) + (n - 1) = m + n
    OBVIOUS
  <2>2. Handed' = (Len(got) + 1) + (Len(pending["net"]) - 1)
    BY <1>2, <1>5, <1>7 DEF Handed
  <2> QED
    BY <1>4, <1>5, <2>1, <2>2 DEF Handed
<1>9. Books'
  <2>1. Numbered(sent', 0) /\ Numbered(pending'["net"], Len(got'))
    BY <1>2, <1>5, <1>7 DEF IInv, Inv, Books
  <2> QED
    BY <1>2, <1>3, <1>7, <1>8, <2>1 DEF IInv, Inv, Books
<1>10. /\ AtIo' <=> AtIo
       /\ AtMutex' <=> AtMutex
       /\ InPipe' <=> InPipe
       /\ ~AtGui' /\ ~AtGui
       /\ Active' <=> Active
  BY <1>2, <1>3 DEF AtIo, AtMutex, InPipe, AtGui, Active
<1>11. Once'
  BY <1>2, <1>10 DEF IInv, Inv, Once
<1>12. InTurn'
  BY <1>2, <1>10 DEF InTurn
<1>13. Calm'
  BY <1>2, <1>10 DEF IInv, Inv, Calm, Parted
<1> QED
  BY <1>9, <1>11, <1>12, <1>13 DEF Inv

\* When the GUI thread comes to the disconnection, it has handled all messages.
LEMMA DisconnectKeeps ==
  ASSUME IInv, Disconnect
  PROVE  Inv'
<1>1. /\ pending'["net"] = pending["net"]
      /\ pending["disconnect"] # << >> /\ pending'["disconnect"] = Tail(pending["disconnect"])
      /\ flushing = "disconnect" /\ gui = "loop"
      /\ UNCHANGED << flushing, alerts, alerting, io, client, read, sent, got >>
  <2>1. Calls("disconnect") /\ UNCHANGED got
    BY DEF Disconnect
  <2> QED
    BY <2>1, CallsType DEF IInv, Signal
<1>2. pending'["disconnect"] = << >>
  <2>1. pending["disconnect"] = << 0 >>
    BY <1>1 DEF IInv, Inv, Once
  <2>2. Tail(<< 0 >>) = << >>
    OBVIOUS
  <2> QED
    BY <1>1, <2>1, <2>2
<1>3. client
  BY <1>1 DEF IInv, Inv, Calm, Out
<1>4. gui' = "hanging up" /\ raising'["gui"] \in {<< >>, << Said >>} /\ raising'["io"] = raising["io"]
  <2>1. Will("gui", << Said >>) /\ gui' = "hanging up"
    BY <1>3 DEF Disconnect
  <2> QED
    BY <2>1, GuiSays DEF IInv
<1>5. Books'
  BY <1>1, <1>4 DEF IInv, Inv, Books, Handed, Numbered
<1>6. /\ AtIo' <=> AtIo
      /\ AtMutex' <=> AtMutex
      /\ InPipe' <=> InPipe
      /\ AtGui' /\ AtGui
      /\ Active' <=> Active
  BY <1>1, <1>4 DEF AtIo, AtMutex, InPipe, AtGui, Active
<1>7. Once'
  BY <1>1, <1>2, <1>6 DEF IInv, Inv, Once
<1>8. InTurn'
  BY <1>1, <1>6 DEF IInv, Inv, InTurn
<1>9. Calm'
  BY <1>1, <1>2, <1>3, <1>4, <1>6 DEF IInv, Inv, Calm, Parted
<1> QED
  BY <1>5, <1>7, <1>8, <1>9 DEF Inv

LEMMA HangUpKeeps ==
  ASSUME IInv, HangUp
  PROVE  Inv'
<1>1. /\ gui \in {"hanging up", "quitting"}
      /\ gui' = IF gui = "quitting" THEN "leaving" ELSE "loop"
      /\ client' = FALSE /\ read' = ReadClosed
      /\ UNCHANGED << pending, flushing, alerts, alerting, raising, io, sent, got >>
  BY DEF HangUp, calls, history
<1>2. Books'
  BY <1>1 DEF IInv, Inv, Books, Handed, Numbered
<1>3. /\ AtIo' <=> AtIo
      /\ AtMutex' <=> AtMutex
      /\ InPipe' <=> InPipe
      /\ AtGui' <=> AtGui
      /\ Active' <=> Active
  BY <1>1 DEF AtIo, AtMutex, InPipe, AtGui, Active, ReadClosed, None
<1>4. Once'
  BY <1>1, <1>3 DEF IInv, Inv, Once
<1>5. InTurn'
  BY <1>1, <1>3 DEF IInv, Inv, InTurn
<1>6. Calm'
  <2>1. Active => ~Parted
    BY DEF IInv, Inv, Calm
  <2>2. ASSUME gui = "hanging up"
        PROVE  /\ ~Active /\ ~AtIo /\ ~AtMutex /\ ~InPipe
               /\ pending["disconnect"] = << >> /\ pending["net"] = << >>
    BY <2>1, <2>2 DEF IInv, Inv, Calm, Once, InTurn, Parted
  <2>3. gui' = "leaving" \/ (gui = "hanging up" /\ gui' = "loop")
    <3>1. CASE gui = "quitting"
      BY <1>1, <3>1
    <3>2. CASE gui = "hanging up"
      BY <1>1, <3>2
    <3> QED
      BY <1>1, <3>1, <3>2
  <2> QED
    BY <1>1, <1>3, <2>1, <2>2, <2>3 DEF Calm, Parted, Out
<1> QED
  BY <1>2, <1>4, <1>5, <1>6 DEF Inv

LEMMA ReadKeeps ==
  ASSUME IInv, NEW n \in 1 .. MaxInRead, Len(sent) + n <= MaxNet, HandleRead(n)
  PROVE  Inv'
<1>1. /\ io = "running" /\ raising["io"] = << >> /\ alerting["io"] = None
      /\ read = "complete" /\ io' = "reading" /\ read' = None
      /\ UNCHANGED << pending, flushing, alerts, alerting, gui, client, got >>
  BY DEF HandleRead, Free, Through
<1>2. Numbered(sent, 0) /\ TypeOK /\ Handed = Len(sent)
  BY <1>1 DEF IInv, Inv, Books
<1>3. /\ Numbered(sent', 0) /\ Len(sent') = Len(sent) + n /\ Len(sent) \in Nat
      /\ raising'["io"] \in Seq(Raised) /\ Len(raising'["io"]) = n
      /\ \A i \in 1 .. n : raising'["io"][i] = Raise("net", Len(sent) + i)
      /\ raising'["gui"] = raising["gui"]
  BY <1>2, FreshType
<1>4. Active /\ ~Parted
  BY <1>1 DEF IInv, Inv, Calm, Active, None
<1>5. Handed' = Len(sent)
  BY <1>1, <1>2 DEF Handed
<1>6. Books'
  BY <1>1, <1>3, <1>5 DEF IInv, Inv, Books
<1>7. ~AtIo'
  BY <1>3, NetsDiffer DEF AtIo
<1>8. ~AtMutex' /\ ~InPipe' /\ ~AtGui' /\ ~InPipe /\ ~AtMutex /\ ~AtGui
  BY <1>1, <1>4 DEF Parted, AtMutex, InPipe, AtGui
<1>9. Once'
  BY <1>1, <1>7, <1>8 DEF IInv, Inv, Once
<1>10. InTurn'
  BY <1>1, <1>8 DEF IInv, Inv, InTurn
<1>11. Calm'
  BY <1>1, <1>4, <1>7, <1>8 DEF IInv, Inv, Calm, Parted
<1> QED
  BY <1>6, <1>9, <1>10, <1>11 DEF Inv

LEMMA ContinueKeeps ==
  ASSUME IInv, ContinueRead
  PROVE  Inv'
<1>1. /\ io = "reading" /\ raising["io"] = << >> /\ alerting["io"] = None /\ io' = "running"
      /\ UNCHANGED << pending, flushing, alerts, alerting, raising, gui, client, sent, got >>
  BY DEF ContinueRead, Through, calls, history
<1>2. Active /\ ~Parted
  BY <1>1 DEF IInv, Inv, Calm, Active
<1>3. Books'
  <2>1. Handed = Len(sent)
    <3>1. Handed + 0 = Len(sent) /\ Handed \in Nat
      BY <1>1 DEF IInv, Inv, Books, Handed, Numbered
    <3> QED
      BY <3>1
  <2>2. Handed' = Len(sent')
    BY <1>1, <2>1 DEF Handed
  <2> QED
    BY <1>1, <2>2 DEF IInv, Inv, Books, Numbered
<1>4. ~AtIo' /\ ~AtMutex' /\ ~InPipe' /\ ~AtGui' /\ ~AtIo /\ ~AtMutex /\ ~InPipe /\ ~AtGui
  BY <1>1, <1>2 DEF Parted, AtIo, AtMutex, InPipe, AtGui
<1>5. Once' /\ InTurn' /\ Calm'
  BY <1>1, <1>2, <1>4 DEF IInv, Inv, Once, InTurn, Calm, Parted
<1> QED
  BY <1>3, <1>5 DEF Inv

LEMMA ReadErrorKeeps ==
  ASSUME IInv, HandleReadError
  PROVE  Inv'
<1>1. /\ io = "running" /\ raising["io"] = << >> /\ alerting["io"] = None
      /\ read = "failed" /\ read' = None
      /\ UNCHANGED << pending, flushing, alerts, alerting, gui, io, client, sent, got >>
  BY DEF HandleReadError, Free, Through, history
<1>2. raising'["io"] = << Said, Bye >> /\ raising'["gui"] = raising["gui"]
  BY ReadErrorType DEF IInv
<1>3. Active /\ ~Parted
  BY <1>1 DEF IInv, Inv, Calm, Active, None
<1>4. Books'
  BY <1>1, <1>2 DEF IInv, Inv, Books, Handed, Numbered
<1>5. AtIo' /\ ~AtMutex' /\ ~InPipe' /\ ~AtGui' /\ ~AtMutex /\ ~InPipe /\ ~AtGui /\ ~Active'
  BY <1>1, <1>2, <1>3 DEF Parted, AtIo, AtMutex, InPipe, AtGui, Active
<1>6. Once' /\ InTurn' /\ Calm'
  BY <1>1, <1>3, <1>5 DEF IInv, Inv, Once, InTurn, Calm
<1> QED
  BY <1>4, <1>6 DEF Inv

LEMMA SaysKeeps ==
  ASSUME IInv, Dial \/ ConnectFails \/ Quit
  PROVE  Inv'
<1>1. /\ raising'["io"] = raising["io"] /\ raising'["gui"] \in {<< >>, << Said >>}
      /\ UNCHANGED << pending, flushing, alerts, alerting, io, client, read, sent, got >>
  BY SaysType DEF IInv, Inv, Books, Dial, ConnectFails, Quit, history
<1>2. Books'
  BY <1>1 DEF IInv, Inv, Books, Handed, Numbered
<1>3. /\ AtIo' <=> AtIo
      /\ AtMutex' <=> AtMutex
      /\ InPipe' <=> InPipe
      /\ AtGui' <=> AtGui
      /\ Active' <=> Active
  BY <1>1 DEF AtIo, AtMutex, InPipe, AtGui, Active
<1>4. Once' /\ InTurn'
  BY <1>1, <1>3 DEF IInv, Inv, Once, InTurn
<1>5. Calm'
  <2>1. CASE Dial
    BY <2>1, <1>1, <1>3 DEF Dial, IInv, Inv, Calm, Parted, Out
  <2>2. CASE ConnectFails
    BY <2>2, <1>1, <1>3 DEF ConnectFails, IInv, Inv, Calm, Parted, Out
  <2>3. CASE Quit
    <3>1. gui = "loop" /\ client' = client
      BY <2>3 DEF Quit
    <3>2. (client /\ gui' = "quitting") \/ (~client /\ gui' = "leaving")
      BY <2>3 DEF Quit
    <3>3. Active => ~Parted
      BY DEF IInv, Inv, Calm
    <3> QED
      BY <3>1, <3>2, <3>3, <1>3 DEF Calm, Parted, Out
  <2> QED
    BY <2>1, <2>2, <2>3
<1> QED
  BY <1>2, <1>4, <1>5 DEF Inv

\* A new connection finds nothing of the last.
LEMMA ConnectKeeps ==
  ASSUME IInv, Connect
  PROVE  Inv'
<1>1. /\ gui = "dialling" /\ gui' = "loop" /\ client' = TRUE /\ read' = "pending"
      /\ UNCHANGED << pending, flushing, alerts, alerting, raising, io, sent, got >>
  BY DEF Connect, calls, history
<1>2. Books'
  BY <1>1 DEF IInv, Inv, Books, Handed, Numbered
<1>3. /\ AtIo' <=> AtIo
      /\ AtMutex' <=> AtMutex
      /\ InPipe' <=> InPipe
      /\ AtGui' <=> AtGui
  BY <1>1 DEF AtIo, AtMutex, InPipe, AtGui
<1>4. ~Parted
  BY <1>1 DEF IInv, Inv, Calm, Parted, Out, AtGui, None
<1>5. Once' /\ InTurn' /\ Calm'
  BY <1>1, <1>3, <1>4 DEF IInv, Inv, Once, InTurn, Calm, Parted
<1> QED
  BY <1>2, <1>5 DEF Inv

\* The steps that raise nothing, flush nothing and open or close no connection.
LEMMA OthersKeep ==
  ASSUME IInv,
         \/ Interrupt \/ Join \/ StartThread \/ TimerExpired \/ WaitAgain
         \/ TimerInterrupted \/ RunEnds \/ ReadCompletes \/ ConnectionBreaks
         \/ SecondPasses \/ UNCHANGED vars
  PROVE  Inv'
<1>1. UNCHANGED << pending, flushing, alerts, alerting, raising, client, sent, got >>
  BY DEF Interrupt, Join, StartThread, TimerExpired, WaitAgain, TimerInterrupted, RunEnds,
         ReadCompletes, ConnectionBreaks, SecondPasses, vars, calls, history
<1>2. io' = "reading" <=> io = "reading"
  BY DEF Interrupt, Join, StartThread, TimerExpired, WaitAgain, TimerInterrupted, RunEnds,
         ReadCompletes, ConnectionBreaks, SecondPasses, vars, Free
<1>3. read' = None <=> read = None
  BY DEF Interrupt, Join, StartThread, TimerExpired, WaitAgain, TimerInterrupted, RunEnds,
         ReadCompletes, ConnectionBreaks, SecondPasses, vars, None
<1>4. gui' = gui \/ (gui \in Out /\ gui' \in Out)
  BY DEF Interrupt, Join, StartThread, TimerExpired, WaitAgain, TimerInterrupted, RunEnds,
         ReadCompletes, ConnectionBreaks, SecondPasses, vars, Out
<1>5. Books'
  <2>1. CASE io = "reading"
    BY <1>1, <1>2, <2>1 DEF IInv, Inv, Books, Handed, Numbered
  <2>2. CASE io # "reading"
    BY <1>1, <1>2, <2>2 DEF IInv, Inv, Books, Handed, Numbered
  <2> QED
    BY <2>1, <2>2
<1>6. /\ AtIo' <=> AtIo
      /\ AtMutex' <=> AtMutex
      /\ InPipe' <=> InPipe
      /\ AtGui' <=> AtGui
      /\ Active' <=> Active
  BY <1>1, <1>2, <1>3 DEF AtIo, AtMutex, InPipe, AtGui, Active
<1>7. Once' /\ InTurn'
  BY <1>1, <1>6 DEF IInv, Inv, Once, InTurn
<1>8. Calm'
  <2>1. gui' \notin Out => gui' = gui
    BY <1>4
  <2>2. gui' \in Out => gui' \notin {"hanging up", "quitting", "dialling"}
    BY DEF Out
  <2> QED
    BY <1>1, <1>6, <2>1, <2>2 DEF IInv, Inv, Calm, Parted
<1> QED
  BY <1>5, <1>7, <1>8 DEF Inv

LEMMA InitIInv == Init => IInv
<1> SUFFICES ASSUME Init
             PROVE  IInv
  OBVIOUS
<1>1. TypeOK
  <2>1. pending \in [Signal -> Seq(0 .. MaxNet)] /\ raising \in [Thread -> Seq(Raised)]
    BY DEF Init
  <2>2. dials \in 0 .. MaxDials /\ alerting \in [Thread -> Signal \cup {None}]
    BY ThreadsAssumption DEF Init
  <2>3. << >> \in Seq(Signal) /\ << >> \in Seq(1 .. MaxNet)
    OBVIOUS
  <2> QED
    BY <2>1, <2>2, <2>3 DEF Init, TypeOK, Raised
<1>2. /\ pending["net"] = << >> /\ pending["disconnect"] = << >>
      /\ raising["io"] = << >> /\ raising["gui"] = << >>
      /\ alerting["io"] = None /\ alerting["gui"] = None
      /\ sent = << >> /\ got = << >> /\ alerts = << >> /\ flushing = None
      /\ gui = "loop" /\ io = "unstarted" /\ read = None
  BY DEF Init, Signal, Thread
<1>3. Len(<< >>) = 0 /\ Handed = 0 /\ \A n : Numbered(<< >>, n)
  BY <1>2 DEF Numbered, Handed
<1>4. Books
  BY <1>2, <1>3 DEF Books
<1>5. ~AtIo /\ ~AtMutex /\ ~InPipe /\ ~AtGui /\ ~Active
  BY <1>2, WordsDiffer DEF AtIo, AtMutex, InPipe, HasBye, AtGui, Active, None
<1>6. Once /\ InTurn /\ Calm
  BY <1>2, <1>5 DEF Once, Single, InTurn, Calm, Parted
<1> QED
  BY <1>1, <1>4, <1>6 DEF IInv, Inv

LEMMA NextIInv == IInv /\ [Next]_vars => IInv'
<1> SUFFICES ASSUME IInv, [Next]_vars
             PROVE  IInv'
  OBVIOUS
<1>1. TypeOK /\ Numbered(sent, 0) /\ Numbered(pending["net"], Len(got))
  BY DEF IInv, Inv, Books
<1>2. ASSUME NEW t \in Thread, Raises(t)
      PROVE  IInv'
  <2>1. TypeOK'
    BY <1>1, <1>2, PushType, AlertType DEF Raises
  <2>2. Inv'
    BY <1>2, PushGuiKeeps, PushReadKeeps, PushByeKeeps, AlertGuiKeeps, AlertIoKeeps
       DEF Raises, Thread
  <2> QED
    BY <2>1, <2>2 DEF IInv
<1>3. CASE Flush
  BY <1>1, <1>3, FlushType, FlushKeeps DEF IInv
<1>4. CASE WriteMessage \/ HandleNetMessage \/ Disconnect
  <2>1. TypeOK'
    BY <1>1, <1>4, CallType
  <2>2. Inv'
    BY <1>4, WriteKeeps, NetKeeps, DisconnectKeeps
  <2> QED
    BY <2>1, <2>2 DEF IInv
<1>5. CASE Dial \/ ConnectFails \/ Quit
  BY <1>1, <1>5, SaysType, SaysKeeps DEF IInv
<1>6. CASE Reads
  <2>1. PICK n \in 1 .. MaxInRead : Len(sent) + n <= MaxNet /\ HandleRead(n)
    BY <1>6 DEF Reads
  <2>2. TypeOK' /\ Inv'
    BY <1>1, <2>1, ReadType, ReadKeeps
  <2> QED
    BY <2>2 DEF IInv
<1>7. CASE HandleReadError
  BY <1>1, <1>7, ReadErrorType, ReadErrorKeeps DEF IInv
<1>8. CASE Quiet
  <2>1. TypeOK'
    BY <1>1, <1>8, QuietType
  <2>2. Inv'
    BY <1>8, FlushedKeeps, HangUpKeeps, ConnectKeeps, ContinueKeeps, OthersKeep DEF Quiet
  <2> QED
    BY <2>1, <2>2 DEF IInv
<1>9. \/ \E t \in Thread : Raises(t)
      \/ Flush \/ WriteMessage \/ HandleNetMessage \/ Disconnect
      \/ Dial \/ ConnectFails \/ Quit \/ Reads \/ HandleReadError \/ Quiet
  BY DEF Next, GuiSteps, IoSteps, User, System, Thread, Quiet
<1> QED
  BY <1>2, <1>3, <1>4, <1>5, <1>6, <1>7, <1>8, <1>9

\* The two threads: what was read is handled, listed or about to be, in this order,
\* and a disconnection comes behind it.
THEOREM Invariance == Spec => []IInv
BY InitIInv, NextIInv, PTL DEF Spec

\* Every variable of the two threads keeps its type.
THEOREM TypeCorrect == Spec => []TypeOK
<1>1. IInv => TypeOK
  BY DEF IInv
<1> QED
  BY <1>1, Invariance, PTL

\* disconnectSignal_ never overtakes netMessageSignal_, though they have each their
\* list and their mutex: whenever the GUI loop finds the machine not connected, all
\* that was ever read from a socket has been handled.
THEOREM NothingOvertakes == Spec => []AllHandledBeforeNext
<1>1. IInv => AllHandledBeforeNext
  <2> SUFFICES ASSUME IInv, ~client, gui = "loop"
               PROVE  got = sent
    BY DEF AllHandledBeforeNext
  <2>1. pending["net"] = << >> /\ io # "reading"
    BY DEF IInv, Inv, Calm, Active, Out
  <2>2. Len(got) + 0 = Len(sent) /\ Numbered(got, 0) /\ Numbered(sent, 0)
    BY <2>1 DEF IInv, Inv, Books, Handed
  <2>3. /\ got \in Seq(1 .. MaxNet) /\ sent \in Seq(1 .. MaxNet) /\ Len(got) = Len(sent)
        /\ \A i \in 1 .. Len(got) : got[i] = sent[i]
    BY <2>2 DEF Numbered
  <2> QED
    BY <2>3
<1> QED
  BY <1>1, Invariance, PTL

-----------------------------------------------------------------------------
(* Between the threads as between the programs: Delivery. *)

Step == [Channel!Next]_<< sent, got >>

LEMMA ReadStep ==
  ASSUME IInv, NEW n \in 1 .. MaxInRead, Len(sent) + n <= MaxNet, HandleRead(n)
  PROVE  Step
<1>1. Numbered(sent, 0) /\ TypeOK
  BY DEF IInv, Inv, Books
<1>2. Numbered(sent', 0) /\ Len(sent') = Len(sent) + n /\ Len(sent) \in Nat
  BY <1>1, FreshType
<1>3. Len(sent) <= Len(sent') /\ sent # sent'
  BY <1>2
<1>4. Channel!IsPrefix(sent, sent')
  BY <1>1, <1>2, <1>3, NumberedPrefix
<1>5. got' = got
  BY DEF HandleRead
<1> QED
  BY <1>3, <1>4, <1>5 DEF Step, Channel!Next, Channel!Send

LEMMA HandleStep ==
  ASSUME IInv, IInv', HandleNetMessage
  PROVE  Step
<1>1. Numbered(got, 0) /\ Numbered(got', 0) /\ Numbered(sent, 0)
  BY DEF IInv, Inv, Books
<1>2. sent' = sent /\ got' = Append(got, Head(pending["net"]))
  BY DEF HandleNetMessage, Calls
<1>3. Len(got) \in Nat /\ Len(got') = Len(got) + 1
  BY <1>1, <1>2 DEF Numbered
<1>4. Len(got') <= Len(sent)
  <2>1. /\ Len(got') \in Nat /\ Len(pending'["net"]) \in Nat /\ Len(raising'["io"]) \in Nat
        /\ Len(sent') \in Nat
    <3>1. Len(raising'["io"]) \in Nat
      <4>1. raising'["io"] \in Seq(Raised)
        BY DEF IInv, TypeOK, Thread, Raised
      <4> QED
        BY <4>1
    <3>2. Numbered(got', 0) /\ Numbered(pending'["net"], Len(got')) /\ Numbered(sent', 0)
      BY DEF IInv, Inv, Books
    <3> QED
      BY <3>1, <3>2 DEF Numbered
  <2>2. Handed' = Len(got') + Len(pending'["net"])
    BY DEF Handed
  <2>3. Handed' + Len(raising'["io"]) = Len(sent') \/ Handed' = Len(sent')
    BY DEF IInv, Inv, Books
  <2>4. \A k, l, m, n \in Nat : k + l = n \/ k + l + m = n => k <= n
    OBVIOUS
  <2>5. Len(got') <= Len(sent')
    BY <2>1, <2>2, <2>3, <2>4
  <2> QED
    BY <1>2, <2>5
<1>5. Channel!IsPrefix(got, got') /\ Channel!IsPrefix(got', sent)
  BY <1>1, <1>3, <1>4, NumberedPrefix
<1>6. got # got'
  BY <1>3
<1> QED
  BY <1>2, <1>5, <1>6 DEF Step, Channel!Next, Channel!Receive

LEMMA EachStep == IInv /\ IInv' /\ [Next]_vars => Step
<1> SUFFICES ASSUME IInv, IInv', [Next]_vars
             PROVE  Step
  OBVIOUS
<1>1. CASE Reads
  BY <1>1, ReadStep DEF Reads
<1>2. CASE HandleNetMessage
  BY <1>2, HandleStep
<1>3. CASE UNCHANGED << sent, got >>
  BY <1>3 DEF Step
<1>4. Reads \/ HandleNetMessage \/ UNCHANGED << sent, got >>
  <2>1. ASSUME NEW t \in Thread, Raises(t)
        PROVE  UNCHANGED << sent, got >>
    BY <2>1 DEF Raises, Push, Alert, history
  <2>2. Flush \/ WriteMessage \/ Disconnect => UNCHANGED << sent, got >>
    BY DEF Flush, WriteMessage, Disconnect, Calls, history
  <2>3. Dial \/ ConnectFails \/ Quit \/ HandleReadError => UNCHANGED << sent, got >>
    BY DEF Dial, ConnectFails, Quit, HandleReadError, history
  <2>4. Quiet => UNCHANGED << sent, got >>
    BY DEF Quiet, Flushed, HangUp, Connect, Interrupt, Join, StartThread, ContinueRead,
           TimerExpired, WaitAgain, TimerInterrupted, RunEnds, ReadCompletes,
           ConnectionBreaks, SecondPasses, vars, history
  <2>5. \/ \E t \in Thread : Raises(t)
        \/ Flush \/ WriteMessage \/ HandleNetMessage \/ Disconnect
        \/ Dial \/ ConnectFails \/ Quit \/ Reads \/ HandleReadError \/ Quiet
    BY DEF Next, GuiSteps, IoSteps, User, System, Thread, Quiet
  <2> QED
    BY <2>1, <2>2, <2>3, <2>4, <2>5
<1> QED
  BY <1>1, <1>2, <1>3, <1>4

\* The refinement: the lists, the mutexes and the pipe of CrossThreadSignal hand the
\* machine what was read, in the order in which it was read, each message once.
THEOREM ThreadsDeliver == Spec => Delivers
<1>1. Init => Channel!Init
  BY DEF Init, Channel!Init
<1>2. IInv /\ IInv' /\ [Next]_vars => [Channel!Next]_<< sent, got >>
  BY EachStep DEF Step
<1> QED
  BY <1>1, <1>2, Invariance, PTL DEF Spec, Delivers, Channel!Spec
=============================================================================
