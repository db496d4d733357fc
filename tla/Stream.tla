------------------------------- MODULE Stream -------------------------------
(***************************************************************************)
(* TcpSocket (tcpsocket.cpp): messages in packets over a stream of bytes,  *)
(* from the end that sends to the end that receives.  The other direction  *)
(* is the same with the ends exchanged; of it only the sending end's own   *)
(* read is kept, which tells it that the connection is over.               *)
(*                                                                         *)
(* A byte is known by the message it belongs to and its place in the       *)
(* packet, so that it shows where a packet was cut in the wrong place.     *)
(***************************************************************************)
EXTENDS Integers, Sequences, SequencesExt

CONSTANTS
  Header,        \* sizeof(PacketLength)
  MaxPacketLen,  \* Network::maxPacketLen
  Sizes,         \* sizes of messages
  MaxSent        \* bound: messages sent in a behaviour

ASSUME StreamAssumption == /\ Header \in Nat \ {0}
                           /\ MaxPacketLen \in Nat
                           /\ Sizes \subseteq Nat \ {0}
                           /\ MaxSent \in Nat

VARIABLES
  end,       \* whose the sending end is: "server" or "client"
  alive,     \* its TcpSocket exists
  ear,       \* its own read: "waiting", "failed" with the handler queued, "none"
  sent,      \* messages accepted by send
  outgoing,  \* outgoing_
  writing,   \* writing_
  written,   \* how much of writing_ has left
  write,     \* async_write: "idle", "busy", or with its handler queued "done", "failed"
  link,      \* the connection: "up" or "down"
  wire,      \* bytes on their way
  reading,   \* the receiving end reads
  data,      \* its data_, up to dataLen_
  got,       \* the messages it signalled
  dangling   \* a handler has run on a TcpSocket that is gone

sender == << end, alive, ear, sent, outgoing, writing, written, write, dangling >>
receiver == << reading, data, got >>
vars == << sender, link, wire, receiver >>

Capacity == MaxPacketLen + Header

\* A message, told from others by its number.
Message == (1 .. MaxSent) \X Sizes

Size(m) == m[2]

Packet(m) == [i \in 1 .. Header + Size(m) |-> [msg |-> m, at |-> i]]

\* What MessageBase::create makes of bytes that are no message.
Garbled == << 0, 0 >>

Decoded(body) ==
  IF body # << >> /\ body = SubSeq(Packet(body[1].msg), Header + 1,
                                   Header + Size(body[1].msg))
  THEN body[1].msg ELSE Garbled

Init == /\ end \in {"server", "client"}
        /\ alive = TRUE
        /\ ear = "waiting"
        /\ sent = << >>
        /\ outgoing = << >> /\ writing = << >> /\ written = 0
        /\ write = "idle"
        /\ link = "up"
        /\ wire = << >>
        /\ reading = TRUE
        /\ data = << >>
        /\ got = << >>
        /\ dangling = FALSE

-----------------------------------------------------------------------------
(* The sending end. *)

\* Mutant of Accepted: the limit is that of the buffer.
Accepted_Buffer(size) == size <= Capacity

Accepted(size) == size <= MaxPacketLen

\* startWrite with before in writing_ and out, which is not empty, in outgoing_.
StartWrite(before, out) ==
  /\ writing' = before \o out
  /\ outgoing' = << >>
  /\ written' = 0
  /\ write' = IF link = "up" THEN "busy" ELSE "failed"

Send(size) ==
  /\ alive /\ Len(sent) < MaxSent /\ Accepted(size)
  /\ LET m == << Len(sent) + 1, size >>
     IN  /\ sent' = Append(sent, m)
         /\ \/ writing = << >> /\ StartWrite(writing, outgoing \o Packet(m))
            \/ /\ writing # << >>
               /\ outgoing' = outgoing \o Packet(m)
               /\ UNCHANGED << writing, written, write >>
  /\ UNCHANGED << end, alive, ear, dangling, link, wire, receiver >>

\* async_write hands over its buffer bit by bit.
Transmit ==
  /\ write = "busy" /\ link = "up"
  /\ \E k \in 1 .. Len(writing) - written :
       /\ wire' = wire \o SubSeq(writing, written + 1, written + k)
       /\ written' = written + k
       /\ write' = IF written' = Len(writing) THEN "done" ELSE "busy"
  /\ UNCHANGED << end, alive, ear, sent, outgoing, writing, dangling, link,
                  receiver >>

WriteFails ==
  /\ write = "busy" /\ link = "down"
  /\ write' = "failed"
  /\ UNCHANGED << end, alive, ear, sent, outgoing, writing, written, dangling,
                  link, wire, receiver >>

\* socket_.close(), or the connection breaks: reads that wait will fail.
Down == /\ link' = "down"
        /\ ear' = IF ear = "waiting" THEN "failed" ELSE ear

\* Mutants of HandleWrite: what was added meanwhile is left for the next send; or
\* writing_ is not cleared.
HandleWrite_Forgets ==
  /\ write = "done" /\ alive
  /\ writing' = << >>
  /\ write' = "idle"
  /\ UNCHANGED << end, alive, ear, sent, outgoing, written, dangling, link, wire,
                  receiver >>

HandleWrite_Keeps ==
  /\ write = "done" /\ alive
  /\ \/ outgoing # << >> /\ StartWrite(writing, outgoing)
     \/ /\ outgoing = << >>
        /\ writing' = << >>
        /\ write' = "idle"
        /\ UNCHANGED << outgoing, written >>
  /\ UNCHANGED << end, alive, ear, sent, dangling, link, wire, receiver >>

\* The handler of a write is bound to a bare this.
HandleWrite ==
  /\ write \in {"done", "failed"}
  /\ \/ /\ ~alive
        /\ dangling' = TRUE
        /\ write' = "idle"
        /\ UNCHANGED << ear, outgoing, writing, written, link >>
     \/ /\ alive /\ write = "failed"
        /\ writing' = << >>
        /\ write' = "idle"
        /\ Down
        /\ UNCHANGED << outgoing, written, dangling >>
     \/ /\ alive /\ write = "done" /\ outgoing # << >>
        /\ StartWrite(<< >>, outgoing)
        /\ UNCHANGED << ear, link, dangling >>
     \/ /\ alive /\ write = "done" /\ outgoing = << >>
        /\ writing' = << >>
        /\ write' = "idle"
        /\ UNCHANGED << ear, outgoing, written, link, dangling >>
  /\ UNCHANGED << end, alive, sent, wire, receiver >>

\* The end of the TcpSocket closes its socket, and with it a write under way.
Destroyed == /\ alive' = FALSE
             /\ link' = "down"
             /\ write' = IF write = "busy" THEN "failed" ELSE write

\* handleRead with an error: the server drops the connection on terminateSignal,
\* and the handler was the last to hold the socket.  The client's GUI thread drops
\* it later, unless it is destroyed before.
HandleReadError ==
  /\ ear = "failed"
  /\ ear' = "none"
  /\ \/ end = "server" /\ Destroyed
     \/ end = "client" /\ UNCHANGED << alive, link, write >>
  /\ UNCHANGED << end, sent, outgoing, writing, written, dangling, wire, receiver >>

ClientDrops ==
  /\ end = "client" /\ alive /\ ear = "none"
  /\ Destroyed
  /\ UNCHANGED << end, ear, sent, outgoing, writing, written, dangling, wire,
                  receiver >>

Break ==
  /\ link = "up"
  /\ Down
  /\ UNCHANGED << end, alive, sent, outgoing, writing, written, write, dangling,
                  wire, receiver >>

-----------------------------------------------------------------------------
(* The receiving end. *)

\* The number in the two bytes behind place i, or one that nobody put there.
PacketLength(d, i) ==
  LET m == d[i + 1].msg
  IN  IF SubSeq(d, i + 1, i + Header) = SubSeq(Packet(m), 1, Header)
      THEN Size(m) ELSE 0

PacketEnd(d, i) == i + Header + PacketLength(d, i)

Complete(d, i) == Len(d) >= i + Header /\ Len(d) >= PacketEnd(d, i)

\* Where the packets start that handleRead takes from the buffer in its loop.
PacketStarts(d) ==
  LET from[i \in 0 .. Len(d)] ==
        IF Complete(d, i) THEN << i >> \o from[PacketEnd(d, i)] ELSE << >>
  IN  from[0]

Signalled(d) ==
  [j \in DOMAIN PacketStarts(d) |->
     LET i == PacketStarts(d)[j]
     IN  Decoded(SubSeq(d, i + Header + 1, PacketEnd(d, i)))]

Remainder(d) ==
  IF PacketStarts(d) = << >> THEN d
  ELSE SubSeq(d, PacketEnd(d, Last(PacketStarts(d))) + 1, Len(d))

\* What continueRead asks for.
Space == Capacity - Len(data)

\* A read and its handler.  Of what came the loop signals the whole packets.
HandleRead ==
  /\ reading
  /\ \E k \in 1 .. Len(wire) :
       /\ k <= Space
       /\ LET d == data \o SubSeq(wire, 1, k)
          IN  /\ got' = got \o Signalled(d)
              /\ data' = Remainder(d)
       /\ wire' = SubSeq(wire, k + 1, Len(wire))
  /\ UNCHANGED << sender, link, reading >>

ReadFails ==
  /\ reading /\ link = "down"
  /\ reading' = FALSE
  /\ UNCHANGED << sender, link, wire, data, got >>

-----------------------------------------------------------------------------
Next == \/ \E size \in Sizes : Send(size)
        \/ Transmit \/ WriteFails \/ HandleWrite \/ HandleReadError
        \/ ClientDrops \/ Break \/ HandleRead \/ ReadFails

Spec == Init /\ [][Next]_vars

\* The network carries what is written, and both io_services run.
Fairness == WF_vars(Transmit) /\ WF_vars(HandleWrite) /\ WF_vars(HandleRead)

FairSpec == Spec /\ Fairness

-----------------------------------------------------------------------------
(* Properties. *)

Byte == [msg : Message, at : 1 .. Header + MaxPacketLen]

TypeOK ==
  /\ end \in {"server", "client"}
  /\ {alive, reading, dangling} \subseteq BOOLEAN
  /\ ear \in {"waiting", "failed", "none"}
  /\ sent \in Seq(Message)
  /\ outgoing \in Seq(Byte) /\ writing \in Seq(Byte) /\ wire \in Seq(Byte)
  /\ written \in Nat /\ (write = "busy" => written < Len(writing))
  /\ write \in {"idle", "busy", "done", "failed"}
  /\ link \in {"up", "down"}
  /\ data \in Seq(Byte) /\ Len(data) <= Capacity
  /\ got \in Seq(Message \cup {Garbled})

\* Whatever the sizes of messages, writes and reads, the messages come whole, in
\* order and once each.
Delivered == INSTANCE Delivery

InOrder == Delivered!Spec

\* What send was given is being written, or will be by a handler that is queued:
\* nothing waits for the next send.
NothingHeldBack == link = "up" /\ outgoing # << >> => write # "idle"

\* While the connection holds, everything arrives.
EverythingArrives == []<>(got = sent \/ link = "down")

\* tcpsocket.cpp:73: a socket is "not destructed until call is completed".
HandlersHaveSockets == ~dangling
=============================================================================
