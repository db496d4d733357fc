--------------------------- MODULE AcceptorProofs ---------------------------
(***************************************************************************)
(* What shutdown leaves of the server's accept, for any number of clients, *)
(* signals and programs that take the port.                                *)
(***************************************************************************)
EXTENDS Acceptor, FiniteSetTheorems, TLAPS

\* A client is let in only where the bound leaves an id for it.
IdLeft == accept = Over => nextClientId < MaxClients

\* From shutdown on the acceptor is closed, so that nothing is accepted any more; an
\* accept that had completed finds the pool as shutdown left it, empty, and is the
\* last.
Late ==
  told => /\ status # "starting"
          /\ acceptor = "closed"
          /\ accept # Waiting
          /\ accept = Over => pool = {}
          /\ \E c : pool \subseteq {c}

IInv == TypeOK /\ IdLeft /\ Late

-----------------------------------------------------------------------------

LEMMA InitIInv == Init => IInv
<1> SUFFICES ASSUME Init PROVE IInv
  OBVIOUS
<1>1. reads = [c \in {} |-> None] /\ DOMAIN reads = {}
  BY DEF Init
<1>2. 0 \in 0 .. MaxClients /\ 0 \in 0 .. MaxSignals /\ 0 \in 0 .. MaxPorts
  BY AcceptorAssumption
<1>3. told \in BOOLEAN /\ taken \in BOOLEAN
  BY DEF Init
<1>4. /\ pool \subseteq DOMAIN reads /\ DOMAIN reads \subseteq ClientId
      /\ \A c \in DOMAIN reads : reads[c] \in {Waiting, Aborted}
  BY <1>1 DEF Init
<1>5. signals \in 0 .. MaxSignals /\ posted \in 0 .. signals
  BY <1>2 DEF Init
<1>6. TypeOK
  BY <1>2, <1>3, <1>4, <1>5 DEF Init, TypeOK
<1> QED
  BY <1>6 DEF Init, IInv, IdLeft, Late, None, Over

\* The counters, for the steps that count.
LEMMA Numbers ==
  ASSUME TypeOK
  PROVE  /\ posted \in Nat /\ signals \in Nat /\ takes \in Nat
         /\ posted <= signals /\ signals <= MaxSignals /\ takes <= MaxPorts
<1>1. posted \in 0 .. signals /\ signals \in 0 .. MaxSignals /\ takes \in 0 .. MaxPorts
  BY DEF TypeOK
<1> QED
  BY <1>1, AcceptorAssumption

\* A try to bind leaves a closed acceptor closed, and starts no accept on it.
LEMMA StartBindKeeps ==
  ASSUME NEW a \in {"closed", "open", "listening"}, StartBind(a),
         accept \in {None, Waiting, Over, Aborted}
  PROVE  /\ acceptor' \in {"closed", "open", "listening"}
         /\ bindWait' \in {None, Waiting, Over, Aborted}
         /\ bindError' \in {None, "in use", "other"}
         /\ accept' \in {None, Waiting, Over, Aborted}
         /\ accept' = Over => accept = Over
         /\ a = "closed" => acceptor' = "closed" /\ accept' = accept
BY DEF StartBind, StartAccept, None, Waiting, Over, Aborted

LEMMA ServeKeeps == ASSUME IInv, Serve PROVE IInv'
<1>1. StartBind("open") /\ status' = "running" /\ ~told
  BY DEF IInv, Late, Serve
<1>2. /\ acceptor' \in {"closed", "open", "listening"}
      /\ bindWait' \in {None, Waiting, Over, Aborted}
      /\ bindError' \in {None, "in use", "other"}
      /\ accept' \in {None, Waiting, Over, Aborted}
      /\ accept' = Over => accept = Over
  BY <1>1, StartBindKeeps DEF IInv, TypeOK
<1> QED
  BY <1>1, <1>2 DEF IInv, TypeOK, IdLeft, Late, Serve, port

LEMMA BindAgainKeeps == ASSUME IInv, BindAgain PROVE IInv'
<1>1. StartBind(acceptor)
  BY DEF BindAgain
<1>2. /\ acceptor' \in {"closed", "open", "listening"}
      /\ bindWait' \in {None, Waiting, Over, Aborted}
      /\ bindError' \in {None, "in use", "other"}
      /\ accept' \in {None, Waiting, Over, Aborted}
      /\ accept' = Over => accept = Over
      /\ acceptor = "closed" => acceptor' = "closed" /\ accept' = accept
  BY <1>1, StartBindKeeps DEF IInv, TypeOK
<1> QED
  BY <1>2 DEF IInv, TypeOK, IdLeft, Late, BindAgain, port

\* The connection that is let in is the first and last one after shutdown.
LEMMA HandleAcceptKeeps == ASSUME IInv, HandleAccept PROVE IInv'
<1>1. /\ accept = Over /\ StartAccept(acceptor) /\ AddConnection
      /\ UNCHANGED << status, acceptor, bindWait, bindError, signals, posted, told,
                      port >>
  BY DEF HandleAccept
<1>2. /\ accept' \in {Waiting, Aborted}
      /\ acceptor = "closed" => accept' = Aborted
  BY <1>1 DEF StartAccept
<1>3. nextClientId \in ClientId /\ nextClientId + 1 \in 0 .. MaxClients
  <2>1. nextClientId \in 0 .. MaxClients /\ nextClientId < MaxClients
    BY <1>1 DEF IInv, TypeOK, IdLeft
  <2> QED
    BY <2>1, AcceptorAssumption DEF ClientId
<1>4. CASE UNCHANGED << pool, reads, nextClientId >>
  BY <1>1, <1>2, <1>4
     DEF IInv, TypeOK, IdLeft, Late, port, None, Waiting, Over, Aborted
<1>5. CASE /\ pool' = pool \cup {nextClientId}
           /\ reads' = [c \in DOMAIN reads \cup {nextClientId} |->
                          IF c = nextClientId THEN Waiting ELSE reads[c]]
           /\ nextClientId' = nextClientId + 1
  <2>1. /\ DOMAIN reads' = DOMAIN reads \cup {nextClientId}
        /\ \A c \in DOMAIN reads' : reads'[c] \in {Waiting, Aborted}
    BY <1>5 DEF IInv, TypeOK
  <2>2. /\ pool' \subseteq DOMAIN reads'
        /\ DOMAIN reads' \subseteq ClientId
    BY <1>3, <1>5, <2>1 DEF IInv, TypeOK
  <2>3. nextClientId' \in 0 .. MaxClients
    BY <1>3, <1>5
  <2>4. accept' \in {None, Waiting, Over, Aborted}
    BY <1>2
  <2>5. TypeOK'
    BY <1>1, <2>1, <2>2, <2>3, <2>4 DEF IInv, TypeOK, port
  <2>6. Late'
    BY <1>1, <1>2, <1>5 DEF IInv, Late, Waiting, Over, Aborted
  <2> QED
    BY <1>2, <2>5, <2>6 DEF IInv, IdLeft, Waiting, Over, Aborted
<1> QED
  BY <1>1, <1>4, <1>5 DEF AddConnection

\* A read ends for good, and with it the connection, if it is still there.
LEMMA ReadFailedKeeps ==
  ASSUME IInv, NEW c, DeleteConnection(c) \/ CallsNobody(c)
  PROVE  IInv'
<1>1. /\ reads' = [d \in DOMAIN reads \cap (DOMAIN reads \ {c}) |-> reads[d]]
      /\ pool' = pool \ {c}
      /\ status' \in {"running", "crashed"}
      /\ UNCHANGED << acceptor, bindWait, bindError, accept, nextClientId, signals,
                      posted, told, port >>
  BY DEF DeleteConnection, CallsNobody, ReadFailed, Running, Restrict
<1> QED
  BY <1>1 DEF IInv, TypeOK, IdLeft, Late, port

LEMMA ShutdownKeeps == ASSUME IInv, Shutdown PROVE IInv'
<1>1. /\ Running /\ posted > 0 /\ posted' = posted - 1 /\ told' = TRUE
      /\ acceptor' = "closed" /\ accept' = Abort(accept)
      /\ bindWait' = Abort(bindWait) /\ pool' = {}
      /\ reads' = [c \in DOMAIN reads |->
                     IF c \in pool THEN Abort(reads[c]) ELSE reads[c]]
      /\ UNCHANGED << status, bindError, nextClientId, signals, port >>
  BY DEF Shutdown
<1>2. /\ accept' \in {None, Over, Aborted} /\ accept' # Waiting
      /\ bindWait' \in {None, Over, Aborted}
      /\ accept' = Over => accept = Over
  BY <1>1 DEF IInv, TypeOK, Abort, None, Waiting, Over, Aborted
<1>3. \A c \in DOMAIN reads : reads'[c] \in {Waiting, Aborted}
  BY <1>1 DEF IInv, TypeOK, Abort
<1>4. TypeOK'
  <2>1. DOMAIN reads' = DOMAIN reads /\ pool' \subseteq DOMAIN reads'
    BY <1>1
  <2>2. posted' \in 0 .. signals
    <3>1. posted \in Nat /\ signals \in Nat /\ posted <= signals
      BY Numbers DEF IInv
    <3>2. posted > 0 /\ posted' = posted - 1
      BY <1>1
    <3> QED
      BY <3>1, <3>2
  <2> QED
    BY <1>1, <1>2, <1>3, <2>1, <2>2 DEF IInv, TypeOK, port
<1>5. Late'
  BY <1>1, <1>2 DEF Late, Running
<1> QED
  BY <1>1, <1>2, <1>4, <1>5 DEF IInv, IdLeft

\* The other handlers only end an operation.
LEMMA HandlersKeep ==
  ASSUME IInv, BindInterrupted \/ AcceptInterrupted \/ RunEnds
  PROVE  IInv'
<1>1. CASE BindInterrupted
  BY <1>1 DEF BindInterrupted, IInv, TypeOK, IdLeft, Late, port
<1>2. CASE AcceptInterrupted
  BY <1>2 DEF AcceptInterrupted, IInv, TypeOK, IdLeft, Late, port, None, Waiting,
              Over, Aborted
<1>3. CASE RunEnds
  BY <1>3 DEF RunEnds, IInv, TypeOK, IdLeft, Late, port
<1> QED
  BY <1>1, <1>2, <1>3

LEMMA WorldKeeps == ASSUME IInv, World PROVE IInv'
<1>1. CASE Signalled
  <2>1. /\ signals < MaxSignals /\ signals' = signals + 1 /\ posted' = posted + 1
        /\ UNCHANGED << status, acceptor, bindWait, bindError, accept, pool, reads,
                        nextClientId, told, port >>
    BY <1>1 DEF Signalled
  <2>2. signals' \in 0 .. MaxSignals /\ posted' \in 0 .. signals'
    <3>1. posted \in Nat /\ signals \in Nat /\ posted <= signals
      BY Numbers DEF IInv
    <3> QED
      BY <2>1, <3>1, AcceptorAssumption
  <2> QED
    BY <2>1, <2>2 DEF IInv, TypeOK, IdLeft, Late, port
<1>2. CASE FiveSecondsPass
  BY <1>2 DEF FiveSecondsPass, IInv, TypeOK, IdLeft, Late, port
<1>3. CASE ClientConnects
  BY <1>3 DEF ClientConnects, IInv, TypeOK, IdLeft, Late, port, None, Waiting,
              Over, Aborted
<1>4. CASE AcceptFails
  BY <1>4 DEF AcceptFails, IInv, TypeOK, IdLeft, Late, port, None, Waiting, Over,
              Aborted
<1>5. ASSUME NEW c \in ClientId, ClientLeaves(c)
      PROVE  IInv'
  <2>1. /\ DOMAIN reads' = DOMAIN reads
        /\ \A d \in DOMAIN reads' : reads'[d] \in {Waiting, Aborted}
        /\ UNCHANGED << status, acceptor, bindWait, bindError, accept, pool,
                        nextClientId, signals, posted, told, port >>
    BY <1>5 DEF ClientLeaves, IInv, TypeOK
  <2> QED
    BY <2>1 DEF IInv, TypeOK, IdLeft, Late, port
<1>6. CASE PortChanges
  <2>1. /\ takes < MaxPorts /\ takes' = takes + 1
        /\ UNCHANGED << status, acceptor, bindWait, bindError, accept, pool, reads,
                        nextClientId, signals, posted, told >>
    BY <1>6 DEF PortChanges
  <2>2. takes' \in 0 .. MaxPorts
    <3>1. takes \in Nat
      BY Numbers DEF IInv
    <3> QED
      BY <2>1, <3>1, AcceptorAssumption
  <2>3. taken' \in BOOLEAN
    BY <1>6 DEF PortChanges
  <2> QED
    BY <2>1, <2>2, <2>3 DEF IInv, TypeOK, IdLeft, Late
<1> QED
  BY <1>1, <1>2, <1>3, <1>4, <1>5, <1>6 DEF World

LEMMA NextIInv == IInv /\ [Next]_vars => IInv'
<1> SUFFICES ASSUME IInv, [Next]_vars PROVE IInv'
  OBVIOUS
<1>1. CASE UNCHANGED vars
  BY <1>1 DEF vars, IInv, TypeOK, IdLeft, Late
<1> QED
  BY <1>1, ServeKeeps, BindAgainKeeps, HandleAcceptKeeps, ReadFailedKeeps,
     ShutdownKeeps, HandlersKeep, WorldKeeps DEF Next, Handlers

THEOREM Invariance == Spec => []IInv
BY InitIInv, NextIInv, PTL DEF Spec

-----------------------------------------------------------------------------

\* The variables keep their types; among others, every connection in the pool has a
\* read under way or completed, which is what will delete it.
THEOREM TypeCorrect == Spec => []TypeOK
<1>1. IInv => TypeOK
  BY DEF IInv
<1> QED
  BY <1>1, Invariance, PTL

\* However accepts, signals and tries to bind interleave, TcpServer::stop lets at
\* most one more connection in.
THEOREM StopLetsOneIn == Spec => []OneComesLate
<1>1. IInv => OneComesLate
  <2> SUFFICES ASSUME Late, told PROVE Cardinality(pool) <= 1
    BY DEF IInv, OneComesLate
  <2>1. PICK c : pool \subseteq {c}
    BY DEF Late
  <2>2. pool = {} \/ pool = {c}
    BY <2>1
  <2>3. Cardinality({}) = 0 /\ Cardinality({c}) = 1
    BY FS_EmptySet, FS_Singleton
  <2> QED
    BY <2>2, <2>3
<1> QED
  BY <1>1, Invariance, PTL
=============================================================================
