------------------------------ MODULE Acceptor ------------------------------
(***************************************************************************)
(* How the server comes up and goes down (tcpserver.cpp, and of server.cpp *)
(* serve, addConnection, signalled and shutdown): the bind that is tried   *)
(* again while somebody else has the port, the accept that is always       *)
(* waiting, the signal, and what is left for io_.run() to wait for.        *)
(*                                                                         *)
(* An operation on the io_service is waiting, or has completed with its    *)
(* handler still to run.  cancel() and close() reach only what is waiting. *)
(* Server.tla has what happens on the connections and the timer of the     *)
(* game, which is left out here.                                           *)
(***************************************************************************)
EXTENDS Integers, FiniteSets, Functions

CONSTANTS
  MaxClients,  \* bound: connections accepted
  MaxSignals,  \* bound: signals
  MaxPorts     \* bound: times another program takes the port

ASSUME AcceptorAssumption == /\ MaxClients \in Nat
                             /\ MaxSignals \in Nat
                             /\ MaxPorts \in Nat

VARIABLES
  status,     \* of the process: before serve, in io_.run(), done, or crashed
  acceptor,   \* acceptor_
  bindWait,   \* the wait of bindTimer_
  bindError,  \* what the last bind came to
  accept,     \* the async_accept
  pool,       \* connectionPool_: client ids
  reads,      \* client id -> the read of its socket
  nextClientId,
  signals,    \* signals that came
  posted,     \* shutdowns that are posted
  told,       \* shutdown has run
  taken,      \* another program has the port
  takes       \* how often one took it

vars == << status, acceptor, bindWait, bindError, accept, pool, reads,
           nextClientId, signals, posted, told, taken, takes >>

port == << taken, takes >>

ClientId == 0 .. MaxClients - 1

None == "none"

\* Of an operation, by what its handler will be told.
Waiting == "waiting"
Over == "over"
Aborted == "aborted"

Init == /\ status = "starting"
        /\ acceptor = "closed"
        /\ bindWait = None
        /\ bindError = None
        /\ accept = None
        /\ pool = {}
        /\ reads = [c \in {} |-> None]
        /\ nextClientId = 0
        /\ signals = 0
        /\ posted = 0
        /\ told = FALSE
        /\ taken \in BOOLEAN
        /\ takes = 0

Abort(op) == IF op = Waiting THEN Aborted ELSE op

Running == status = "running"

-----------------------------------------------------------------------------
(* TcpServer *)

\* startAccept with the acceptor in state a: on a closed one it fails at once.
StartAccept(a) == accept' = IF a = "listening" THEN Waiting ELSE Aborted

\* Mutant of StartBind: the wait for the next try is not started.
StartBind_Once(a) ==
  \/ /\ a = "open" /\ taken
     /\ bindError' = "in use" /\ bindWait' = None
     /\ acceptor' = a /\ UNCHANGED accept
  \/ /\ a = "open" /\ ~taken
     /\ bindError' = None /\ bindWait' = None
     /\ acceptor' = "listening" /\ StartAccept("listening")

\* startBind without an error, with the acceptor in state a.  The bind may fail
\* for a reason of its own, and does if the acceptor was closed.
StartBind(a) ==
  \/ /\ a = "open" /\ taken
     /\ bindError' = "in use" /\ bindWait' = Waiting
     /\ acceptor' = a /\ UNCHANGED accept
  \/ /\ bindError' = "other" /\ bindWait' = None
     /\ acceptor' = a /\ UNCHANGED accept
  \/ /\ a = "open" /\ ~taken
     /\ bindError' = None /\ bindWait' = None
     /\ acceptor' = "listening" /\ StartAccept("listening")

\* Server::serve, to the start of io_.run().
Serve ==
  /\ status = "starting"
  /\ status' = "running"
  /\ StartBind("open")
  /\ UNCHANGED << pool, reads, nextClientId, signals, posted, told, port >>

\* startBind as the handler of the wait.
BindAgain ==
  /\ Running /\ bindWait = Over
  /\ StartBind(acceptor)
  /\ UNCHANGED << status, pool, reads, nextClientId, signals, posted, told,
                  port >>

BindInterrupted ==
  /\ Running /\ bindWait = Aborted
  /\ bindWait' = None
  /\ UNCHANGED << status, acceptor, bindError, accept, pool, reads,
                  nextClientId, signals, posted, told, port >>

\* Server::addConnection: with a game on, the connection is closed and forgotten.
AddConnection ==
  \/ UNCHANGED << pool, reads, nextClientId >>
  \/ /\ pool' = pool \cup {nextClientId}
     /\ reads' = [c \in DOMAIN reads \cup {nextClientId} |->
                    IF c = nextClientId THEN Waiting ELSE reads[c]]
     /\ nextClientId' = nextClientId + 1

\* handleAccept with a connection.
HandleAccept ==
  /\ Running /\ accept = Over
  /\ AddConnection
  /\ StartAccept(acceptor)
  /\ UNCHANGED << status, acceptor, bindWait, bindError, signals, posted, told,
                  port >>

\* handleAccept with an error: no other accept is started.
AcceptInterrupted ==
  /\ Running /\ accept = Aborted
  /\ accept' = None
  /\ UNCHANGED << status, acceptor, bindWait, bindError, pool, reads,
                  nextClientId, signals, posted, told, port >>

-----------------------------------------------------------------------------
(* Server *)

ReadFailed(c) ==
  /\ Running /\ c \in DOMAIN reads /\ reads[c] = Aborted
  /\ reads' = Restrict(reads, DOMAIN reads \ {c})
  /\ UNCHANGED << acceptor, bindWait, bindError, accept, nextClientId, signals,
                  posted, told, port >>

\* handleRead with an error, of a connection in the pool: Server::deleteConnection.
DeleteConnection(c) ==
  /\ ReadFailed(c) /\ c \in pool
  /\ pool' = pool \ {c}
  /\ UNCHANGED status

\* Of one that shutdown has destroyed: the signals of its socket, which the handler
\* keeps, are still bound to its own ("TODO: should disconnect these on
\* destruction").  The call is lost, or the end of the process.
CallsNobody(c) ==
  /\ ReadFailed(c) /\ c \notin pool
  /\ status' \in {"running", "crashed"}
  /\ UNCHANGED pool

\* Server::signalled, wherever the process is.
Signalled ==
  /\ status \in {"starting", "running"} /\ signals < MaxSignals
  /\ signals' = signals + 1
  /\ posted' = posted + 1
  /\ UNCHANGED << status, acceptor, bindWait, bindError, accept, pool, reads,
                  nextClientId, told, port >>

\* Mutants of Shutdown: the acceptor is cancelled and not closed; the connections
\* are dropped and not closed.
Shutdown_Cancels ==
  /\ Running /\ posted > 0
  /\ posted' = posted - 1
  /\ told' = TRUE
  /\ accept' = Abort(accept)
  /\ bindWait' = Abort(bindWait)
  /\ reads' = [c \in DOMAIN reads |-> Abort(reads[c])]
  /\ pool' = {}
  /\ UNCHANGED << status, acceptor, bindError, nextClientId, signals, port >>

Shutdown_ClosesNobody ==
  /\ Running /\ posted > 0
  /\ posted' = posted - 1
  /\ told' = TRUE
  /\ acceptor' = "closed"
  /\ accept' = Abort(accept)
  /\ bindWait' = Abort(bindWait)
  /\ pool' = {}
  /\ UNCHANGED << status, bindError, reads, nextClientId, signals, port >>

\* Server::shutdown, with TcpServer::stop.
Shutdown ==
  /\ Running /\ posted > 0
  /\ posted' = posted - 1
  /\ told' = TRUE
  /\ acceptor' = "closed"
  /\ accept' = Abort(accept)
  /\ bindWait' = Abort(bindWait)
  /\ reads' = [c \in DOMAIN reads |->
                 IF c \in pool THEN Abort(reads[c]) ELSE reads[c]]
  /\ pool' = {}
  /\ UNCHANGED << status, bindError, nextClientId, signals, port >>

\* io_.run() returns when there is nothing to wait for.
RunEnds ==
  /\ Running
  /\ bindWait = None /\ accept = None /\ DOMAIN reads = {} /\ posted = 0
  /\ status' = "done"
  /\ UNCHANGED << acceptor, bindWait, bindError, accept, pool, reads,
                  nextClientId, signals, posted, told, port >>

-----------------------------------------------------------------------------
(* The operating system and the clients. *)

FiveSecondsPass ==
  /\ bindWait = Waiting
  /\ bindWait' = Over
  /\ UNCHANGED << status, acceptor, bindError, accept, pool, reads,
                  nextClientId, signals, posted, told, port >>

ClientConnects ==
  /\ accept = Waiting /\ nextClientId < MaxClients
  /\ accept' = Over
  /\ UNCHANGED << status, acceptor, bindWait, bindError, pool, reads,
                  nextClientId, signals, posted, told, port >>

\* There is no descriptor left for another socket.
AcceptFails ==
  /\ accept = Waiting
  /\ accept' = Aborted
  /\ UNCHANGED << status, acceptor, bindWait, bindError, pool, reads,
                  nextClientId, signals, posted, told, port >>

ClientLeaves(c) ==
  /\ c \in DOMAIN reads /\ reads[c] = Waiting
  /\ reads' = [reads EXCEPT ![c] = Aborted]
  /\ UNCHANGED << status, acceptor, bindWait, bindError, accept, pool,
                  nextClientId, signals, posted, told, port >>

PortChanges ==
  /\ acceptor # "listening" /\ takes < MaxPorts
  /\ taken' = ~taken
  /\ takes' = takes + 1
  /\ UNCHANGED << status, acceptor, bindWait, bindError, accept, pool, reads,
                  nextClientId, signals, posted, told >>

-----------------------------------------------------------------------------

Handlers == \/ BindAgain \/ BindInterrupted \/ HandleAccept \/ AcceptInterrupted
            \/ (\E c \in ClientId : DeleteConnection(c) \/ CallsNobody(c))
            \/ Shutdown \/ RunEnds

World == \/ Signalled \/ FiveSecondsPass \/ ClientConnects \/ AcceptFails
         \/ (\E c \in ClientId : ClientLeaves(c)) \/ PortChanges

Next == Serve \/ Handlers \/ World

Spec == Init /\ [][Next]_vars

\* The process starts and runs the handlers that are queued, and the clock goes.
Fairness == /\ WF_vars(Serve)
            /\ WF_vars(BindAgain) /\ WF_vars(BindInterrupted)
            /\ WF_vars(HandleAccept) /\ WF_vars(AcceptInterrupted)
            /\ \A c \in ClientId : WF_vars(DeleteConnection(c) \/ CallsNobody(c))
            /\ WF_vars(Shutdown) /\ WF_vars(RunEnds)
            /\ WF_vars(FiveSecondsPass)

FairSpec == Spec /\ Fairness

-----------------------------------------------------------------------------
(* Properties. *)

TypeOK ==
  /\ status \in {"starting", "running", "done", "crashed"}
  /\ acceptor \in {"closed", "open", "listening"}
  /\ bindWait \in {None, Waiting, Over, Aborted}
  /\ bindError \in {None, "in use", "other"}
  /\ accept \in {None, Waiting, Over, Aborted}
  /\ pool \subseteq DOMAIN reads
  /\ DOMAIN reads \subseteq ClientId
  /\ \A c \in DOMAIN reads : reads[c] \in {Waiting, Aborted}
  /\ nextClientId \in 0 .. MaxClients
  /\ signals \in 0 .. MaxSignals /\ posted \in 0 .. signals
  /\ told \in BOOLEAN /\ taken \in BOOLEAN /\ takes \in 0 .. MaxPorts

\* After shutdown at most one connection is let in, the one whose accept had
\* completed when the acceptor was closed.
OneComesLate == told => Cardinality(pool) <= 1

\* Once shutdown has run the process ends, whatever was waiting then, unless one
\* came late, who keeps it up until he leaves.
StopsWhenTold == told ~> ~Running \/ pool # {}

\* A server that could not bind because somebody else had the port listens when
\* the port stays free, unless it is told to stop first or bind fails for another
\* reason.
ListensInTheEnd ==
  <>[]~taken => <>(acceptor = "listening" \/ signals > 0 \/ bindError = "other")
=============================================================================
