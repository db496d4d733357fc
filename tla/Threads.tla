------------------------------ MODULE Threads -------------------------------
(***************************************************************************)
(* The two threads of the client program (gtk/main.cpp): the GUI thread    *)
(* with its loop, and the thread that runs the io_service.  They meet in   *)
(* the three CrossThreadSignals of the UI, in the socket, and when the     *)
(* program ends.                                                           *)
(*                                                                         *)
(* A step is what a thread does between two points where the other may     *)
(* see a difference: a call is put on a list under the list's mutex, the   *)
(* alert for it is written afterwards, and flush holds the mutex while the *)
(* calls run.  All Glib::Dispatchers of a thread share one pipe.           *)
(***************************************************************************)
EXTENDS Integers, Sequences

CONSTANTS
  MaxNet,    \* bound: messages from servers
  MaxDials,  \* bound: attempts to connect
  MaxInRead  \* bound: messages one read completes

ASSUME ThreadsAssumption == /\ MaxNet \in Nat
                            /\ MaxDials \in Nat
                            /\ MaxInRead \in Nat

\* messageSignal_, netMessageSignal_ and disconnectSignal_ of UI::Impl.
Signal == {"message", "net", "disconnect"}
Thread == {"gui", "io"}
None == "none"

VARIABLES
  pending,    \* pendingCalls_ of each signal, calls by their argument
  flushing,   \* the signal whose mutex the GUI thread holds for flush
  alerts,     \* the pipe of the dispatchers
  raising,    \* for each thread, the signals it is about to raise
  alerting,   \* for each thread, the signal it has to write the alert for
  gui,        \* where the GUI thread is
  io,         \* where the I/O thread is
  timer,      \* timer_ of IoThread
  client,     \* client_ is there, and its socket open
  read,       \* the read of the socket
  dials,      \* attempts to connect
  sent, got   \* history: messages off the socket, and those handled

vars == << pending, flushing, alerts, raising, alerting, gui, io, timer, client,
           read, dials, sent, got >>

calls == << pending, alerts, raising, alerting >>
history == << sent, got >>

Raise(s, arg) == [signal |-> s, arg |-> arg]

\* UI::message, which raises its signal on either thread.
Said == Raise("message", 0)

Init == /\ pending = [s \in Signal |-> << >>]
        /\ flushing = None
        /\ alerts = << >>
        /\ raising = [t \in Thread |-> << >>]
        /\ alerting = [t \in Thread |-> None]
        /\ gui = "loop"
        /\ io = "unstarted"
        /\ timer = "unset"
        /\ client = FALSE
        /\ read = None
        /\ dials = 0
        /\ sent = << >>
        /\ got = << >>

\* A thread is done with the calls of operator() it had to make.
Through(t) == raising[t] = << >> /\ alerting[t] = None

Will(t, raises) == raising' = [raising EXCEPT ![t] = raises]

-----------------------------------------------------------------------------
(* CrossThreadSignal *)

\* Mutant of Push: the call is put in front of those that wait.
Push_Front(t) ==
  /\ raising[t] # << >> /\ alerting[t] = None
  /\ LET r == Head(raising[t])
     IN  /\ flushing # r.signal
         /\ pending' = [pending EXCEPT ![r.signal] = << r.arg >> \o @]
         /\ alerting' = [alerting EXCEPT ![t] = r.signal]
  /\ Will(t, Tail(raising[t]))
  /\ UNCHANGED << flushing, alerts, gui, io, timer, client, read, dials,
                  sent, got >>

\* operator() under the mutex.  It waits while the list is being flushed.
Push(t) ==
  /\ raising[t] # << >> /\ alerting[t] = None
  /\ LET r == Head(raising[t])
     IN  /\ flushing # r.signal
         /\ pending' = [pending EXCEPT ![r.signal] = Append(@, r.arg)]
         /\ alerting' = [alerting EXCEPT ![t] = r.signal]
  /\ Will(t, Tail(raising[t]))
  /\ UNCHANGED << flushing, alerts, gui, io, timer, client, read, dials,
                  sent, got >>

\* Mutant of Alert: one alert in the pipe is enough to wake the GUI thread.
Alert_Once(t) ==
  /\ alerting[t] # None
  /\ alerts' = IF alerts = << >> THEN << alerting[t] >> ELSE alerts
  /\ alerting' = [alerting EXCEPT ![t] = None]
  /\ UNCHANGED << pending, flushing, raising, gui, io, timer, client, read, dials, history >>

\* operator() after the mutex: callAlert_().
Alert(t) ==
  /\ alerting[t] # None
  /\ alerts' = Append(alerts, alerting[t])
  /\ alerting' = [alerting EXCEPT ![t] = None]
  /\ UNCHANGED << pending, flushing, raising, gui, io, timer, client, read, dials, history >>

\* The GUI loop reads an alert, and flush takes the mutex.
Flush ==
  /\ gui = "loop" /\ flushing = None /\ alerts # << >> /\ Through("gui")
  /\ flushing' = Head(alerts)
  /\ alerts' = Tail(alerts)
  /\ UNCHANGED << pending, raising, alerting, gui, io, timer, client, read, dials, history >>

\* flush has emptied the list and gives the mutex back.
Flushed ==
  /\ gui = "loop" /\ flushing # None /\ Through("gui")
  /\ pending[flushing] = << >>
  /\ flushing' = None
  /\ UNCHANGED << calls, gui, io, timer, client, read, dials, history >>

\* flush runs the next call and takes it off the list.
Calls(s) ==
  /\ gui = "loop" /\ flushing = s /\ pending[s] # << >> /\ Through("gui")
  /\ pending' = [pending EXCEPT ![s] = Tail(@)]
  /\ UNCHANGED << flushing, alerts, alerting, io, timer, client, read,
                  dials, sent >>

\* UI::writeMessage shows the text.
WriteMessage ==
  /\ Calls("message")
  /\ UNCHANGED << raising, gui, got >>

\* UI::handleNetMessage; some reactions say something in turn.
HandleNetMessage ==
  /\ Calls("net")
  /\ got' = Append(got, Head(pending["net"]))
  /\ \E words \in {<< >>, << Said >>} : Will("gui", words)
  /\ UNCHANGED gui

\* UI::disconnect: the machine leaves Connected.
Disconnect ==
  /\ Calls("disconnect")
  /\ IF client THEN Will("gui", << Said >>) /\ gui' = "hanging up"
               ELSE UNCHANGED << raising, gui >>
  /\ UNCHANGED got

-----------------------------------------------------------------------------
(* The rest of the GUI thread. *)

\* socket_.close() completes a pending read with an error.
ReadClosed == IF read = "pending" THEN "failed" ELSE read

\* Connected::~Connected, in a disconnection or on the way out.
HangUp ==
  /\ gui \in {"hanging up", "quitting"} /\ Through("gui")
  /\ gui' = IF gui = "quitting" THEN "leaving" ELSE "loop"
  /\ client' = FALSE
  /\ read' = ReadClosed
  /\ UNCHANGED << calls, flushing, io, timer, dials, history >>

\* NotConnected::react(Connect): UI::makeClient, to the words of the socket.
Dial ==
  /\ gui = "loop" /\ flushing = None /\ Through("gui")
  /\ ~client /\ dials < MaxDials
  /\ dials' = dials + 1
  /\ gui' = "dialling"
  /\ Will("gui", << Said >>)
  /\ UNCHANGED << pending, flushing, alerts, alerting, io, timer, client, read, history >>

\* makeClient has connected the signals of the socket to those of the UI when
\* TcpSocket::connect succeeds and starts the first read.
Connect ==
  /\ gui = "dialling" /\ Through("gui")
  /\ gui' = "loop"
  /\ client' = TRUE
  /\ read' = "pending"
  /\ UNCHANGED << calls, flushing, io, timer, dials, history >>

\* It fails; the exception ends in NotConnected::react.
ConnectFails ==
  /\ gui = "dialling" /\ Through("gui")
  /\ gui' = "loop"
  /\ Will("gui", << Said >>)
  /\ UNCHANGED << pending, flushing, alerts, alerting, io, timer, client, read,
                  dials, history >>

\* Mutant of Quit: the connection is left as it is.
Quit_LeavesOpen ==
  /\ gui = "loop" /\ flushing = None /\ Through("gui")
  /\ gui' = "leaving"
  /\ UNCHANGED << calls, flushing, io, timer, client, read, dials, history >>

\* The user closes the window: the machine terminates, by way of ~Connected if it
\* is there, and Gtk::Main::run returns.
Quit ==
  /\ gui = "loop" /\ flushing = None /\ Through("gui")
  /\ IF client THEN gui' = "quitting" /\ Will("gui", << Said >>)
               ELSE gui' = "leaving" /\ UNCHANGED raising
  /\ UNCHANGED << pending, flushing, alerts, alerting, io, timer, client, read,
                  dials, history >>

\* IoThread::interrupt cancels the wait, if there is one.
Interrupt ==
  /\ gui = "leaving"
  /\ gui' = "joining"
  /\ timer' = IF timer = "waiting" THEN "aborted" ELSE timer
  /\ UNCHANGED << calls, flushing, io, client, read, dials, history >>

\* main: join() returns.
Join ==
  /\ gui = "joining" /\ io = "ended"
  /\ gui' = "done"
  /\ UNCHANGED << calls, flushing, io, timer, client, read, dials,
                  history >>

-----------------------------------------------------------------------------
(* The I/O thread: the handlers of its io_service. *)

Free == io = "running" /\ Through("io")

\* IoThread::operator().
StartThread ==
  /\ io = "unstarted"
  /\ io' = "running"
  /\ timer' = "waiting"
  /\ UNCHANGED << calls, flushing, gui, client, read, dials, history >>

\* TcpSocket::handleRead with n messages.
HandleRead(n) ==
  /\ Free /\ read = "complete"
  /\ LET fresh == [i \in 1 .. n |-> Len(sent) + i]
     IN  /\ sent' = sent \o fresh
         /\ Will("io", [i \in 1 .. n |-> Raise("net", fresh[i])])
  /\ io' = "reading" /\ read' = None
  /\ UNCHANGED << pending, flushing, alerts, alerting, gui, timer, client, dials,
                  got >>

\* Its end: a read of a socket that was closed meanwhile fails at once.
ContinueRead ==
  /\ io = "reading" /\ Through("io")
  /\ io' = "running"
  /\ read' = IF client THEN "pending" ELSE "failed"
  /\ UNCHANGED << calls, flushing, gui, timer, client, dials, history >>

\* Mutant of HandleReadError: the I/O thread disconnects the machine itself.
HandleReadError_AtOnce ==
  /\ Free /\ read = "failed"
  /\ read' = None
  /\ client' = FALSE
  /\ Will("io", << Said >>)
  /\ UNCHANGED << pending, flushing, alerts, alerting, gui, io, timer, dials,
                  history >>

\* handleRead with an error.
HandleReadError ==
  /\ Free /\ read = "failed"
  /\ read' = None
  /\ Will("io", << Said, Raise("disconnect", 0) >>)
  /\ UNCHANGED << pending, flushing, alerts, alerting, gui, io, timer, client,
                  dials, history >>

\* IoThread::timerExpired sets the timer; it starts the wait in a step of its own.
TimerExpired ==
  /\ Free /\ timer = "over"
  /\ io' = "setting"
  /\ timer' = "unset"
  /\ UNCHANGED << calls, flushing, gui, client, read, dials, history >>

WaitAgain ==
  /\ io = "setting"
  /\ io' = "running"
  /\ timer' = "waiting"
  /\ UNCHANGED << calls, flushing, gui, client, read, dials, history >>

TimerInterrupted ==
  /\ Free /\ timer = "aborted"
  /\ timer' = "stopped"
  /\ UNCHANGED << calls, flushing, gui, io, client, read, dials,
                  history >>

\* io_.run() returns when nothing is left to wait for.
RunEnds ==
  /\ Free /\ timer = "stopped" /\ read = None
  /\ io' = "ended"
  /\ UNCHANGED << calls, flushing, gui, timer, client, read, dials,
                  history >>

-----------------------------------------------------------------------------
(* The operating system. *)

ReadCompletes ==
  /\ read = "pending" /\ Len(sent) < MaxNet
  /\ read' = "complete"
  /\ UNCHANGED << calls, flushing, gui, io, timer, client, dials,
                  history >>

ConnectionBreaks ==
  /\ read = "pending"
  /\ read' = "failed"
  /\ UNCHANGED << calls, flushing, gui, io, timer, client, dials,
                  history >>

SecondPasses ==
  /\ timer = "waiting"
  /\ timer' = "over"
  /\ UNCHANGED << calls, flushing, gui, io, client, read, dials,
                  history >>

-----------------------------------------------------------------------------

Raises(t) == Push(t) \/ Alert(t)

GuiSteps == \/ Raises("gui") \/ Flush \/ Flushed
            \/ WriteMessage \/ HandleNetMessage \/ Disconnect
            \/ HangUp \/ Connect \/ ConnectFails \/ Interrupt \/ Join

Reads == \E n \in 1 .. MaxInRead : Len(sent) + n <= MaxNet /\ HandleRead(n)

IoSteps == \/ Raises("io") \/ StartThread \/ Reads
           \/ ContinueRead \/ HandleReadError \/ TimerExpired \/ WaitAgain
           \/ TimerInterrupted \/ RunEnds

User == Dial \/ Quit

System == ReadCompletes \/ ConnectionBreaks \/ SecondPasses

Next == GuiSteps \/ IoSteps \/ User \/ System

Spec == Init /\ [][Next]_vars

\* Neither thread stops for ever where it could go on, and a handler that is queued
\* is not passed over for ever: the io_service runs them in turn.  Nothing is
\* assumed of the user and the network.
Fairness == /\ WF_vars(GuiSteps)
            /\ WF_vars(Raises("io") \/ StartThread \/ ContinueRead \/ WaitAgain)
            /\ SF_vars(Reads \/ HandleReadError)
            /\ SF_vars(TimerInterrupted) /\ SF_vars(RunEnds)

FairSpec == Spec /\ Fairness

-----------------------------------------------------------------------------
(* Properties. *)

Quitting == gui \in {"quitting", "leaving", "joining", "done"}

TypeOK ==
  /\ pending \in [Signal -> Seq(0 .. MaxNet)]
  /\ flushing \in Signal \cup {None}
  /\ alerts \in Seq(Signal)
  /\ raising \in [Thread -> Seq([signal : Signal, arg : 0 .. MaxNet])]
  /\ alerting \in [Thread -> Signal \cup {None}]
  /\ gui \in {"loop", "hanging up", "dialling", "quitting", "leaving",
              "joining", "done"}
  /\ io \in {"unstarted", "running", "reading", "setting", "ended"}
  /\ timer \in {"unset", "waiting", "over", "aborted", "stopped"}
  /\ client \in BOOLEAN
  /\ read \in {None, "pending", "complete", "failed"}
  /\ dials \in 0 .. MaxDials
  /\ sent \in Seq(1 .. MaxNet) /\ got \in Seq(1 .. MaxNet)

\* The machine handles what was read from the socket in the order in which it was
\* read, each message once: between the threads as between the programs (Delivery).
Channel == INSTANCE Delivery
Delivers == Channel!Spec

\* disconnectSignal_ is a signal of its own, and yet it does not overtake
\* netMessageSignal_: a machine that is not connected has handled all that its
\* connections brought, so that nothing of the last is left for the next.
AllHandledBeforeNext == ~client /\ gui = "loop" => got = sent

\* While the program runs, no message stays on a list for want of an alert, and a
\* connection that has failed is given up.
NothingForgotten ==
  /\ got # sent ~> got = sent \/ Quitting
  /\ read = "failed" ~> ~client \/ Quitting

\* If interrupt finds a wait to cancel, the I/O thread ends and join returns,
\* whatever the connection was doing.
QuitEnds == gui = "joining" /\ timer = "aborted" ~> gui = "done"
=============================================================================
