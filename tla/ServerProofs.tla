---------------------------- MODULE ServerProofs ----------------------------
(***************************************************************************)
(* The server's books are in order whoever comes, goes, readies, pauses or *)
(* disconnects, and whenever: for any number of clients and players, any   *)
(* countdown, and any size of level and of hash table.                     *)
(***************************************************************************)
EXTENDS Server, TLAPS

\* Every player has his connection.
Housed(cs, ps) == \A p \in DOMAIN ps : ps[p].client \in DOMAIN cs

\* What a handler has made of the connections, the players, the game and the
\* scores, when it comes to tick.
Sound(cs, ps, on, sc) ==
  /\ IsPartial(cs, ClientId, BOOLEAN)
  /\ IsPartial(ps, PlayerId, PlayerType)
  /\ on \in BOOLEAN
  /\ sc \in SUBSET PlayerId
  /\ listening => Housed(cs, ps)
  /\ ~on => sc = {}
  /\ on /\ listening => DOMAIN cs # {}

\* The part of the invariant a tick may disturb.
Books == /\ Sound(conns, players, game, scorer)
         /\ pausing \in BOOLEAN
         /\ paused \in BOOLEAN
         /\ timer \in (0 .. Countdown) \cup {Idle}
         /\ queued \in Seq(Wait)
         /\ fault \in Fault \ {"score twice"}
         /\ NeverStalls

IInv == /\ listening \in BOOLEAN
        /\ nextClientId \in 0 .. MaxClients
        /\ nextPlayerId \in 0 .. MaxAdds
        /\ Books

-----------------------------------------------------------------------------
(* What the helpers of a tick do to the players and to the waits. *)

\* The players are the same ones afterwards, at the same connections.
LEMMA ResetSame ==
  ASSUME NEW ps, IsPartial(ps, PlayerId, PlayerType)
  PROVE  /\ IsPartial(AllReset(ps), PlayerId, PlayerType)
         /\ DOMAIN AllReset(ps) = DOMAIN ps
         /\ \A p \in DOMAIN ps : AllReset(ps)[p].client = ps[p].client
<1>1. \A p \in DOMAIN ps : ps[p] \in PlayerType
  BY DEF IsPartial
<1>2. \A p \in DOMAIN ps :
        /\ AllReset(ps)[p] \in PlayerType
        /\ AllReset(ps)[p].client = ps[p].client
  <2> SUFFICES ASSUME NEW p \in DOMAIN ps
               PROVE  /\ AllReset(ps)[p] \in PlayerType
                      /\ AllReset(ps)[p].client = ps[p].client
    OBVIOUS
  <2>1. AllReset(ps)[p] = [ps[p] EXCEPT !.nominal = "none", !.turns = 0]
    BY DEF AllReset
  <2>2. ps[p] \in PlayerType /\ 0 \in 0 .. MaxTurns
    BY <1>1, ServerAssumption DEF ServerAssumption
  <2> QED
    BY <2>1, <2>2 DEF PlayerType
<1>3. DOMAIN AllReset(ps) = DOMAIN ps
  BY DEF AllReset
<1>4. AllReset(ps) = [p \in DOMAIN ps |-> AllReset(ps)[p]]
  BY DEF AllReset
<1> QED
  BY <1>2, <1>3, <1>4 DEF IsPartial

LEMMA DequeuedSame ==
  ASSUME NEW ps, IsPartial(ps, PlayerId, PlayerType)
  PROVE  /\ IsPartial(AllDequeued(ps), PlayerId, PlayerType)
         /\ DOMAIN AllDequeued(ps) = DOMAIN ps
         /\ \A p \in DOMAIN ps : AllDequeued(ps)[p].client = ps[p].client
<1>1. \A p \in DOMAIN ps : ps[p] \in PlayerType
  BY DEF IsPartial
<1>2. \A p \in DOMAIN ps :
        /\ AllDequeued(ps)[p] \in PlayerType
        /\ AllDequeued(ps)[p].client = ps[p].client
  <2> SUFFICES ASSUME NEW p \in DOMAIN ps
               PROVE  /\ AllDequeued(ps)[p] \in PlayerType
                      /\ AllDequeued(ps)[p].client = ps[p].client
    OBVIOUS
  <2> DEFINE n == IF ps[p].turns = 0 THEN 0 ELSE ps[p].turns - 1
  <2>1. ps[p] \in PlayerType /\ ps[p].turns \in 0 .. MaxTurns
    BY <1>1 DEF PlayerType
  <2>2. n \in 0 .. MaxTurns
    BY <2>1, ServerAssumption DEF ServerAssumption
  <2>3. AllDequeued(ps)[p] = [ps[p] EXCEPT !.turns = n]
    BY DEF AllDequeued
  <2> HIDE DEF n
  <2> QED
    BY <2>1, <2>2, <2>3 DEF PlayerType
<1>3. DOMAIN AllDequeued(ps) = DOMAIN ps
  BY DEF AllDequeued
<1>4. AllDequeued(ps) = [p \in DOMAIN ps |-> AllDequeued(ps)[p]]
  BY DEF AllDequeued
<1> QED
  BY <1>2, <1>3, <1>4 DEF IsPartial

LEMMA CancelledType ==
  ASSUME NEW q \in Seq(Wait), timer \in (0 .. Countdown) \cup {Idle}
  PROVE  Cancelled(q) \in Seq(Wait)
<1>1. CASE timer = Idle
  BY <1>1 DEF Cancelled
<1>2. CASE timer # Idle
  <2>1. [countdown |-> timer, error |-> TRUE] \in Wait
    BY <1>2 DEF Wait
  <2> QED
    BY <1>2, <2>1 DEF Cancelled
<1> QED
  BY <1>1, <1>2

-----------------------------------------------------------------------------
(* A tick, as the end of a handler that found the books in order. *)

LEMMA TickBooks ==
  ASSUME NEW n \in 0 .. Countdown, NEW on, NEW stopped \in BOOLEAN,
         NEW cs, NEW ps, NEW sc, NEW q \in Seq(Wait),
         Books, Sound(cs, ps, on, sc), fault = "none",
         listening \in BOOLEAN, listening' = listening,
         Tick(n, on, stopped, cs, ps, sc, q)
  PROVE  Books'
<1> DEFINE m == IF pausing THEN 0 ELSE n
<1>1. /\ timer \in (0 .. Countdown) \cup {Idle} /\ pausing \in BOOLEAN
      /\ Countdown \in Nat /\ Idle = -1
  BY ServerAssumption DEF Books, ServerAssumption, Idle
<1>2. m \in 0 .. Countdown
  BY <1>1
<1>3. /\ IsPartial(cs, ClientId, BOOLEAN)
      /\ IsPartial(ps, PlayerId, PlayerType)
      /\ on \in BOOLEAN /\ sc \in SUBSET PlayerId
      /\ listening => Housed(cs, ps)
      /\ ~on => sc = {}
      /\ on /\ listening => DOMAIN cs # {}
  BY DEF Sound
<1>4. CASE pausing /\ n = 0
  <2>1. /\ pausing' = FALSE /\ paused' = TRUE
        /\ conns' = cs /\ players' = ps /\ game' = on /\ scorer' = sc
        /\ queued' = q /\ timer' = timer /\ fault' = fault
    BY <1>4 DEF Tick
  <2>2. Sound(conns, players, game, scorer)'
    BY <1>3, <2>1 DEF Sound
  <2> QED
    BY <1>1, <2>1, <2>2 DEF Books, NeverStalls, Fault
<1>5. CASE \E what \in Fault \ {"none", "score twice"} : Crash(what)
  <2>1. /\ fault' \in Fault \ {"none", "score twice"}
        /\ UNCHANGED << conns, players, game, scorer, pausing, paused, timer,
                        queued >>
    BY <1>5 DEF Crash
  <2>2. Sound(conns, players, game, scorer)'
    BY <2>1 DEF Books, Sound, Housed
  <2> QED
    BY <2>1, <2>2 DEF Books, NeverStalls, Up
<1>6. CASE /\ on
           /\ pausing' = FALSE /\ paused' = stopped /\ queued' = Cancelled(q)
           /\ m > 0 /\ CountdownTick(m, cs, ps, sc)
  <2>1. /\ conns' = cs /\ players' = AllReset(ps) /\ game' = TRUE
        /\ scorer' = sc /\ timer' = m - 1 /\ fault' = fault
    BY <1>6 DEF CountdownTick, GameGoesOn
  <2>2. Sound(conns, players, game, scorer)'
    BY <1>3, <1>6, <2>1, ResetSame DEF Sound, Housed
  <2>3. timer' \in 0 .. Countdown /\ timer' # Idle
    BY <1>1, <1>2, <1>6, <2>1
  <2>4. queued' \in Seq(Wait)
    BY <1>1, <1>6, CancelledType
  <2> QED
    BY <1>6, <2>1, <2>2, <2>3, <2>4 DEF Books, NeverStalls, Ticking, Fault
<1>7. CASE /\ on
           /\ pausing' = FALSE /\ paused' = stopped /\ queued' = Cancelled(q)
           /\ PlayTick(cs, ps, sc)
  <2>1. queued' \in Seq(Wait)
    BY <1>1, <1>7, CancelledType
  <2>2. CASE /\ players' \in {AllDequeued(ps), AllReset(ps)}
             /\ timer' \in {0, Countdown}
             /\ GameGoesOn(cs, sc)
    <3>1. Sound(conns, players, game, scorer)'
      BY <1>3, <1>7, <2>2, ResetSame, DequeuedSame DEF Sound, Housed, GameGoesOn
    <3>2. timer' \in 0 .. Countdown /\ timer' # Idle /\ fault' = fault
      BY <1>1, <2>2 DEF GameGoesOn
    <3> QED
      BY <1>7, <2>1, <3>1, <3>2 DEF Books, NeverStalls, Ticking, Fault
  <2>3. CASE GameEnd(cs, AllDequeued(ps), sc) /\ timer' = Idle
    <3>1. players' = AllDequeued(ps)
      BY <2>3 DEF GameEnd
    <3>2. CASE DOMAIN AllDequeued(ps) \subseteq sc
      <4>1. /\ conns' = [c \in DOMAIN cs |-> FALSE]
            /\ game' = FALSE /\ scorer' = {} /\ fault' = fault
        BY <2>3, <3>2 DEF GameEnd
      <4>2. IsPartial(conns', ClientId, BOOLEAN) /\ DOMAIN conns' = DOMAIN cs
        BY <1>3, <4>1 DEF IsPartial
      <4>3. Sound(conns, players, game, scorer)'
        BY <1>3, <3>1, <4>1, <4>2, DequeuedSame DEF Sound, Housed
      <4> QED
        BY <1>7, <2>1, <2>3, <4>1, <4>3 DEF Books, NeverStalls, Fault
    <3>3. CASE ~(DOMAIN AllDequeued(ps) \subseteq sc)
      <4>1. /\ fault' = "no score"
            /\ conns' = cs /\ game' = TRUE /\ scorer' = sc
        BY <2>3, <3>3 DEF GameEnd
      <4>2. Sound(conns, players, game, scorer)'
        BY <1>3, <1>7, <3>1, <4>1, DequeuedSame DEF Sound, Housed
      <4> QED
        BY <1>7, <2>1, <2>3, <4>1, <4>2 DEF Books, NeverStalls, Up, Fault
    <3> QED
      BY <3>2, <3>3
  <2> QED
    BY <1>7, <2>2, <2>3 DEF PlayTick
<1> QED
  BY <1>1, <1>3, <1>4, <1>5, <1>6, <1>7 DEF Tick, Fault

-----------------------------------------------------------------------------
(* The start of a game, as the end of a handler. *)

LEMMA StartBooks ==
  ASSUME NEW cs, NEW ps, Books, Sound(cs, ps, game, scorer), fault = "none",
         listening \in BOOLEAN, listening' = listening,
         CheckForGameStart(cs, ps)
  PROVE  Books'
<1>1. CASE ~CanStart(cs, ps)
  <2>1. /\ conns' = cs /\ players' = ps
        /\ UNCHANGED << game, scorer, pausing, paused, timer, queued, fault >>
    BY <1>1 DEF CheckForGameStart
  <2>2. Sound(conns, players, game, scorer)'
    BY <2>1 DEF Sound, Housed
  <2> QED
    BY <2>1, <2>2 DEF Books, NeverStalls, Ticking, Up
<1>2. CASE CanStart(cs, ps)
  <2>1. ~game /\ DOMAIN cs # {} /\ scorer = {}
    BY <1>2 DEF CanStart, Sound
  <2>2. DOMAIN ps \cap scorer = {}
    BY <2>1
  <2>3. CASE Cardinality(DOMAIN ps) > Starts
    <3>1. Crash("too few starts")
      BY <1>2, <2>2, <2>3 DEF CheckForGameStart
    <3>2. /\ fault' = "too few starts"
          /\ UNCHANGED << conns, players, game, scorer, pausing, paused, timer,
                          queued >>
      BY <3>1 DEF Crash
    <3>3. Sound(conns, players, game, scorer)'
      BY <3>2 DEF Books, Sound, Housed
    <3> QED
      BY <3>2, <3>3 DEF Books, NeverStalls, Up, Fault
  <2>4. CASE ~(Cardinality(DOMAIN ps) > Starts)
    <3> DEFINE sc == scorer \cup DOMAIN ps
    <3>1. Tick(Countdown, TRUE, paused, cs, AllReset(ps), sc, queued)
      BY <1>2, <2>2, <2>4 DEF CheckForGameStart
    <3>2. Sound(cs, AllReset(ps), TRUE, sc)
      BY <2>1, ResetSame DEF Sound, Housed, IsPartial
    <3> HIDE DEF sc
    <3>3. /\ Countdown \in 0 .. Countdown /\ paused \in BOOLEAN
          /\ queued \in Seq(Wait)
      BY ServerAssumption DEF Books, ServerAssumption
    <3> QED
      BY <3>1, <3>2, <3>3, TickBooks
  <2> QED
    BY <2>3, <2>4
<1> QED
  BY <1>1, <1>2

-----------------------------------------------------------------------------
(* The handlers. *)

\* Taking entries out of a partial function.
LEMMA RestrictPartial ==
  ASSUME NEW f, NEW K, NEW V, NEW S, IsPartial(f, K, V), S \subseteq DOMAIN f
  PROVE  /\ IsPartial(Restrict(f, S), K, V)
         /\ DOMAIN Restrict(f, S) = S
         /\ \A x \in S : Restrict(f, S)[x] = f[x]
BY DEF IsPartial, Restrict

LEMMA AddConnectionInv == IInv /\ AddConnection => IInv'
<1> SUFFICES ASSUME IInv, AddConnection
             PROVE  IInv'
  OBVIOUS
<1>1. /\ conns' = Put(conns, nextClientId, FALSE)
      /\ nextClientId' = nextClientId + 1 /\ nextClientId < MaxClients
      /\ UNCHANGED << listening, players, nextPlayerId, game, scorer, pausing,
                      paused, timer, queued, fault >>
  BY DEF AddConnection
<1>2. nextClientId \in ClientId /\ nextClientId' \in 0 .. MaxClients
  BY <1>1, ServerAssumption DEF IInv, ClientId, ServerAssumption
<1>3. /\ IsPartial(conns', ClientId, BOOLEAN)
      /\ DOMAIN conns' = DOMAIN conns \cup {nextClientId}
  <2>1. IsPartial(conns, ClientId, BOOLEAN)
    BY DEF IInv, Books, Sound
  <2> QED
    BY <1>1, <1>2, <2>1 DEF IsPartial, Put
<1>4. Sound(conns, players, game, scorer)'
  BY <1>1, <1>3 DEF IInv, Books, Sound, Housed
<1> QED
  BY <1>1, <1>2, <1>4 DEF IInv, Books, NeverStalls, Ticking, Up

LEMMA AddPlayerInv ==
  ASSUME IInv, NEW c \in DOMAIN conns, NEW name \in Names, AddPlayer(c, name)
  PROVE  IInv'
<1> DEFINE fresh == [name |-> name, client |-> c, nominal |-> "none", turns |-> 0]
           taken == \E p \in DOMAIN players : players[p].name = name
           ps == IF taken THEN players ELSE Put(players, nextPlayerId, fresh)
<1>1. /\ fault = "none" /\ nextPlayerId < MaxAdds
      /\ nextPlayerId' = nextPlayerId + 1
      /\ CheckForGameStart(conns, ps)
      /\ UNCHANGED << listening, nextClientId >>
  BY DEF AddPlayer, Up
<1>2. nextPlayerId \in PlayerId /\ nextPlayerId' \in 0 .. MaxAdds
  BY <1>1, ServerAssumption DEF IInv, PlayerId, ServerAssumption
<1>3. fresh \in PlayerType /\ fresh.client = c
  <2>1. c \in ClientId
    BY DEF IInv, Books, Sound, IsPartial
  <2>2. 0 \in 0 .. MaxTurns
    BY ServerAssumption DEF ServerAssumption
  <2> QED
    BY <2>1, <2>2 DEF PlayerType
<1> HIDE DEF fresh, taken
<1>4. Sound(conns, ps, game, scorer)
  <2>1. Sound(conns, players, game, scorer)
    BY DEF IInv, Books
  <2> DEFINE more == Put(players, nextPlayerId, fresh)
  <2>2. /\ IsPartial(players, PlayerId, PlayerType)
        /\ listening => Housed(conns, players)
    BY <2>1 DEF Sound
  <2>3. /\ IsPartial(more, PlayerId, PlayerType)
        /\ DOMAIN more = DOMAIN players \cup {nextPlayerId}
        /\ more[nextPlayerId] = fresh
        /\ \A p \in DOMAIN players \ {nextPlayerId} : more[p] = players[p]
    BY <1>2, <1>3, <2>2 DEF IsPartial, Put
  <2> HIDE DEF more
  <2>4. listening => Housed(conns, more)
    BY <1>3, <2>2, <2>3 DEF Housed
  <2>5. Sound(conns, more, game, scorer)
    BY <2>1, <2>3, <2>4 DEF Sound
  <2>6. CASE taken
    <3>1. ps = players
      BY <2>6
    <3> HIDE DEF ps
    <3> QED
      BY <2>1, <3>1
  <2>7. CASE ~taken
    <3>1. ps = more
      BY <2>7 DEF more
    <3> HIDE DEF ps
    <3> QED
      BY <2>5, <3>1
  <2> QED
    BY <2>6, <2>7
<1> HIDE DEF ps
<1>5. Books'
  BY <1>1, <1>4, StartBooks DEF IInv
<1> QED
  BY <1>1, <1>2, <1>5 DEF IInv

LEMMA SetReadinessInv ==
  ASSUME IInv, NEW c \in DOMAIN conns, NEW ready \in BOOLEAN,
         SetReadiness(c, ready)
  PROVE  IInv'
<1> DEFINE cs == [conns EXCEPT ![c] = ready]
<1>1. /\ fault = "none" /\ CheckForGameStart(cs, players)
      /\ UNCHANGED << listening, nextClientId, nextPlayerId >>
  BY DEF SetReadiness, Up
<1>2. IsPartial(cs, ClientId, BOOLEAN) /\ DOMAIN cs = DOMAIN conns
  BY DEF IInv, Books, Sound, IsPartial
<1> HIDE DEF cs
<1>3. Sound(cs, players, game, scorer)
  BY <1>2 DEF IInv, Books, Sound, Housed
<1>4. Books'
  BY <1>1, <1>3, StartBooks DEF IInv
<1> QED
  BY <1>1, <1>4 DEF IInv

LEMMA QueueTurnInv ==
  ASSUME IInv, NEW c \in DOMAIN conns, NEW p \in DOMAIN players,
         NEW axis \in Axis, QueueTurn(c, p, axis)
  PROVE  IInv'
<1> DEFINE r == [players[p] EXCEPT !.nominal = axis, !.turns = @ + 1]
<1>1. /\ players[p].turns < MaxTurns
      /\ players' = [players EXCEPT ![p] = r]
      /\ UNCHANGED << listening, conns, nextClientId, nextPlayerId, game, scorer,
                      pausing, paused, timer, queued, fault >>
  BY DEF QueueTurn
<1>2. IsPartial(players, PlayerId, PlayerType)
  BY DEF IInv, Books, Sound
<1>3. players[p] \in PlayerType
  BY <1>2 DEF IsPartial
<1>4. players[p].turns \in 0 .. MaxTurns /\ players[p].turns + 1 \in 0 .. MaxTurns
  BY <1>1, <1>3, ServerAssumption DEF PlayerType, ServerAssumption
<1>5. r \in PlayerType /\ r.client = players[p].client
  BY <1>3, <1>4 DEF PlayerType
<1> HIDE DEF r
<1>6. /\ IsPartial(players', PlayerId, PlayerType)
      /\ DOMAIN players' = DOMAIN players
      /\ \A x \in DOMAIN players : players'[x].client = players[x].client
  BY <1>1, <1>2, <1>5 DEF IsPartial
<1>7. Sound(conns, players, game, scorer)'
  BY <1>1, <1>6 DEF IInv, Books, Sound, Housed
<1> QED
  BY <1>1, <1>7 DEF IInv, Books, NeverStalls, Ticking, Up

LEMMA TogglePausedInv ==
  ASSUME IInv, NEW c \in DOMAIN conns, NEW p \in DOMAIN players,
         TogglePaused(c, p)
  PROVE  IInv'
<1>1. /\ fault = "none"
      /\ UNCHANGED << listening, nextClientId, nextPlayerId >>
  BY DEF TogglePaused, Up
<1>2. CASE paused
  <2>1. Tick(0, game, FALSE, conns, AllReset(players), scorer, queued)
    BY <1>2 DEF TogglePaused
  <2>2. Sound(conns, AllReset(players), game, scorer)
    BY ResetSame DEF IInv, Books, Sound, Housed
  <2>3. 0 \in 0 .. Countdown
    BY ServerAssumption DEF ServerAssumption
  <2>4. queued \in Seq(Wait) /\ Books /\ listening \in BOOLEAN
    BY DEF IInv, Books
  <2>5. Books'
    BY <1>1, <2>1, <2>2, <2>3, <2>4, TickBooks
  <2> QED
    BY <1>1, <2>5 DEF IInv
<1>3. CASE ~paused
  <2>1. /\ pausing' = TRUE
        /\ UNCHANGED << conns, players, game, scorer, paused, timer, queued,
                        fault >>
    BY <1>3 DEF TogglePaused
  <2>2. Sound(conns, players, game, scorer)'
    BY <1>1, <2>1 DEF IInv, Books, Sound, Housed
  <2> QED
    BY <1>1, <2>1, <2>2 DEF IInv, Books, NeverStalls, Ticking, Up
<1> QED
  BY <1>2, <1>3

\* With the connection go its players, and with the last one the game.
LEMMA DeleteConnectionInv ==
  ASSUME IInv, NEW c \in DOMAIN conns, DeleteConnection(c)
  PROVE  IInv'
<1> DEFINE stay == DOMAIN conns \ {c}
           theirs == {p \in DOMAIN players : players[p].client # c}
           abort == stay = {} /\ game
<1>1. /\ conns' = Restrict(conns, stay)
      /\ players' = Restrict(players, theirs)
      /\ UNCHANGED << listening, nextClientId, nextPlayerId, pausing, paused,
                      fault >>
  BY DEF DeleteConnection
<1>2. Sound(conns, players, game, scorer)
  BY DEF IInv, Books
<1>3. IsPartial(conns', ClientId, BOOLEAN) /\ DOMAIN conns' = stay
  BY <1>1, <1>2 DEF Sound, IsPartial, Restrict
<1>4. /\ IsPartial(players', PlayerId, PlayerType)
      /\ DOMAIN players' = theirs
      /\ \A p \in theirs : players'[p] = players[p]
  BY <1>1, <1>2 DEF Sound, IsPartial, Restrict
<1>5. listening' => Housed(conns', players')
  BY <1>1, <1>2, <1>3, <1>4 DEF Sound, Housed
<1>6. CASE abort
  <2>1. scorer' = {} /\ game' = FALSE /\ queued' = Cancelled(queued)
        /\ timer' = Idle
    BY <1>6 DEF DeleteConnection
  <2>2. Sound(conns, players, game, scorer)'
    BY <1>3, <1>4, <1>5, <2>1 DEF Sound, Housed
  <2>3. queued' \in Seq(Wait)
    BY <2>1, CancelledType DEF IInv, Books
  <2> QED
    BY <1>1, <2>1, <2>2, <2>3 DEF IInv, Books, NeverStalls
<1>7. CASE ~abort
  <2>1. UNCHANGED << game, scorer, timer, queued >>
    BY <1>7 DEF DeleteConnection
  <2>2. game' => DOMAIN conns' # {}
    BY <1>3, <1>7, <2>1
  <2>3. Sound(conns, players, game, scorer)'
    BY <1>2, <1>3, <1>4, <1>5, <2>1, <2>2 DEF Sound, Housed
  <2> QED
    BY <1>1, <2>1, <2>3 DEF IInv, Books, NeverStalls, Ticking, Up
<1> QED
  BY <1>6, <1>7

\* A wait without error at the front of the queue is a tick under way; so is
\* one behind a wait that was cancelled, when that one's handler has run.
LEMMA TimerExpiresInv == IInv /\ TimerExpires => IInv'
<1> SUFFICES ASSUME IInv, TimerExpires
             PROVE  IInv'
  OBVIOUS
<1> DEFINE wait == [countdown |-> timer, error |-> FALSE]
<1>1. /\ timer # Idle /\ queued' = Append(queued, wait) /\ timer' = Idle
      /\ UNCHANGED << listening, conns, nextClientId, players, nextPlayerId, game,
                      scorer, pausing, paused, fault >>
  BY DEF TimerExpires
<1>2. wait \in Wait /\ wait.error = FALSE /\ queued \in Seq(Wait)
  BY <1>1 DEF Wait, IInv, Books
<1> HIDE DEF wait
<1>3. /\ queued' \in Seq(Wait)
      /\ Len(queued) + 1 \in DOMAIN queued'
      /\ queued'[Len(queued) + 1] = wait
  BY <1>1, <1>2
<1>4. Ticking'
  BY <1>2, <1>3 DEF Ticking
<1>5. Sound(conns, players, game, scorer)'
  BY <1>1 DEF IInv, Books, Sound, Housed
<1> QED
  BY <1>1, <1>3, <1>4, <1>5 DEF IInv, Books, NeverStalls

LEMMA InterruptedInv == IInv /\ Interrupted => IInv'
<1> SUFFICES ASSUME IInv, Interrupted
             PROVE  IInv'
  OBVIOUS
<1>1. /\ queued # << >> /\ Head(queued).error /\ queued' = Tail(queued)
      /\ UNCHANGED << listening, conns, nextClientId, players, nextPlayerId, game,
                      scorer, pausing, paused, timer, fault >>
  BY DEF Interrupted
<1>2. queued \in Seq(Wait)
  BY DEF IInv, Books
<1>3. queued' \in Seq(Wait)
  BY <1>1, <1>2
<1>4. ASSUME NEW i \in DOMAIN queued, ~queued[i].error
      PROVE  \E j \in DOMAIN queued' : ~queued'[j].error
  <2>1. i \in 1 .. Len(queued) /\ i # 1
    BY <1>1, <1>2, <1>4
  <2>2. i - 1 \in DOMAIN queued' /\ queued'[i - 1] = queued[i]
    BY <1>1, <1>2, <2>1
  <2> QED
    BY <1>4, <2>2
<1>5. Ticking => Ticking'
  BY <1>1, <1>4 DEF Ticking
<1>6. Sound(conns, players, game, scorer)'
  BY <1>1 DEF IInv, Books, Sound, Housed
<1> QED
  BY <1>1, <1>3, <1>5, <1>6 DEF IInv, Books, NeverStalls, Up

LEMMA TimerTickInv == IInv /\ TimerTick => IInv'
<1> SUFFICES ASSUME IInv, TimerTick
             PROVE  IInv'
  OBVIOUS
<1>1. /\ fault = "none" /\ queued # << >>
      /\ Tick(Head(queued).countdown, game, paused, conns, players, scorer,
              Tail(queued))
      /\ UNCHANGED << listening, nextClientId, nextPlayerId >>
  BY DEF TimerTick, Up
<1>2. /\ queued \in Seq(Wait) /\ paused \in BOOLEAN /\ listening \in BOOLEAN
      /\ Books /\ Sound(conns, players, game, scorer)
  BY DEF IInv, Books
<1>3. Head(queued) \in Wait /\ Tail(queued) \in Seq(Wait)
  BY <1>1, <1>2
<1>4. Head(queued).countdown \in 0 .. Countdown
  BY <1>3 DEF Wait
<1>5. Books'
  BY <1>1, <1>2, <1>3, <1>4, TickBooks
<1> QED
  BY <1>1, <1>5 DEF IInv

LEMMA ShutdownInv == IInv /\ Shutdown => IInv'
<1> SUFFICES ASSUME IInv, Shutdown
             PROVE  IInv'
  OBVIOUS
<1>1. /\ listening' = FALSE /\ queued' = Cancelled(queued) /\ timer' = Idle
      /\ conns' = Restrict(conns, {})
      /\ UNCHANGED << nextClientId, players, nextPlayerId, game, scorer, pausing,
                      paused, fault >>
  BY DEF Shutdown
<1>2. queued' \in Seq(Wait)
  BY <1>1, CancelledType DEF IInv, Books
<1>3. IsPartial(conns', ClientId, BOOLEAN)
  BY <1>1 DEF IsPartial, Restrict
<1>4. Sound(conns, players, game, scorer)'
  BY <1>1, <1>3 DEF IInv, Books, Sound
<1> QED
  BY <1>1, <1>2, <1>4 DEF IInv, Books, NeverStalls

LEMMA Initially == Init => IInv
<1> SUFFICES ASSUME Init
             PROVE  IInv
  OBVIOUS
<1>1. /\ IsPartial(conns, ClientId, BOOLEAN) /\ IsPartial(players, PlayerId, PlayerType)
      /\ DOMAIN players = {}
  BY DEF Init, IsPartial
<1>2. Sound(conns, players, game, scorer)
  BY <1>1 DEF Init, Sound, Housed
<1>3. /\ 0 \in 0 .. MaxClients /\ 0 \in 0 .. MaxAdds
      /\ << >> \in Seq(Wait)
  BY ServerAssumption DEF ServerAssumption
<1> QED
  BY <1>2, <1>3 DEF Init, IInv, Books, NeverStalls, Fault

LEMMA Inductive == IInv /\ [Next]_vars => IInv'
<1> SUFFICES ASSUME IInv, [Next]_vars
             PROVE  IInv'
  OBVIOUS
<1>1. CASE \E c \in DOMAIN conns, name \in Names : AddPlayer(c, name)
  BY <1>1, AddPlayerInv
<1>2. CASE \E c \in DOMAIN conns, ready \in BOOLEAN : SetReadiness(c, ready)
  BY <1>2, SetReadinessInv
<1>3. CASE \E c \in DOMAIN conns, p \in DOMAIN players, axis \in Axis :
             QueueTurn(c, p, axis)
  BY <1>3, QueueTurnInv
<1>4. CASE \E c \in DOMAIN conns, p \in DOMAIN players : TogglePaused(c, p)
  BY <1>4, TogglePausedInv
<1>5. CASE \E c \in DOMAIN conns : DeleteConnection(c)
  BY <1>5, DeleteConnectionInv
<1>6. CASE UNCHANGED vars
  <2>1. Sound(conns, players, game, scorer)'
    BY <1>6 DEF vars, IInv, Books, Sound, Housed
  <2> QED
    BY <1>6, <2>1 DEF vars, IInv, Books, NeverStalls, Ticking, Up
<1>7. CASE Messages
  BY <1>1, <1>2, <1>3, <1>4, <1>5, <1>7 DEF Messages
<1> QED
  BY <1>6, <1>7, AddConnectionInv, TimerExpiresInv, InterruptedInv, TimerTickInv,
     ShutdownInv DEF Next

THEOREM Invariance == Spec => []IInv
<1> QED
  BY Initially, Inductive, PTL DEF Spec

-----------------------------------------------------------------------------
(* What follows. *)

\* The connections, players, scores, waits and flags of server.hpp have the
\* values their types promise, and no bound of the model is passed.
THEOREM TypeCorrect == Spec => []TypeOK
<1>1. IInv => TypeOK
  BY DEF IInv, Books, Sound, TypeOK
<1> QED
  BY <1>1, Invariance, PTL

\* As long as the server is not shutting down every player has a connection, so
\* the bare pointer of RemotePlayer::clientId() is good.
THEOREM Connected == Spec => []PlayersConnected
<1>1. IInv => PlayersConnected
  BY DEF IInv, Books, Sound, Housed, PlayersConnected
<1> QED
  BY <1>1, Invariance, PTL

\* gameEnd and the abort in deleteConnection leave no scores behind, and no
\* game is left playing to nobody.
THEOREM Emptied == Spec => []NothingLeftOver
<1>1. IInv => NothingLeftOver
  BY DEF IInv, Books, Sound, NothingLeftOver
<1> QED
  BY <1>1, Invariance, PTL

\* So ScoreTracker::add never meets a player it knows.
THEOREM Fresh == Spec => []ScoresFresh
<1>1. IInv => ScoresFresh
  BY DEF IInv, Books, ScoresFresh
<1> QED
  BY <1>1, Invariance, PTL

\* The books of the server balance.
THEOREM Balanced == Spec => []BooksBalance
<1>1. PlayersConnected /\ NothingLeftOver /\ ScoresFresh => BooksBalance
  BY DEF BooksBalance
<1> QED
  BY <1>1, Connected, Emptied, Fresh, PTL

\* A game that is not paused is always going to be ticked: however waits,
\* pauses, starts and departures interleave, tick leaves a wait behind it.
THEOREM Driven == Spec => []NeverStalls
<1>1. IInv => NeverStalls
  BY DEF IInv, Books
<1> QED
  BY <1>1, Invariance, PTL

-----------------------------------------------------------------------------
(* What a step may not do. *)

\* How a tick that does not stop the process leaves the lobby: as it found it,
\* closed by a game, or with nobody ready.
LEMMA TickLobby ==
  ASSUME NEW n, NEW on, NEW stopped, NEW cs, NEW ps, NEW sc, NEW q,
         Tick(n, on, stopped, cs, ps, sc, q)
  PROVE  \/ fault' # "none" /\ game' = game
         \/ conns' = cs /\ players' = ps /\ game' = on
         \/ game' = TRUE
         \/ game' = FALSE /\ conns' = [c \in DOMAIN cs |-> FALSE]
<1>1. \/ conns' = cs /\ players' = ps /\ game' = on
      \/ Crash("no game") \/ Crash("moves unsorted")
      \/ CountdownTick(IF pausing THEN 0 ELSE n, cs, ps, sc)
      \/ PlayTick(cs, ps, sc)
  BY DEF Tick
<1>2. PlayTick(cs, ps, sc) => \/ game' = TRUE
                              \/ GameEnd(cs, AllDequeued(ps), sc)
  BY DEF PlayTick, GameGoesOn
<1>3. GameEnd(cs, AllDequeued(ps), sc)
        => \/ game' = TRUE
           \/ game' = FALSE /\ conns' = [c \in DOMAIN cs |-> FALSE]
  BY DEF GameEnd
<1> QED
  BY <1>1, <1>2, <1>3 DEF Crash, CountdownTick, GameGoesOn

\* gameEnd makes everybody unready, and without a game nothing ends one.
THEOREM ConsentIsForOneGame == Spec => ConsentExpires
<1>1. ASSUME [Next]_vars, game, ~game'
      PROVE  \A c \in DOMAIN conns' : ~conns'[c]
  <2>1. ASSUME NEW cs, NEW ps, CheckForGameStart(cs, ps)
        PROVE  FALSE
    BY <1>1, <2>1 DEF CheckForGameStart, CanStart
  <2>2. ASSUME NEW n, NEW stopped, NEW ps, NEW q,
               Tick(n, game, stopped, conns, ps, scorer, q)
        PROVE  \A c \in DOMAIN conns' : ~conns'[c]
    <3>1. game' = FALSE /\ conns' = [c \in DOMAIN conns |-> FALSE]
      BY <1>1, <2>2, TickLobby
    <3> QED
      BY <3>1
  <2>3. CASE Messages
    <3>1. PICK c \in DOMAIN conns :
            \/ \E name \in Names : AddPlayer(c, name)
            \/ \E ready \in BOOLEAN : SetReadiness(c, ready)
            \/ \E p \in DOMAIN players : \/ \E axis \in Axis : QueueTurn(c, p, axis)
                                         \/ TogglePaused(c, p)
            \/ DeleteConnection(c)
      BY <2>3 DEF Messages
    <3>2. CASE \E p \in DOMAIN players : TogglePaused(c, p)
      BY <1>1, <2>2, <3>2 DEF TogglePaused
    <3>3. CASE DeleteConnection(c)
      <4>1. conns' = Restrict(conns, {})
        BY <1>1, <3>3 DEF DeleteConnection
      <4> QED
        BY <4>1 DEF Restrict
    <3> QED
      BY <1>1, <2>1, <3>1, <3>2, <3>3 DEF AddPlayer, SetReadiness, QueueTurn
  <2>4. CASE TimerTick
    BY <2>2, <2>4 DEF TimerTick
  <2> QED
    BY <1>1, <2>3, <2>4
       DEF Next, vars, AddConnection, TimerExpires, Interrupted, Shutdown
<1> QED
  BY <1>1, PTL DEF Spec, ConsentExpires

\* Whoever else acts, a lobby in which all are ready and somebody plays has a
\* game started by the handler that made it so.
THEOREM LobbyStarts == Spec => StallsOnlyByDeparture
<1>1. ASSUME IInv, [Next]_vars, ~WaitingForNobody, WaitingForNobody'
      PROVE  \E c \in DOMAIN conns : c \notin DOMAIN conns'
  <2>1. /\ fault' = "none" /\ ~game' /\ DOMAIN players' # {}
        /\ DOMAIN conns' # {} /\ \A c \in DOMAIN conns' : conns'[c]
    BY <1>1 DEF WaitingForNobody, AllReady, Up
  <2>2. IsPartial(players, PlayerId, PlayerType)
    BY <1>1 DEF IInv, Books, Sound
  <2>3. ASSUME NEW n, NEW on, NEW stopped, NEW cs, NEW ps, NEW sc, NEW q,
               Tick(n, on, stopped, cs, ps, sc, q)
        PROVE  conns' = cs /\ players' = ps /\ game' = on
    <3>1. ~(game' = FALSE /\ conns' = [c \in DOMAIN cs |-> FALSE])
      BY <2>1
    <3> QED
      BY <2>1, <2>3, <3>1, TickLobby
  <2>4. ASSUME NEW cs, NEW ps, CheckForGameStart(cs, ps)
        PROVE  FALSE
    <3>1. CASE CanStart(cs, ps)
      <4>1. ~Crash("score twice") /\ ~Crash("too few starts")
        BY <2>1 DEF Crash
      <4>2. Tick(Countdown, TRUE, paused, cs, AllReset(ps),
                 scorer \cup DOMAIN ps, queued)
        BY <2>4, <3>1, <4>1 DEF CheckForGameStart
      <4> QED
        BY <2>1, <2>3, <4>2
    <3>2. CASE ~CanStart(cs, ps)
      BY <2>1, <2>4, <3>2 DEF CheckForGameStart, CanStart
    <3> QED
      BY <3>1, <3>2
  <2>5. ~(/\ conns' = conns /\ DOMAIN players' = DOMAIN players
          /\ game' = game /\ fault = "none")
    BY <1>1, <2>1 DEF WaitingForNobody, AllReady, Up
  <2>6. CASE Messages
    <3>1. PICK c \in DOMAIN conns :
            \/ \E name \in Names : AddPlayer(c, name)
            \/ \E ready \in BOOLEAN : SetReadiness(c, ready)
            \/ \E p \in DOMAIN players : \/ \E axis \in Axis : QueueTurn(c, p, axis)
                                         \/ TogglePaused(c, p)
            \/ DeleteConnection(c)
      BY <2>6 DEF Messages
    <3>2. CASE \E p \in DOMAIN players : TogglePaused(c, p)
      <4>1. /\ fault = "none"
            /\ \/ Tick(0, game, FALSE, conns, AllReset(players), scorer, queued)
               \/ UNCHANGED << conns, players, game >>
        BY <3>2 DEF TogglePaused, Up
      <4>2. ~Tick(0, game, FALSE, conns, AllReset(players), scorer, queued)
        BY <2>2, <2>3, <2>5, <4>1, ResetSame
      <4> QED
        BY <2>5, <4>1, <4>2
    <3>3. CASE \E p \in DOMAIN players, axis \in Axis : QueueTurn(c, p, axis)
      <4>1. /\ fault = "none" /\ UNCHANGED << conns, game >>
            /\ DOMAIN players' = DOMAIN players
        BY <3>3 DEF QueueTurn, Up
      <4> QED
        BY <2>5, <4>1
    <3>4. CASE DeleteConnection(c)
      <4>1. c \notin DOMAIN conns'
        BY <3>4 DEF DeleteConnection, Restrict
      <4> QED
        BY <4>1
    <3> QED
      BY <2>4, <3>1, <3>2, <3>3, <3>4 DEF AddPlayer, SetReadiness
  <2>7. CASE TimerTick
    BY <2>3, <2>5, <2>7 DEF TimerTick, Up
  <2>8. CASE AddConnection
    <3>1. nextClientId \in DOMAIN conns' /\ ~conns'[nextClientId]
      BY <2>8 DEF AddConnection, Put
    <3> QED
      BY <2>1, <3>1
  <2>9. CASE Shutdown
    BY <2>1, <2>9 DEF Shutdown, Restrict
  <2>10. CASE TimerExpires \/ Interrupted \/ UNCHANGED vars
    BY <2>1, <2>5, <2>10 DEF TimerExpires, Interrupted, vars
  <2> QED
    BY <1>1, <2>6, <2>7, <2>8, <2>9, <2>10 DEF Next
<1> QED
  BY <1>1, Invariance, PTL DEF Spec, StallsOnlyByDeparture

-----------------------------------------------------------------------------
(* The server implements the match: every step of Server.tla is a step of   *)
(* Match.tla, or changes nothing the clients see.                           *)

\* Neither the reset nor the dequeueing of turns shows in the roster.
LEMMA RosterReset ==
  ASSUME NEW ps, IsPartial(ps, PlayerId, PlayerType)
  PROVE  Roster(AllReset(ps)) = Roster(ps)
<1>1. DOMAIN AllReset(ps) = DOMAIN ps
  BY DEF AllReset
<1>2. ASSUME NEW p \in DOMAIN ps
      PROVE  /\ AllReset(ps)[p].name = ps[p].name
             /\ AllReset(ps)[p].client = ps[p].client
  <2>1. ps[p] \in PlayerType
    BY DEF IsPartial
  <2>2. AllReset(ps)[p] = [ps[p] EXCEPT !.nominal = "none", !.turns = 0]
    BY DEF AllReset
  <2> QED
    BY <2>1, <2>2 DEF PlayerType
<1> QED
  BY <1>1, <1>2 DEF Roster

LEMMA RosterDequeued ==
  ASSUME NEW ps, IsPartial(ps, PlayerId, PlayerType)
  PROVE  Roster(AllDequeued(ps)) = Roster(ps)
<1>1. DOMAIN AllDequeued(ps) = DOMAIN ps
  BY DEF AllDequeued
<1>2. ASSUME NEW p \in DOMAIN ps
      PROVE  /\ AllDequeued(ps)[p].name = ps[p].name
             /\ AllDequeued(ps)[p].client = ps[p].client
  <2> DEFINE n == IF ps[p].turns = 0 THEN 0 ELSE ps[p].turns - 1
  <2>1. ps[p] \in PlayerType
    BY DEF IsPartial
  <2>2. AllDequeued(ps)[p] = [ps[p] EXCEPT !.turns = n]
    BY DEF AllDequeued
  <2> HIDE DEF n
  <2> QED
    BY <2>1, <2>2 DEF PlayerType
<1> QED
  BY <1>1, <1>2 DEF Roster

-----------------------------------------------------------------------------
\* What the clients see of a tick that ends a handler: nothing but what the
\* handler did before, or the end of the game, or a fault.
LEMMA TickSeen ==
  ASSUME NEW n, NEW on \in BOOLEAN, NEW stopped, NEW cs, NEW ps, NEW sc, NEW q,
         IsPartial(ps, PlayerId, PlayerType), fault = "none",
         Tick(n, on, stopped, cs, ps, sc, q)
  PROVE  \/ fault' # "none"
         \/ /\ fault' = "none" /\ Roster(players') = Roster(ps)
            /\ \/ conns' = cs /\ game' = on
               \/ on /\ conns' = Lobby!Unready(cs) /\ game' = FALSE
<1>1. \/ /\ conns' = cs /\ players' = ps /\ game' = on /\ fault' = fault
      \/ Crash("no game") \/ Crash("moves unsorted")
      \/ on /\ CountdownTick(IF pausing THEN 0 ELSE n, cs, ps, sc)
      \/ on /\ PlayTick(cs, ps, sc)
  BY DEF Tick
<1>2. CASE Crash("no game") \/ Crash("moves unsorted")
  BY <1>2 DEF Crash
<1>3. CASE on /\ CountdownTick(IF pausing THEN 0 ELSE n, cs, ps, sc)
  BY <1>3, RosterReset DEF CountdownTick, GameGoesOn
<1>4. CASE on /\ PlayTick(cs, ps, sc)
  <2>1. CASE /\ players' \in {AllDequeued(ps), AllReset(ps)}
             /\ GameGoesOn(cs, sc)
    BY <1>4, <2>1, RosterReset, RosterDequeued DEF GameGoesOn
  <2>2. CASE GameEnd(cs, AllDequeued(ps), sc)
    <3>1. CASE DOMAIN AllDequeued(ps) \subseteq sc
      <4>1. /\ conns' = Lobby!Unready(cs) /\ players' = AllDequeued(ps)
            /\ game' = FALSE /\ fault' = fault
        BY <2>2, <3>1 DEF GameEnd, Lobby!Unready
      <4> QED
        BY <1>4, <4>1, RosterDequeued
    <3>2. CASE ~(DOMAIN AllDequeued(ps) \subseteq sc)
      BY <2>2, <3>2 DEF GameEnd
    <3> QED
      BY <3>1, <3>2
  <2> QED
    BY <1>4, <2>1, <2>2 DEF PlayTick
<1> QED
  BY <1>1, <1>2, <1>3, <1>4

\* checkForGameStart settles the lobby as the match has it.
LEMMA StartSeen ==
  ASSUME NEW cs, NEW ps, IsPartial(ps, PlayerId, PlayerType),
         game \in BOOLEAN, fault = "none", CheckForGameStart(cs, ps)
  PROVE  \/ fault' # "none"
         \/ fault' = "none" /\ Lobby!Settle(cs, Roster(ps))
<1>1. CanStart(cs, ps) <=> Lobby!MayStart(cs, Roster(ps))
  BY DEF CanStart, Lobby!MayStart, Roster
<1>2. CASE ~CanStart(cs, ps)
  <2>1. conns' = cs /\ players' = ps /\ game' = game /\ fault' = fault
    BY <1>2 DEF CheckForGameStart
  <2> QED
    BY <1>1, <1>2, <2>1 DEF Lobby!Settle
<1>3. CASE CanStart(cs, ps)
  <2>1. \/ Crash("score twice") \/ Crash("too few starts")
        \/ Tick(Countdown, TRUE, paused, cs, AllReset(ps), scorer \cup DOMAIN ps,
                queued)
    BY <1>3 DEF CheckForGameStart
  <2>2. CASE Crash("score twice") \/ Crash("too few starts")
    BY <2>2 DEF Crash
  <2>3. CASE Tick(Countdown, TRUE, paused, cs, AllReset(ps),
                  scorer \cup DOMAIN ps, queued)
    <3>1. IsPartial(AllReset(ps), PlayerId, PlayerType)
      BY ResetSame
    <3>2. \/ fault' # "none"
          \/ /\ fault' = "none" /\ Roster(players') = Roster(AllReset(ps))
             /\ \/ conns' = cs /\ game' = TRUE
                \/ conns' = Lobby!Unready(cs) /\ game' = FALSE
      BY <2>3, <3>1, TickSeen
    <3> QED
      BY <1>1, <1>3, <3>2, RosterReset DEF Lobby!Settle
  <2> QED
    BY <2>1, <2>2, <2>3
<1> QED
  BY <1>2, <1>3

-----------------------------------------------------------------------------
(* Each handler, as a step of the match. *)

Step == [Lobby!Next]_(Lobby!vars)

\* A fault is the end of the match.
LEMMA FaultStep == fault = "none" /\ fault' # "none" => Step
BY DEF Step, Lobby!Next, Lobby!Die, Up

LEMMA AddConnectionStep == AddConnection => Step
<1> SUFFICES ASSUME AddConnection
             PROVE  Lobby!Join
  BY DEF Step, Lobby!Next
<1> QED
  BY DEF AddConnection, Lobby!Join, Lobby!With, Put, Up

LEMMA AddPlayerStep ==
  ASSUME IInv, NEW c \in DOMAIN conns, NEW name \in Names, AddPlayer(c, name)
  PROVE  Step
<1> DEFINE fresh == [name |-> name, client |-> c, nominal |-> "none", turns |-> 0]
           taken == \E p \in DOMAIN players : players[p].name = name
           more == Put(players, nextPlayerId, fresh)
           ps == IF taken THEN players ELSE more
           seen == [name |-> name, client |-> c]
<1>1. /\ fault = "none" /\ nextPlayerId < MaxAdds
      /\ nextPlayerId' = nextPlayerId + 1
      /\ CheckForGameStart(conns, ps)
      /\ UNCHANGED << listening, nextClientId >>
  BY DEF AddPlayer, Up
<1>2. /\ IsPartial(players, PlayerId, PlayerType) /\ game \in BOOLEAN
      /\ IsPartial(conns, ClientId, BOOLEAN)
  BY DEF IInv, Books, Sound
<1>3. fresh \in PlayerType /\ fresh.name = name /\ fresh.client = c
  <2>1. c \in ClientId
    BY <1>2 DEF IsPartial
  <2>2. 0 \in 0 .. MaxTurns
    BY ServerAssumption DEF ServerAssumption
  <2> QED
    BY <2>1, <2>2 DEF PlayerType
<1> HIDE DEF fresh
<1>4. nextPlayerId \in PlayerId
  BY <1>1, ServerAssumption DEF IInv, PlayerId, ServerAssumption
<1>5. IsPartial(more, PlayerId, PlayerType)
  BY <1>2, <1>3, <1>4 DEF IsPartial, Put
<1>6. IsPartial(ps, PlayerId, PlayerType)
  BY <1>2, <1>5
<1>7. Roster(more) = Lobby!With(Roster(players), nextPlayerId, seen)
  BY <1>3 DEF Roster, Put, Lobby!With
<1>8. taken <=> \E p \in DOMAIN Roster(players) : Roster(players)[p].name = name
  BY DEF Roster
<1> HIDE DEF more, taken
<1>9. Roster(ps) = IF taken THEN Roster(players)
                   ELSE Lobby!With(Roster(players), nextPlayerId, seen)
  BY <1>7
<1> HIDE DEF ps
<1>10. CASE fault' # "none"
  BY <1>1, <1>10, FaultStep
<1>11. CASE fault' = "none"
  <2>1. Lobby!Settle(conns, Roster(ps))
    BY <1>1, <1>2, <1>6, <1>11, StartSeen
  <2>2. Lobby!AddPlayer(c, name)
    BY <1>1, <1>8, <1>9, <1>11, <2>1 DEF Lobby!AddPlayer, Up
  <2> QED
    BY <2>2 DEF Step, Lobby!Next
<1> QED
  BY <1>10, <1>11

LEMMA SetReadinessStep ==
  ASSUME IInv, NEW c \in DOMAIN conns, NEW ready \in BOOLEAN,
         SetReadiness(c, ready)
  PROVE  Step
<1> DEFINE cs == [conns EXCEPT ![c] = ready]
<1>1. /\ fault = "none" /\ CheckForGameStart(cs, players)
      /\ UNCHANGED << listening, nextClientId, nextPlayerId >>
  BY DEF SetReadiness, Up
<1>2. IsPartial(players, PlayerId, PlayerType) /\ game \in BOOLEAN
  BY DEF IInv, Books, Sound
<1>3. CASE fault' # "none"
  BY <1>1, <1>3, FaultStep
<1>4. CASE fault' = "none"
  <2>1. Lobby!Settle(cs, Roster(players))
    BY <1>1, <1>2, <1>4, StartSeen
  <2>2. Lobby!SetReadiness(c, ready)
    BY <1>1, <1>4, <2>1 DEF Lobby!SetReadiness, Up
  <2> QED
    BY <2>2 DEF Step, Lobby!Next
<1> QED
  BY <1>3, <1>4

\* A tick that ends a handler of a game on its way, with the players reset or
\* as they are.
LEMMA TickStep ==
  ASSUME IInv, NEW n, NEW stopped, NEW q, NEW ps \in {players, AllReset(players)},
         Up, Tick(n, game, stopped, conns, ps, scorer, q),
         UNCHANGED << listening, nextClientId, nextPlayerId >>
  PROVE  Step
<1>1. IsPartial(players, PlayerId, PlayerType) /\ game \in BOOLEAN
  BY DEF IInv, Books, Sound
<1>2. IsPartial(ps, PlayerId, PlayerType) /\ Roster(ps) = Roster(players)
  BY <1>1, ResetSame, RosterReset
<1>3. \/ fault' # "none"
      \/ /\ fault' = "none" /\ Roster(players') = Roster(players)
         /\ \/ conns' = conns /\ game' = game
            \/ game /\ conns' = Lobby!Unready(conns) /\ game' = FALSE
  BY <1>1, <1>2, TickSeen DEF Up
<1>4. CASE fault' # "none"
  BY <1>4, FaultStep DEF Up
<1>5. CASE /\ fault' = "none" /\ Roster(players') = Roster(players)
           /\ conns' = conns /\ game' = game
  BY <1>5 DEF Step, Lobby!vars, Up
<1>6. CASE /\ fault' = "none" /\ Roster(players') = Roster(players)
           /\ game /\ conns' = Lobby!Unready(conns) /\ game' = FALSE
  <2>1. Lobby!GameOver
    BY <1>6 DEF Lobby!GameOver, Up
  <2> QED
    BY <2>1 DEF Step, Lobby!Next
<1> QED
  BY <1>3, <1>4, <1>5, <1>6

LEMMA QueueTurnStep ==
  ASSUME IInv, NEW c \in DOMAIN conns, NEW p \in DOMAIN players,
         NEW axis \in Axis, QueueTurn(c, p, axis)
  PROVE  Step
<1> DEFINE r == [players[p] EXCEPT !.nominal = axis, !.turns = @ + 1]
<1>1. /\ players' = [players EXCEPT ![p] = r]
      /\ UNCHANGED << listening, conns, nextClientId, nextPlayerId, game, fault >>
  BY DEF QueueTurn
<1>2. IsPartial(players, PlayerId, PlayerType)
  BY DEF IInv, Books, Sound
<1>3. players[p] \in PlayerType
  BY <1>2 DEF IsPartial
<1>4. r.name = players[p].name /\ r.client = players[p].client
  BY <1>3 DEF PlayerType
<1> HIDE DEF r
<1>5. DOMAIN players' = DOMAIN players
  BY <1>1, <1>2 DEF IsPartial
<1>6. \A x \in DOMAIN players : /\ players'[x].name = players[x].name
                                /\ players'[x].client = players[x].client
  BY <1>1, <1>2, <1>4 DEF IsPartial
<1>7. Roster(players') = Roster(players)
  BY <1>5, <1>6 DEF Roster
<1> QED
  BY <1>1, <1>7 DEF Step, Lobby!vars, Up

LEMMA DeleteConnectionStep ==
  ASSUME IInv, NEW c \in DOMAIN conns, DeleteConnection(c)
  PROVE  Step
<1> DEFINE theirs == {p \in DOMAIN players : players[p].client # c}
           abort == DOMAIN conns \ {c} = {} /\ game
<1>1. /\ fault = "none"
      /\ conns' = Restrict(conns, DOMAIN conns \ {c})
      /\ players' = Restrict(players, theirs)
      /\ UNCHANGED << listening, nextClientId, nextPlayerId, fault >>
      /\ game' = IF abort THEN FALSE ELSE game
  BY DEF DeleteConnection, Up
<1>2. game \in BOOLEAN
  BY DEF IInv, Books, Sound
<1>3. DOMAIN Roster(players) \ Lobby!OwnedBy(c) = theirs
  BY DEF Lobby!OwnedBy, Roster
<1>4. Roster(players') = Restrict(Roster(players), theirs)
  BY <1>1 DEF Roster, Restrict
<1>5. game' = (game /\ DOMAIN conns # {c})
  BY <1>1, <1>2
<1> HIDE DEF theirs
<1>6. Lobby!Leave(c)
  BY <1>1, <1>3, <1>4, <1>5 DEF Lobby!Leave, Up, Restrict, Lobby!Restrict
<1> QED
  BY <1>6 DEF Step, Lobby!Next

LEMMA ShutdownStep == Shutdown => Step
<1> SUFFICES ASSUME Shutdown
             PROVE  Lobby!Close
  BY DEF Step, Lobby!Next
<1> QED
  BY DEF Shutdown, Lobby!Close, Up, Restrict, Lobby!Restrict

LEMMA EachStep == IInv /\ [Next]_vars => Step
<1> SUFFICES ASSUME IInv, [Next]_vars
             PROVE  Step
  OBVIOUS
<1>1. CASE Messages
  <2>1. PICK c \in DOMAIN conns :
          \/ \E name \in Names : AddPlayer(c, name)
          \/ \E ready \in BOOLEAN : SetReadiness(c, ready)
          \/ \E p \in DOMAIN players : \/ \E axis \in Axis : QueueTurn(c, p, axis)
                                       \/ TogglePaused(c, p)
          \/ DeleteConnection(c)
    BY <1>1 DEF Messages
  <2>2. CASE \E p \in DOMAIN players : TogglePaused(c, p)
    <3>1. /\ Up /\ UNCHANGED << listening, nextClientId, nextPlayerId >>
          /\ \/ Tick(0, game, FALSE, conns, AllReset(players), scorer, queued)
             \/ UNCHANGED << conns, players, game, fault >>
      BY <2>2 DEF TogglePaused
    <3>2. CASE Tick(0, game, FALSE, conns, AllReset(players), scorer, queued)
      BY <3>1, <3>2, TickStep
    <3>3. CASE UNCHANGED << conns, players, game, fault >>
      BY <3>1, <3>3 DEF Step, Lobby!vars, Up
    <3> QED
      BY <3>1, <3>2, <3>3
  <2> QED
    BY <2>1, <2>2, AddPlayerStep, SetReadinessStep, QueueTurnStep,
       DeleteConnectionStep
<1>2. CASE TimerTick
  <2>1. /\ Up /\ UNCHANGED << listening, nextClientId, nextPlayerId >>
        /\ Tick(Head(queued).countdown, game, paused, conns, players, scorer,
                Tail(queued))
    BY <1>2 DEF TimerTick
  <2> QED
    BY <2>1, TickStep
<1>3. CASE TimerExpires \/ Interrupted \/ UNCHANGED vars
  BY <1>3 DEF TimerExpires, Interrupted, vars, Step, Lobby!vars, Up
<1> QED
  BY <1>1, <1>2, <1>3, AddConnectionStep, ShutdownStep DEF Next

\* The server, with its timer, its pauses and its queue of completed waits, is
\* the match the client programs believe in.
THEOREM ServerIsMatch == Spec => ServesMatch
<1>1. Init => Lobby!Init
  BY DEF Init, Lobby!Init, Up, Roster
<1>2. IInv /\ [Next]_vars => [Lobby!Next]_(Lobby!vars)
  BY EachStep DEF Step
<1> QED
  BY <1>1, <1>2, Invariance, PTL DEF Spec, ServesMatch, Lobby!Spec
=============================================================================
