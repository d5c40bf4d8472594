----------------------------- MODULE GameRooms -----------------------------
(* One casual room from its creation to its settlement, as every game of the *)
(* platform shares it: room.service.ts, the money of game-finance.ts, the    *)
(* barrier of match-start.ts, the rows of the turn-deadline and grace-period *)
(* services and their sweepers. A game's module supplies what its gateway    *)
(* does. With RELIABLE_COMMANDS_ENABLED and FINANCE_V2_ENABLED a handler is  *)
(* one MongoDB transaction, so a handler is one step from db to db'.         *)
EXTENDS Integers, Sequences, FiniteSets, SequencesExt

CONSTANTS Players,    \* the users who may take a seat
          Seats,      \* player_limit of the room
          Stake,      \* bet_amount
          Fee,        \* house_edge, in percent
          Watchers,   \* the users who ask to spectate
          Spenders,   \* the users who spend their money before the match takes it
          MaxDrops,   \* bound: sockets lost in a behaviour
          Expiring,   \* bound: the kinds of rows that time runs out for
          None

ASSUME RoomsAssumption ==
  /\ {None, "house", "escrow"} \cap Players = {}
  /\ Seats \in Nat \ {0, 1}
  /\ Stake \in Nat \ {0}
  /\ Fee \in 0..100
  /\ Watchers \subseteq Players /\ Spenders \subseteq Players
  /\ MaxDrops \in Nat /\ Expiring \subseteq {"clock", "grace"}

VARIABLES db,       \* what MongoDB holds of the room
          online,   \* players with a socket in the Socket.IO room
          lost,     \* game_disconnects rows not completed
          sweep,    \* the two sweepers between the claim and the release of a row
          drops     \* sockets lost so far

vars == <<db, online, lost, sweep, drops>>

House == "house"
Escrow == "escrow"
NoRow == [player |-> None, phase |-> "none"]
Idle == [player |-> None, step |-> "idle", conflict |-> FALSE]
Sweepers == {"clock", "grace"}   \* turn-deadline and grace-period service
NoGame == [mover |-> None]
NoRoom == [status |-> "none", players |-> <<>>, ready |-> {}, spectators |-> {},
           gameReady |-> FALSE, acked |-> {}, played |-> FALSE, winner |-> None,
           cancelled |-> FALSE, settled |-> FALSE]

Init ==
  /\ db = [room |-> NoRoom, game |-> NoGame, clock |-> NoRow, aged |-> FALSE,
           grace |-> [p \in Players |-> "none"], paid |-> {}, back |-> {},
           money |-> [a \in Players \cup {House, Escrow} |->
                        IF a \in Players THEN Stake ELSE 0]]
  /\ online = {} /\ lost = {} /\ sweep = [k \in Sweepers |-> Idle] /\ drops = 0

----------------------------------------------------------------------------
(* Reading a database state d.                                               *)

Seated(d) == ToSet(d.room.players)
Open(d) == d.room.status \in {"waiting", "started"}
isPreparing(d) == d.room.gameReady /\ ~d.room.played /\ d.room.status # "finished"
canPlay(d) == d.room.gameReady => d.room.status = "started" /\ d.room.played
InPlay(d) == d.room.status = "started" /\ d.room.played
Pregame(d) == Open(d) /\ ~d.room.gameReady
\* The first of the other players: who wins when p gives up.
Opponent(d, p) ==
  LET q == d.room.players
  IN q[CHOOSE i \in DOMAIN q : q[i] # p /\ \A j \in 1..i-1 : q[j] = p]
\* The next player in a direction, 1 or -1, who is not out.
Following(d, p, out, dir) ==
  LET n == Len(d.room.players)
      at == CHOOSE i \in 1..n : d.room.players[i] = p
      Ahead(k) == d.room.players[((at - 1 + dir * k) % n) + 1]
      free == {k \in 1..n : Ahead(k) \notin out}
  IN IF free = {} THEN p ELSE Ahead(CHOOSE k \in free : \A j \in free : k <= j)

----------------------------------------------------------------------------
(* Money. A journal exists once per operation id: paid and back are the      *)
(* players of room:stake and room:refund.                                    *)

CanCharge(d, p) == Open(d) /\ ~d.room.cancelled /\ (p \in d.paid \/ d.money[p] >= Stake)

\* The accounts after each of ps gave amount to the escrow.
Pay(money, ps, amount) ==
  [a \in DOMAIN money |-> CASE a \in ps   -> money[a] - amount
                            [] a = Escrow -> money[a] + amount * Cardinality(ps)
                            [] OTHER      -> money[a]]

Charge(d, ps) ==
  [d EXCEPT !.paid = @ \cup ps, !.money = Pay(@, ps \ d.paid, Stake)]

\* The refunds of several stakes. One of them finishes a room that is open.
Refund(d, ps) ==
  LET due == (ps \cap d.paid) \ d.back
      held == [d EXCEPT !.back = @ \cup due, !.money = Pay(@, due, -Stake)]
  IN IF ps = {} \/ d.room.status = "finished" THEN held
     ELSE [held EXCEPT !.room.status = "finished", !.room.cancelled = TRUE]

\* MATCH_START_NOT_CONFIRMED and WINNER_NOT_IN_ROOM undo the command.
CanSettle(d) ==
  (d.room.status = "finished" /\ ~d.room.settled /\ d.money[Escrow] # 0
     /\ d.room.winner # None /\ ~d.room.cancelled)
    => (~d.room.gameReady \/ d.room.played) /\ d.room.winner \in Seated(d)

(* Mutant: the pot is reckoned by the seats, as calculateWinnerSettlement does. *)
settleByPlayers(d) ==
  LET pot == Stake * Len(d.room.players)
      fee == (pot * Fee + 99) \div 100
  IN IF d.room.status # "finished" \/ d.room.settled THEN d
     ELSE IF d.room.winner = None \/ d.room.cancelled THEN [Refund(d, d.paid) EXCEPT !.room.settled = TRUE]
     ELSE [d EXCEPT !.room.settled = TRUE, !.money[Escrow] = @ - pot, !.money[House] = @ + fee,
                    !.money[d.room.winner] = @ + pot - fee]

settleGameRoom(d) ==
  LET pot == d.money[Escrow]
      fee == (pot * Fee + 99) \div 100
      paidOut == IF pot = 0 THEN d
                 ELSE IF d.room.winner # None /\ ~d.room.cancelled
                 THEN [d EXCEPT !.money[Escrow] = 0, !.money[d.room.winner] = @ + pot - fee,
                                !.money[House] = @ + fee]
                 ELSE Refund(d, d.paid)
  IN IF d.room.status # "finished" \/ d.room.settled THEN d
     ELSE [paidOut EXCEPT !.room.settled = TRUE]

----------------------------------------------------------------------------
(* A command commits with a new revision, after the settlement of a room it  *)
(* finished: a sweeper that read the revision before will be refused. A read *)
(* (join, get_state) and a REST insert leave the revision.                   *)

Conflicts(sw) == [k \in Sweepers |->
                   [sw[k] EXCEPT !.conflict = @ \/ sw[k].step = "read"]]
Commit(d) ==
  /\ CanSettle(d)
  /\ db' = settleGameRoom(d)
  /\ sweep' = Conflicts(sweep)
Save(d) == db' = d /\ UNCHANGED sweep

\* finished with a winner, or with None in a draw
Finish(d, w) == [d EXCEPT !.room.status = "finished", !.room.winner = w]

Cancel(d) == [d EXCEPT !.room.status = "finished", !.room.cancelled = TRUE,
                       !.room.winner = None, !.clock = NoRow]

\* The rows. A schedule is deferred to the end of its transaction, and skipped
\* while the match prepares.
Schedule(d, p) == IF isPreparing(d) THEN d
                  ELSE [d EXCEPT !.clock = [player |-> p, phase |-> "running"]]
Unschedule(d) == [d EXCEPT !.clock = NoRow]
StartGrace(d, p) == [d EXCEPT !.grace[p] = "running"]
CancelGrace(d, p) == [d EXCEPT !.grace[p] = "none"]

\* turn_start_time := now
NewTurn(d) == [d EXCEPT !.aged = FALSE]

\* The usual end of a move: the next player is timed if he has a socket here.
PassTurn(d, p) ==
  LET turned == NewTurn([d EXCEPT !.game.mover = p])
  IN IF p \in online THEN Schedule(turned, p) ELSE turned

----------------------------------------------------------------------------
(* room.service.ts                                                           *)

createRoom(p) ==
  /\ db.room.status = "none" /\ db.money[p] >= Stake
  /\ Save([db EXCEPT !.room = [NoRoom EXCEPT !.status = "waiting", !.players = <<p>>]])
  /\ UNCHANGED <<online, lost, drops>>

joinRoom(p) ==
  /\ db.room.status = "waiting" /\ p \notin Seated(db)
  /\ Len(db.room.players) < Seats /\ db.money[p] >= Stake
  /\ LET seated == Append(db.room.players, p)
     IN Save([db EXCEPT !.room.players = seated,
                        !.room.status = IF Len(seated) = Seats THEN "started" ELSE @])
  /\ UNCHANGED <<online, lost, drops>>

spectateRoom(p) ==
  /\ db.room.status = "started" /\ p \in Watchers \ db.room.spectators
  /\ Save([db EXCEPT !.room.spectators = @ \cup {p}])
  /\ UNCHANGED <<online, lost, drops>>

markReady(p) ==
  /\ Pregame(db) /\ p \in Seated(db) \ db.room.ready
  /\ Commit([db EXCEPT !.room.ready = @ \cup {p}])
  /\ UNCHANGED <<online, lost, drops>>

\* $pull of a player, who has one seat.
Without(players, p) == RemoveAt(players, CHOOSE i \in DOMAIN players : players[i] = p)

\* A player leaves the lobby: also what the gateways do when he disconnects there.
Depart(d, p) == [d EXCEPT !.room.players = Without(@, p),
                          !.room.status = "waiting", !.room.gameReady = FALSE,
                          !.room.ready = @ \ {p}]

\* leaveRoom. The games differ in what a player leaves behind in the lobby, and in
\* a match that he quits.
Leave(p, departed, quitted) ==
  /\ p \in Seated(db) /\ Open(db)
  /\ Commit(IF db.room.status = "waiting" /\ Len(db.room.players) = 1 THEN Finish(db, None)
            ELSE IF p \in db.room.spectators THEN [db EXCEPT !.room.spectators = @ \ {p}]
            ELSE IF isPreparing(db) THEN Cancel(db)
            ELSE IF Pregame(db) THEN departed ELSE quitted)
  /\ UNCHANGED <<online, lost, drops>>

\* Two seats, or two players left: the other one wins.
Resign(d, p) == Finish(d, Opponent(d, p))

----------------------------------------------------------------------------
(* match-start.ts                                                            *)

acknowledgeInitialState(p) ==
  /\ isPreparing(db) /\ p \in Seated(db) \cap online /\ p \notin db.room.acked
  /\ LET acked == [db EXCEPT !.room.acked = @ \cup {p}]
         first == IF db.game.mover = None THEN db.room.players[1] ELSE db.game.mover
     IN IF Seated(db) \subseteq acked.room.acked
        THEN Commit(Schedule([acked EXCEPT !.room.played = TRUE, !.aged = FALSE], first))
        ELSE Save(acked)
  /\ UNCHANGED <<online, lost, drops>>

\* preparation_deadline_at has passed.
cancelPreparedMatch ==
  /\ isPreparing(db)
  /\ Commit(Cancel(db))
  /\ UNCHANGED <<online, lost, drops>>

\* The user spends or withdraws his money elsewhere before the match takes it.
Spend(p) ==
  /\ p \in Spenders /\ Pregame(db) /\ p \notin db.paid /\ db.money[p] > 0
  /\ Save([db EXCEPT !.money[p] = 0])
  /\ UNCHANGED <<online, lost, drops>>

----------------------------------------------------------------------------
(* What the gateways of the games share.                                     *)

\* tryStart...Game: every seat taken and ready, the lease free. A stake that
\* cannot be charged undoes the transaction.
CanStart(d, least) ==
  Pregame(d) /\ Len(d.room.players) >= least /\ Seated(d) \subseteq d.room.ready
Funded(d) == \A p \in Seated(d) : CanCharge(d, p)
(* Mutant: the match is published before the stakes are taken. *)
StartUncharged(d, g) ==
  [d EXCEPT !.game = g, !.room.status = "started", !.room.gameReady = TRUE]

Start(d, g) ==
  [Charge(d, Seated(d)) EXCEPT !.game = g, !.room.status = "started", !.room.gameReady = TRUE]

tryStart(least, Deals) ==
  /\ CanStart(db, least) /\ Funded(db)
  /\ \E g \in Deals : Commit(Start(db, g))
  /\ UNCHANGED <<online, lost, drops>>

\* handleJoin and get_state: the grace ends, the seat is ready, the player to
\* move is timed if the game is timed now, and a full room starts. Of a start that is
\* refused, only the socket remains.
Join(p, least, Deals, timed) ==
  LET here == CancelGrace([db EXCEPT !.room.ready = IF p \in Seated(db) THEN @ \cup {p} ELSE @], p)
  IN /\ Open(db) /\ p \in Seated(db) \cup db.room.spectators
     /\ online' = online \cup {p}
     /\ IF CanStart(here, least) /\ p \in Seated(db)
        THEN IF Funded(here) THEN \E g \in Deals : Commit(Start(here, g)) ELSE Save(db)
        ELSE Save(IF here.room.gameReady /\ timed /\ here.game.mover = p THEN Schedule(here, p) ELSE here)
     /\ UNCHANGED <<lost, drops>>

\* A finished room answers with its result; the socket does not enter the room.
Resync(p) ==
  /\ db.room.status = "finished" /\ db.grace[p] # "none"
  /\ Save(CancelGrace(db, p))
  /\ UNCHANGED <<online, lost, drops>>

\* A socket is lost. A loss while the match prepares is not recorded, one after
\* the end changes nothing.
DropSocket(p) ==
  /\ Open(db) /\ p \in online /\ drops < MaxDrops
  /\ online' = online \ {p} /\ drops' = drops + 1
  /\ lost' = IF isPreparing(db) \/ (db.room.status = "started" /\ ~db.room.gameReady) THEN lost ELSE lost \cup {p}
  /\ UNCHANGED <<db, sweep>>

\* The gateway's handleDisconnect, run as a server command when the row is taken
\* up; it stays pending while the match prepares. gone are its outcomes.
Disconnect(p, gone) ==
  /\ p \in lost
  /\ ~isPreparing(db) /\ ~(db.room.status = "started" /\ Pregame(db))
  /\ lost' = lost \ {p}
  /\ IF ~Open(db) THEN Save(db)
     ELSE IF p \in online \/ p \notin Seated(db) \cup db.room.spectators THEN Commit(db)
     ELSE IF db.room.status = "waiting" /\ db.room.players = <<p>> THEN Commit(Finish(db, None))
     ELSE IF p \in db.room.spectators
     THEN Commit([db EXCEPT !.room.spectators = @ \ {p}])
     ELSE \E d \in gone : Commit(d)
  /\ UNCHANGED <<online, drops>>

Absent(d, p) == {IF Pregame(d) THEN Depart(d, p) ELSE StartGrace(d, p)}

----------------------------------------------------------------------------
(* The sweepers. They claim a row that is due, run the gateway's handler as  *)
(* a server command, and release the row if it is still as they claimed it.  *)

\* The row of the player to move expires when his turn is over (a later join
\* only delays it). A row left from an earlier turn expires at any time, and
\* turn_timer_seconds of the present turn pass on their own.
ClockRunsOut ==
  /\ "clock" \in Expiring /\ db.clock.phase = "running"
  /\ Save([db EXCEPT !.clock.phase = "due", !.aged = @ \/ db.clock.player = db.game.mover])
  /\ UNCHANGED <<online, lost, drops>>

TurnRunsOut ==
  /\ "clock" \in Expiring /\ InPlay(db) /\ db.clock # NoRow /\ db.clock.player # db.game.mover /\ ~db.aged
  /\ Save([db EXCEPT !.aged = TRUE])
  /\ UNCHANGED <<online, lost, drops>>

GraceRunsOut(p) ==
  /\ "grace" \in Expiring /\ db.grace[p] = "running"
  /\ Save([db EXCEPT !.grace[p] = "due"])
  /\ UNCHANGED <<online, lost, drops>>

ClaimClock ==
  /\ sweep["clock"] = Idle /\ db.clock.phase = "due"
  /\ db' = [db EXCEPT !.clock.phase = "claimed"]
  /\ sweep' = [sweep EXCEPT !["clock"].player = db.clock.player, !["clock"].step = "claimed"]
  /\ UNCHANGED <<online, lost, drops>>

ClaimGrace(p) ==
  /\ sweep["grace"] = Idle /\ db.grace[p] = "due"
  /\ db' = [db EXCEPT !.grace[p] = "claimed"]
  /\ sweep' = [sweep EXCEPT !["grace"].player = p, !["grace"].step = "claimed"]
  /\ UNCHANGED <<online, lost, drops>>

\* durableVersion, after the check of turn_start_time for a timeout: too early
\* is a silent return, which the sweeper takes for success.
ReadVersion(k) ==
  /\ sweep[k].step = "claimed"
  /\ sweep' = [sweep EXCEPT ![k].step =
                 IF k = "clock" /\ (db.room.status # "started" \/ ~db.aged)
                 THEN "succeeded" ELSE "read"]
  /\ UNCHANGED <<db, online, lost, drops>>

\* COMMAND_VERSION_CONFLICT is returned, not thrown.
Refused(k) ==
  /\ sweep[k].step = "read" /\ sweep[k].conflict
  /\ sweep' = [sweep EXCEPT ![k].step = "succeeded"]
  /\ UNCHANGED <<db, online, lost, drops>>

\* The database fails: the handler throws.
HandlerFails(k) ==
  /\ sweep[k].step = "read"
  /\ sweep' = [sweep EXCEPT ![k].step = "failed"]
  /\ UNCHANGED <<db, online, lost, drops>>

\* ReliableInternalAction around a handler and what it does: guarded by canPlay, and a timeout
\* by a row that is still there and has expired. A handler that shouts tells the
\* sockets of the room success: false, which undoes it if there is any.
Handler(k, shouts, handled) ==
  LET done == [sweep EXCEPT ![k].step = "succeeded"]
      cancels == k = "grace" /\ isPreparing(db)
      runs == /\ canPlay(db) /\ db.room.status = "started"
              /\ k = "clock" => db.clock.phase \in {"due", "claimed"}
      after == IF cancels THEN Cancel(db) ELSE IF runs THEN handled ELSE db
  IN /\ sweep[k].step = "read" /\ ~sweep[k].conflict
     /\ IF runs /\ shouts /\ online # {}
        THEN db' = db /\ sweep' = done
        ELSE CanSettle(after) /\ db' = settleGameRoom(after) /\ sweep' = Conflicts(done)
     /\ UNCHANGED <<online, lost, drops>>

(* Mutant: the row is deleted by its key, whoever wrote it since. *)
ReleaseByKey(k) ==
  /\ sweep[k].step \in {"succeeded", "failed"}
  /\ sweep' = [sweep EXCEPT ![k] = Idle]
  /\ db' = IF k = "clock" THEN Unschedule(db) ELSE CancelGrace(db, sweep[k].player)
  /\ UNCHANGED <<online, lost, drops>>

\* deleteOne or updateOne of the row as it was claimed: a row that was written
\* since is another one.
Release(k) ==
  LET p == sweep[k].player
      gone == sweep[k].step = "succeeded"
  IN /\ sweep[k].step \in {"succeeded", "failed"}
     /\ sweep' = [sweep EXCEPT ![k] = Idle]
     /\ db' = CASE k = "clock" /\ db.clock.phase = "claimed" ->
                     IF gone THEN Unschedule(db)
                     ELSE [db EXCEPT !.clock.phase = "running"]
                [] k = "grace" /\ db.grace[p] = "claimed" ->
                     IF gone THEN CancelGrace(db, p) ELSE StartGrace(db, p)
                [] OTHER -> db
     /\ UNCHANGED <<online, lost, drops>>

\* The process dies: its claim lapses after 30 seconds.
SweeperDies(k) ==
  /\ sweep[k] # Idle
  /\ sweep' = [sweep EXCEPT ![k] = Idle]
  /\ db' = IF k = "clock"
           THEN [db EXCEPT !.clock.phase = IF @ = "claimed" THEN "due" ELSE @]
           ELSE [db EXCEPT !.grace = [p \in Players |-> IF @[p] = "claimed" THEN "due" ELSE @[p]]]
  /\ UNCHANGED <<online, lost, drops>>

\* The steps that are the same in every game.
RoomStep ==
  \/ \E p \in Players : createRoom(p)
  \/ \E p \in Players : joinRoom(p)
  \/ \E p \in Players : spectateRoom(p)
  \/ \E p \in Players : acknowledgeInitialState(p)
  \/ \E p \in Players : Spend(p)
  \/ \E p \in Players : Resync(p)
  \/ \E p \in Players : DropSocket(p)
  \/ \E p \in Players : GraceRunsOut(p)
  \/ \E p \in Players : ClaimGrace(p)
  \/ cancelPreparedMatch
  \/ ClockRunsOut
  \/ TurnRunsOut
  \/ ClaimClock
  \/ \E k \in Sweepers : ReadVersion(k)
  \/ \E k \in Sweepers : Refused(k)
  \/ \E k \in Sweepers : HandlerFails(k)
  \/ \E k \in Sweepers : Release(k)
  \/ \E k \in Sweepers : SweeperDies(k)

----------------------------------------------------------------------------
Users == DOMAIN db.grace

\* What RoomContract speaks of.
Stage(d) == IF d.room.status = "finished" THEN "closed"
            ELSE IF ~d.room.gameReady THEN "lobby"
            ELSE IF d.room.played THEN "live" ELSE "held"
Taker(d) == IF d.room.settled /\ ~d.room.cancelled THEN d.room.winner ELSE None

\* settleGameRoom and gameFinancialUpdate: the books of a room in every state. The
\* escrow has the stakes that came in and did not go back, until the winner of
\* the match takes them; every player is out of pocket by his own stake and
\* nothing else, and nobody is refunded and paid out.
StakesBalance ==
  LET r == db.room
      pot == Stake * Cardinality(db.paid \ db.back)
      won == r.settled /\ r.winner # None /\ ~r.cancelled
      fee == (pot * Fee + 99) \div 100
  IN /\ db.back \subseteq db.paid
     /\ won => db.back = {}
     /\ r.status = "finished" => r.settled /\ (won \/ db.back = db.paid)
     /\ db.money[Escrow] = IF won THEN 0 ELSE pot
     /\ db.money[House] = IF won THEN fee ELSE 0
     /\ \A p \in Users :
          LET due == Stake - (IF p \in db.paid \ db.back THEN Stake ELSE 0)
                           + (IF won /\ p = r.winner THEN pot - fee ELSE 0)
          IN db.money[p] = due \/ (p \in Spenders \ db.paid /\ db.money[p] = due - Stake)

\* grace-period.service.ts sweep: a player who is away with a countdown running
\* loses it only by coming back, by the end of the match, or to the sweeper once it has
\* run out; the sweeper that finishes with an earlier absence of his leaves the new
\* countdown alone.
RefreshedRowSurvives ==
  [][\A p \in Users :
       db.grace[p] = "running" /\ db'.grace[p] \notin {"running", "due"} => p \in online' \/ ~Open(db)]_vars
=============================================================================
