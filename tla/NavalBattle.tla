---------------------------- MODULE NavalBattle ----------------------------
(* naval-battle.gateway.ts and placement.validation.ts, in a game room. There *)
(* is no game document: the placements are the game, and whose turn it is is  *)
(* told to the clients and written nowhere but in the row of the turn timer.  *)
EXTENDS GameRules

CONSTANTS Side,      \* 10 in the code
          Sizes      \* <<5, 4, 3, 3, 2>> in the code: the cells of each ship

FleetAssumption == Side \in Nat \ {0} /\ Sizes \in Seq(Nat \ {0}) \ {<<>>}

Sea == (1..Side) \X (1..Side)
Lines == {{<<r, c>> : c \in i..j} : r, i, j \in 1..Side}
           \cup {{<<r, c>> : r \in i..j} : c, i, j \in 1..Side}

\* A ship for each size, straight and without gaps, no two on one cell.
validateFleet(ships) ==
  /\ DOMAIN ships = DOMAIN Sizes
  /\ \A i \in DOMAIN ships : ships[i] \in Lines /\ Cardinality(ships[i]) = Sizes[i]
  /\ \A i, j \in DOMAIN ships : i # j => ships[i] \cap ships[j] = {}
Fleets == {ships \in [DOMAIN Sizes -> Lines] : validateFleet(ships)}

\* No player has placed: the state before the first placement.
Placed(d) == IF d.game = NoGame THEN {} ELSE DOMAIN d.game.ships
Place(d, p, ships) ==
  LET before == IF d.game = NoGame THEN [ships |-> <<>>, shots |-> <<>>] ELSE d.game
  IN [Charge(d, {p}) EXCEPT !.game =
       [mover |-> None,
        ships |-> [q \in Placed(d) \cup {p} |-> IF q = p THEN ships ELSE before.ships[q]],
        shots |-> [q \in Placed(d) \cup {p} |-> IF q = p THEN {} ELSE before.shots[q]]]]
Sunk(ship, shots) == ship \subseteq shots

\* Someone leaves the lobby: every placement is refunded and deleted.
Lobby(d, p) == [Refund(Depart(d, p), Placed(d)) EXCEPT !.game = NoGame, !.room.ready = {}]
LeaveNaval(p) == Leave(p, Lobby(db, p), Resign(db, p))

----------------------------------------------------------------------------
\* A player who has placed against a placement is always told that it is his
\* turn, for no socket has a local timer, and takes over the row of the timer.
syncPlayerState(d, p) ==
  IF d.room.status = "started" /\ p \in Placed(d) /\ Opponent(d, p) \in Placed(d)
  THEN Schedule(d, p) ELSE d

\* join, get_state, and the connection itself.
handleNavalJoin(p) ==
  /\ Open(db) /\ p \in Seated(db) \cup db.room.spectators
  /\ online' = online \cup {p}
  /\ Save(CancelGrace(IF p \in Seated(db) THEN syncPlayerState(db, p) ELSE db, p))
  /\ UNCHANGED <<lost, drops>>

Starts(d) == [d EXCEPT !.room.status = "started", !.room.gameReady = TRUE]

\* place_ships, which needs a socket and starts on the second placement.
handlePlaceShips(p, ships) ==
  /\ Open(db) /\ p \in (Seated(db) \cap online) \ Placed(db) /\ CanCharge(db, p)
  /\ LET placed == Place(db, p, ships)
     IN Commit(IF Cardinality(Placed(placed)) = 2 /\ ~db.room.gameReady
               THEN Starts(placed) ELSE placed)
  /\ UNCHANGED <<online, lost, drops>>

\* The same over HTTP, which starts when every seat is taken and ready.
saveBattleshipPlacement(p, ships) ==
  /\ Open(db) /\ p \in Seated(db) \ Placed(db) /\ CanCharge(db, p)
  /\ LET placed == [Place(db, p, ships) EXCEPT !.room.ready = @ \cup {p}]
         first == db.room.players[1]
     IN Commit(IF Len(db.room.players) >= Seats /\ Seated(db) \subseteq placed.room.ready
               THEN IF first \in online THEN Schedule(Starts(placed), first) ELSE Starts(placed)
               ELSE placed)
  /\ UNCHANGED <<online, lost, drops>>

(* Mutant: the end is judged by the shots read before this one. *)
handleFireStale(p, cell) ==
  /\ InPlay(db) /\ p \in Seated(db) \cap online
  /\ {p, Opponent(db, p)} \subseteq Placed(db) /\ cell \notin db.game.shots[p]
  /\ LET fired == [db EXCEPT !.game.shots[p] = @ \cup {cell}]
         fleet == ToSet(db.game.ships[Opponent(db, p)])
     IN Commit(IF \A s \in fleet : Sunk(s, db.game.shots[p]) THEN Finish(fired, p) ELSE NewTurn(fired))
  /\ UNCHANGED <<online, lost, drops>>

\* The gateway asks nobody whose turn it is. A hit keeps the turn; a sunk ship
\* and a miss pass it.
handleFire(p, cell) ==
  /\ InPlay(db) /\ p \in Seated(db) \cap online
  /\ {p, Opponent(db, p)} \subseteq Placed(db) /\ cell \notin db.game.shots[p]
  /\ LET foe == Opponent(db, p)
         fleet == ToSet(db.game.ships[foe])
         fired == [db EXCEPT !.game.shots[p] = @ \cup {cell}]
         shots == fired.game.shots[p]
         keeps == \E s \in fleet : cell \in s /\ ~Sunk(s, shots)
         next == IF keeps THEN p ELSE foe
     IN Commit(IF \A s \in fleet : Sunk(s, shots) THEN Finish(fired, p)
               ELSE IF next \in online THEN Schedule(NewTurn(fired), next) ELSE NewTurn(fired))
  /\ UNCHANGED <<online, lost, drops>>

\* handleNavalDisconnect does not wait for processForfeit, which runs on beside the
\* end of the transaction: the commit takes all of its writes, the first only
\* (the player is gone, the placements and stakes stay), or none.
processForfeit(d, p) == {d} \cup (IF Pregame(d) THEN {Depart(d, p), Lobby(d, p)}
                                   ELSE {StartGrace(d, p)})
handleNavalDisconnect(p) == Disconnect(p, processForfeit(db, p))

executeNavalForfeit == Handler("grace", TRUE, Resign(db, sweep["grace"].player))

\* The player of the row loses.
NavalTimeout(d, p) == Unschedule(Finish(d, Opponent(d, p)))
executeNavalTurnTimeout == Handler("clock", FALSE, NavalTimeout(db, sweep["clock"].player))

NavalNext ==
  \/ RoomStep
  \/ \E p \in Players : markReady(p)
  \/ \E p \in Players : handleNavalJoin(p)
  \/ \E p \in Players, ships \in Fleets : handlePlaceShips(p, ships)
  \/ \E p \in Players, ships \in Fleets : saveBattleshipPlacement(p, ships)
  \/ \E p \in Players, cell \in Sea : handleFire(p, cell)
  \/ \E p \in Players : handleNavalDisconnect(p)
  \/ \E p \in Players : LeaveNaval(p)
  \/ executeNavalForfeit
  \/ executeNavalTurnTimeout

NavalSpec == Init /\ [][NavalNext]_vars
=============================================================================
