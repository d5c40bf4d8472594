------------------------------- MODULE Domino -------------------------------
(* domino.gateway.ts and domino-game.logic.ts, in a game room. A player who  *)
(* gives up or runs out of time is eliminated; the others play on. The order *)
(* of the shuffled boneyard is not kept: any tile of it may be drawn next.   *)
EXTENDS GameRules, FiniteSetsExt

CONSTANTS Pips,        \* 6 in the code
          MaxHandSize  \* 7 in the code

Tiles == TilesUpTo(Pips)

\* deal refuses more than ten players: there is a tile for everyone.
DominoAssumption == Pips \in Nat /\ MaxHandSize \in Nat \ {0} /\ Seats <= Cardinality(Tiles)

Other(t, pip) == IF t[2] = pip THEN t[1] ELSE t[2]
calculateHandScore(hand) == MapThenSumSet(LAMBDA t : t[1] + t[2], hand)

\* The first of the players who are in S.
First(players, S) ==
  players[CHOOSE i \in DOMAIN players : players[i] \in S /\ \A j \in 1..i-1 : players[j] \notin S]

\* The first of those who have the highest of all values.
Foremost(players, values) ==
  LET all == UNION {values[p] : p \in ToSet(players)}
      top == CHOOSE v \in all : \A w \in all : w <= v
  IN First(players, {p \in ToSet(players) : top \in values[p]})

\* The highest double, or else the heaviest tile, decides who starts.
getStartingPlayer(players, hands) ==
  LET doubles == [p \in ToSet(players) |-> {t[1] : t \in {u \in hands[p] : u[1] = u[2]}}]
      sums == [p \in ToSet(players) |-> {t[1] + t[2] : t \in hands[p]}]
  IN Foremost(players, IF \E p \in ToSet(players) : doubles[p] # {} THEN doubles ELSE sums)

\* deal: equal hands, and the rest is the boneyard.
NewGames(d) ==
  LET players == d.room.players
      share == Cardinality(Tiles) \div Len(players)
      size == IF share < MaxHandSize THEN share ELSE MaxHandSize
      deals == {h \in [Seated(d) -> kSubset(size, Tiles)] :
                  \A p, q \in Seated(d) : p # q => h[p] \cap h[q] = {}}
  IN {[mover |-> getStartingPlayer(players, h), hands |-> h,
       boneyard |-> Tiles \ UNION {h[p] : p \in Seated(d)},
       board |-> {}, ends |-> <<>>, passes |-> 0, out |-> {}] : h \in deals}

\* Who has won: the last one standing, the first with an empty hand, or in a
\* blocked game the one with the lowest score, unless two share it.
Active(d) == Seated(d) \ d.game.out
Emptied(d) == {p \in Active(d) : d.game.hands[p] = {}}
Lowest(d) == {p \in Active(d) : \A q \in Active(d) :
               calculateHandScore(d.game.hands[p]) <= calculateHandScore(d.game.hands[q])}
Winners(d) == IF Cardinality(Active(d)) = 1 THEN Active(d) ELSE Emptied(d)
Blocked(d) == d.game.passes >= Cardinality(Active(d))

\* Every handler ends with getDominoGameResult; a match that goes on times the
\* player to move if he has a socket here.
Conclude(d) ==
  CASE Winners(d) # {} -> Finish(d, First(d.room.players, Winners(d)))
    [] Winners(d) = {} /\ Blocked(d) ->
         Finish(d, IF Cardinality(Lowest(d)) = 1 THEN First(d.room.players, Lowest(d)) ELSE None)
    [] OTHER -> IF d.game.mover \in online THEN Schedule(d, d.game.mover) ELSE d

Pass(d) == NewTurn([d EXCEPT !.game.mover = Following(d, @, d.game.out, 1)])

(* Mutant: he keeps his tiles. *)
eliminatePlayerKeeping(d, p) ==
  LET out == [d EXCEPT !.game.out = @ \cup {p}, !.game.passes = 0]
  IN IF d.room.status # "started" \/ p \in d.game.out THEN d
     ELSE Conclude(IF d.game.mover = p THEN Pass(out) ELSE out)

\* His tiles, if he has any, go back to the boneyard. Whoever is to move gets new time.
eliminatePlayer(d, p) ==
  LET hand == IF p \in DOMAIN d.game.hands THEN d.game.hands[p] ELSE {}
      out == [d EXCEPT !.game.boneyard = @ \cup hand, !.game.hands[p] = {},
                       !.game.out = @ \cup {p}, !.game.passes = 0]
  IN IF d.room.status # "started" \/ p \in d.game.out THEN d
     ELSE Conclude(IF d.game.mover = p THEN Pass(out) ELSE out)

\* leaveRoom: two players are a standard forfeit.
Quit(d, p) == IF Len(d.room.players) > 2 THEN eliminatePlayer(d, p) ELSE Resign(d, p)

----------------------------------------------------------------------------
handleJoin(p) == Join(p, Seats, NewGames(db), TRUE)
tryStartDominoGame == tryStart(Seats, NewGames(db))
handleDisconnect(p) == Disconnect(p, Absent(db, p))
LeaveRoom(p) == Leave(p, Depart(db, p), Quit(db, p))
forfeit == Handler("grace", FALSE, eliminatePlayer(db, sweep["grace"].player))
\* The player of the row is eliminated; that it is his turn is not asked.
timeout == Handler("clock", FALSE, eliminatePlayer(db, sweep["clock"].player))

Moves(p) == InPlay(db) /\ p \in Seated(db) \cap online /\ db.game.mover = p

\* handleMove and validateMove: the tile is laid at one end of the chain, which
\* then shows its other half.
handleMove(p, tile, side) ==
  /\ Moves(p) /\ tile \in db.game.hands[p]
  /\ db.game.ends # <<>> => db.game.ends[side] \in {tile[1], tile[2]}
  /\ LET ends == IF db.game.ends = <<>> THEN tile
                 ELSE [db.game.ends EXCEPT ![side] = Other(tile, @)]
     IN Commit(Conclude(Pass([db EXCEPT !.game.hands[p] = @ \ {tile}, !.game.board = @ \cup {tile},
                                        !.game.ends = ends, !.game.passes = 0])))
  /\ UNCHANGED <<online, lost, drops>>

\* Drawing times the player anew, but his turn is as old as before.
handleDraw(p, tile) ==
  /\ Moves(p) /\ tile \in db.game.boneyard
  /\ Commit(Schedule([db EXCEPT !.game.boneyard = @ \ {tile}, !.game.hands[p] = @ \cup {tile}], p))
  /\ UNCHANGED <<online, lost, drops>>

\* A player may pass with a tile that fits, and with tiles left to draw.
handlePass(p) ==
  /\ Moves(p)
  /\ Commit(Conclude(Pass([db EXCEPT !.game.passes = @ + 1])))
  /\ UNCHANGED <<online, lost, drops>>

Next ==
  \/ RoomStep
  \/ \E p \in Players : markReady(p)
  \/ \E p \in Players : handleJoin(p)
  \/ tryStartDominoGame
  \/ \E p \in Players : handleDisconnect(p)
  \/ \E p \in Players : LeaveRoom(p)
  \/ forfeit
  \/ timeout
  \/ \E p \in Players, tile \in Tiles, side \in 1..2 : handleMove(p, tile, side)
  \/ \E p \in Players, tile \in Tiles : handleDraw(p, tile)
  \/ \E p \in Players : handlePass(p)

Spec == Init /\ [][Next]_vars
=============================================================================
