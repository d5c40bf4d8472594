------------------------------- MODULE Chess -------------------------------
(* chess.gateway.ts, in a game room. The moves are in ChessRules.            *)
EXTENDS ChessRules

CONSTANTS Lines,     \* bound: the openings a match may follow, as sequences of moves
          Free,      \* bound: moves made after an opening
          Promotions \* what clients ask a pawn to become: stored unchecked

ChessAssumption ==
  /\ Free \in Nat
  /\ None \notin {"w", "b"} \X (Types \cup Promotions)   \* an empty square

NewGame(d) == [mover |-> d.room.players[1], board |-> createInitialBoard,
               rights |-> Rights, passant |-> {}, history |-> <<>>,
               irregular |-> FALSE]

----------------------------------------------------------------------------
handleJoin(p) == Join(p, 2, {NewGame(db)}, TRUE)
tryStartChessGame == tryStart(2, {NewGame(db)})
handleDisconnect(p) == Disconnect(p, Absent(db, p))
LeaveRoom(p) == Leave(p, Depart(db, p), Resign(db, p))
executeForfeit == Handler("grace", TRUE, Resign(db, sweep["grace"].player))
Timeout(d, p) == Unschedule(Finish(d, Opponent(d, d.game.mover)))
executeTurnTimeout == Handler("clock", FALSE, Timeout(db, sweep["clock"].player))

\* The moves of an instance: those of an opening, then Free others.
Within(history) == \E line \in Lines :
  IF Len(history) <= Len(line) THEN IsPrefix(history, line)
  ELSE IsPrefix(line, history) /\ Len(history) <= Len(line) + Free

\* The next player is timed even when the game is over.
handleMove(p, m, promotion) ==
  LET g == applyMove(db.game, m, promotion)
      foe == Opponent(db, p)
      after == PassTurn([db EXCEPT !.game = g], foe)
  IN /\ Within(g.history)
     /\ Commit(IF Checkmate(g, Color(db, foe)) THEN Finish(after, p)
               ELSE IF Stuck(g, Color(db, foe)) \/ Bare(g) THEN Finish(after, None) ELSE after)
     /\ UNCHANGED <<online, lost, drops>>

Next ==
  \/ RoomStep
  \/ \E p \in Players : markReady(p)
  \/ \E p \in Players : handleJoin(p)
  \/ tryStartChessGame
  \/ \E p \in Players : handleDisconnect(p)
  \/ \E p \in Players : LeaveRoom(p)
  \/ executeForfeit
  \/ executeTurnTimeout
  \/ \E p \in Players, promotion \in Promotions :
       /\ InPlay(db) /\ p \in Seated(db) \cap online /\ db.game.mover = p
       /\ \E s \in Squares :
            /\ Holds(db.game.board, s, Color(db, p))
            /\ \E m \in getLegalMoves(db.game, s, Color(db, p)) :
                 /\ FirstFound(m, getLegalMoves(db.game, s, Color(db, p)))
                 /\ handleMove(p, m, promotion)

Spec == Init /\ [][Next]_vars
=============================================================================
