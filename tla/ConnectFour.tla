---------------------------- MODULE ConnectFour ----------------------------
(* connect-four.gateway.ts and connect-four-game.logic.ts, in a game room.   *)
EXTENDS GameRules

CONSTANTS Rows, Cols   \* 6 and 7 in the code

\* The match is between players[0] and players[1].
BoardAssumption == {Rows, Cols} \subseteq Nat \ {0} /\ Seats = 2

Cells == (1..Rows) \X (1..Cols)
createEmptyBoard == [c \in Cells |-> None]

\* The lowest free row of a column, counted from the top as in the code.
findDropRow(board, col) ==
  CHOOSE r \in 1..Rows : /\ board[<<r, col>>] = None
                         /\ \A s \in r+1..Rows : board[<<s, col>>] # None
isBoardFull(board) == \A c \in Cells : board[c] # None

\* The cells reached from c in direction v through discs of its owner.
cellsInDirection(board, c, v) ==
  LET At(i) == <<c[1] + i * v[1], c[2] + i * v[2]>>
      Run(n) == \A i \in 1..n : At(i) \in Cells /\ board[At(i)] = board[c]
      Reach == {n \in 0..WinLength : Run(n)}
  IN {At(i) : i \in UNION {1..n : n \in Reach}}
(* Mutant: the line is followed one way only. *)
checkWinOneWay(board, c) ==
  \E v \in Directions : Cardinality({c} \cup cellsInDirection(board, c, v)) >= WinLength

checkWinFromCell(board, c) ==
  \E v \in Directions :
    Cardinality({c} \cup cellsInDirection(board, c, v)
                    \cup cellsInDirection(board, c, <<-v[1], -v[2]>>)) >= WinLength

NewGame(d) == [mover |-> d.room.players[1], board |-> createEmptyBoard]

----------------------------------------------------------------------------
handleJoin(p) == Join(p, 2, {NewGame(db)}, TRUE)
tryStartConnectFourGame == tryStart(2, {NewGame(db)})
handleDisconnect(p) == Disconnect(p, Absent(db, p))
LeaveRoom(p) == Leave(p, Depart(db, p), Resign(db, p))

\* The sockets of the room hear success: false.
executeForfeit == Handler("grace", TRUE, Resign(db, sweep["grace"].player))

\* handleForfeit, by a player with a socket here, is undone by that message.

\* The one to move loses, whoever the row named.
Timeout(d, p) == Unschedule(Finish(d, Opponent(d, d.game.mover)))
executeConnectFourTurnTimeout == Handler("clock", FALSE, Timeout(db, sweep["clock"].player))

\* handleDropDisc and dropDisc. finalizeConnectFourMatch finds the room finished
\* and leaves the money to the settlement of the command.
handleDropDisc(p, col) ==
  /\ InPlay(db) /\ p \in Seated(db) \cap online /\ db.game.mover = p
  /\ \E r \in 1..Rows : db.game.board[<<r, col>>] = None
  /\ LET cell == <<findDropRow(db.game.board, col), col>>
         dropped == [db EXCEPT !.game.board[cell] = p]
         board == dropped.game.board
     IN Commit(IF checkWinFromCell(board, cell) THEN NewTurn(Finish(dropped, p))
               ELSE IF isBoardFull(board) THEN NewTurn(Finish(dropped, None))
               ELSE PassTurn(dropped, Opponent(db, p)))
  /\ UNCHANGED <<online, lost, drops>>

ConnectFourNext ==
  \/ RoomStep
  \/ \E p \in Players : markReady(p)
  \/ \E p \in Players : handleJoin(p)
  \/ tryStartConnectFourGame
  \/ \E p \in Players : handleDisconnect(p)
  \/ \E p \in Players : LeaveRoom(p)
  \/ executeForfeit
  \/ executeConnectFourTurnTimeout
  \/ \E p \in Players, col \in 1..Cols : handleDropDisc(p, col)

ConnectFourSpec == Init /\ [][ConnectFourNext]_vars
=============================================================================
