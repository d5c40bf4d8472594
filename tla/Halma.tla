------------------------------- MODULE Halma -------------------------------
(* halma.gateway.ts and halma-game.logic.ts, in a game room. The game is     *)
(* played like draughts: what is jumped over stays on the board until the    *)
(* player ends his turn. must_end_turn is written by the code and never read, *)
(* so it is not modelled: a player may move again until he ends his turn.    *)
EXTENDS GameRules

CONSTANTS N,       \* side of the board, 8 in the code
          Depth,   \* rows of pieces of each side, 3 in the code
          Entered  \* bound: the squares that pieces move to

HalmaAssumption == N \in Nat /\ Depth \in Nat \ {0} /\ 2 * Depth < N + 1

isDarkSquare(c) == (c[1] + c[2]) % 2 # 0
Dark == {c \in (0..N-1) \X (0..N-1) : isDarkSquare(c)}
createHalmaBoard ==
  [c \in Dark |-> IF c[1] < Depth THEN 1 ELSE IF c[1] >= N - Depth THEN 2 ELSE 0]
isOwner(piece, n) == piece \in {n, n + 2}
King(piece) == piece \in {3, 4}

Dist(a, b) == IF a[1] < b[1] THEN b[1] - a[1] ELSE a[1] - b[1]
Diagonal(a, b) == a # b /\ (a[1] - b[1] = a[2] - b[2] \/ a[1] - b[1] = b[2] - a[2])
Between(a, b) == {c \in Dark : /\ Diagonal(a, c) /\ Diagonal(c, b)
                               /\ Dist(a, c) + Dist(c, b) = Dist(a, b)}
Jumped(board, a, b) == {c \in Between(a, b) : board[c] # 0}

isValidStep(board, a, b, n) ==
  /\ isOwner(board[a], n) /\ board[b] = 0 /\ Diagonal(a, b)
  /\ IF King(board[a]) THEN Jumped(board, a, b) = {} ELSE Dist(a, b) = 1

\* Whose piece jumps is not asked.
isValidJump(board, a, b) ==
  /\ board[a] # 0 /\ board[b] = 0 /\ Diagonal(a, b)
  /\ King(board[a]) \/ Dist(a, b) = 2
  /\ Cardinality(Jumped(board, a, b)) = 1
canJumpFurther(board, a) == \E b \in Dark : isValidJump(board, a, b)

NewHalma(d) == [mover |-> d.room.players[1], board |-> createHalmaBoard, pending |-> {}]
Num(d, p) == IF p = d.room.players[1] THEN 1 ELSE 2
Pieces(board, n) == {c \in Dark : isOwner(board[c], n)}

----------------------------------------------------------------------------
handleHalmaJoin(p) == Join(p, 2, {NewHalma(db)}, TRUE)
tryStartHalmaGame == tryStart(2, {NewHalma(db)})
handleHalmaDisconnect(p) == Disconnect(p, Absent(db, p))
LeaveHalma(p) == Leave(p, Depart(db, p), Resign(db, p))
executeHalmaForfeit == Handler("grace", TRUE, Resign(db, sweep["grace"].player))
HalmaTimeout(d, p) == Unschedule(Finish(d, Opponent(d, d.game.mover)))
executeHalmaTurnTimeout == Handler("clock", FALSE, HalmaTimeout(db, sweep["clock"].player))

\* A man that reaches the last row is a king. A jump marks the piece of the
\* opponent it passes over, a second jump over it unmarks it. Another jump with
\* the same piece, if there is one, gives the turn new time.
handleMove(p, a, b) ==
  LET n == Num(db, p)
      board == db.game.board
      jump == isValidJump(board, a, b)
      piece == IF board[a] = n /\ b[1] = (IF n = 1 THEN N - 1 ELSE 0) THEN n + 2 ELSE board[a]
      moved == [board EXCEPT ![a] = 0, ![b] = piece]
      taken == {c \in Jumped(board, a, b) : jump /\ isOwner(board[c], 3 - n)}
      after == [db EXCEPT !.game.board = moved,
                          !.game.pending = (@ \ taken) \cup (taken \ @)]
  IN /\ InPlay(db) /\ p \in Seated(db) \cap online /\ db.game.mover = p /\ b \in Entered
     /\ jump \/ isValidStep(board, a, b, n)
     /\ Commit(Schedule(IF jump /\ canJumpFurther(moved, b) THEN NewTurn(after) ELSE after, p))
     /\ UNCHANGED <<online, lost, drops>>

(* Mutant: the pieces are counted before the captured ones are taken off. *)
handleEndTurnStale(p) ==
  LET board == [c \in Dark |-> IF c \in db.game.pending THEN 0 ELSE db.game.board[c]]
      after == [PassTurn(db, Opponent(db, p)) EXCEPT !.game.board = board, !.game.pending = {}]
  IN /\ InPlay(db) /\ p \in Seated(db) \cap online /\ db.game.mover = p
     /\ Commit(IF Pieces(db.game.board, 1) = {} THEN Finish(after, db.room.players[2])
               ELSE IF Pieces(db.game.board, 2) = {} THEN Finish(after, db.room.players[1])
               ELSE after)
     /\ UNCHANGED <<online, lost, drops>>

\* Out of turn, the command is accepted and does nothing. A draw of two kings
\* refunds the stakes at once.
handleEndTurn(p) ==
  LET board == [c \in Dark |-> IF c \in db.game.pending THEN 0 ELSE db.game.board[c]]
      foe == Opponent(db, p)
      after == [PassTurn(db, foe) EXCEPT !.game.board = board, !.game.pending = {}]
      left == [n \in 1..2 |-> {board[c] : c \in Pieces(board, n)}]
      single == \A n \in 1..2 : Cardinality(Pieces(board, n)) = 1
  IN /\ InPlay(db) /\ p \in Seated(db) \cap online
     /\ Commit(IF db.game.mover # p THEN db
               ELSE IF left[1] = {} THEN Finish(after, db.room.players[2])
               ELSE IF left[2] = {} THEN Finish(after, db.room.players[1])
               ELSE IF single /\ left[1] = {3} /\ left[2] = {4}
               THEN Refund(Finish(after, None), Seated(db))
               ELSE after)
     /\ UNCHANGED <<online, lost, drops>>

HalmaNext ==
  \/ RoomStep
  \/ \E p \in Players : markReady(p)
  \/ \E p \in Players : handleHalmaJoin(p)
  \/ tryStartHalmaGame
  \/ \E p \in Players : handleHalmaDisconnect(p)
  \/ \E p \in Players : LeaveHalma(p)
  \/ executeHalmaForfeit
  \/ executeHalmaTurnTimeout
  \/ \E p \in Players : \E a, b \in Dark : handleMove(p, a, b)
  \/ \E p \in Players : handleEndTurn(p)

HalmaSpec == Init /\ [][HalmaNext]_vars
=============================================================================
