---------------------------- MODULE ChessRules ----------------------------
(* chess-game.logic.ts: where a piece may go, what a move does to the document *)
(* of a match, and what the moves promise of it.                               *)
EXTENDS GameRooms

\* chess_games: passant has the square passed over by a pawn that has just gone two.
\* irregular is not in the document: a pawn has become what the rules do not name.
IsChess(g) == DOMAIN g = {"mover", "board", "rights", "passant", "history", "irregular"}

\* A square is <<row, column>>, counted as in the code: White starts on rows 6, 7.
Squares == (0..7) \X (0..7)
Foe == [w |-> "b", b |-> "w"]
Home == [w |-> 7, b |-> 0]
Main == <<"r", "n", "b", "q", "k", "b", "n", "r">>
createInitialBoard ==
  [s \in Squares |-> CASE s[1] \in {0, 7} -> <<IF s[1] = 0 THEN "b" ELSE "w", Main[s[2] + 1]>>
                       [] s[1] \in {1, 6} -> <<IF s[1] = 1 THEN "b" ELSE "w", "p">>
                       [] OTHER -> None]
Types == {"p", "r", "n", "b", "q", "k"}
Offered == {"q", "r", "b", "n"}
Rights == {"w", "b"} \X {"K", "Q"}

Straight == {<<0, 1>>, <<0, -1>>, <<1, 0>>, <<-1, 0>>}
Slanted == {<<1, 1>>, <<1, -1>>, <<-1, 1>>, <<-1, -1>>}
Leaps == ({-2, 2} \X {-1, 1}) \cup ({-1, 1} \X {-2, 2})
Ways(type) == CASE type = "r" -> Straight [] type = "b" -> Slanted [] type = "n" -> Leaps
                [] type \in {"q", "k"} -> Straight \cup Slanted [] OTHER -> {}
Step(s, v, i) == <<s[1] + i * v[1], s[2] + i * v[2]>>

Empty(board, S) == \A s \in S : board[s] = None
Holds(board, s, color) == s \in Squares /\ board[s] # None /\ board[s][1] = color

\* Where the piece on s may go: along a way up to the first piece, and onto it
\* if it is the opponent's. King and knight take one step.
Reach(board, s) ==
  LET color == board[s][1]
      type == board[s][2]
  IN UNION {{Step(s, v, i) : i \in
       {j \in 1..(IF type \in {"k", "n"} THEN 1 ELSE 7) :
          /\ Step(s, v, j) \in Squares
          /\ Empty(board, {Step(s, v, k) : k \in 1..j-1})
          /\ ~Holds(board, Step(s, v, j), color)}} : v \in Ways(type)}

Move(s, t, special) == [from |-> s, to |-> t, special |-> special]

PawnMoves(g, s) ==
  LET color == g.board[s][1]
      ahead == IF color = "w" THEN <<-1, 0>> ELSE <<1, 0>>
      one == Step(s, ahead, 1)
      two == Step(s, ahead, 2)
      sides == {<<one[1], one[2] + 1>>, <<one[1], one[2] - 1>>} \cap Squares
      walks == IF one \in Squares /\ g.board[one] = None
               THEN {one} \cup (IF s[1] = Home[color] + ahead[1] /\ g.board[two] = None THEN {two} ELSE {})
               ELSE {}
  IN {Move(s, t, "plain") : t \in walks \cup {t \in sides : Holds(g.board, t, Foe[color])}}
       \cup {Move(s, t, "passant") : t \in sides \cap g.passant}

CastleMoves(g, s) ==
  LET color == g.board[s][1]
      row == Home[color]
  IN {Move(s, <<row, IF side = "K" THEN 6 ELSE 2>>, side) : side \in
       {x \in {"K", "Q"} : /\ <<color, x>> \in g.rights
                           /\ Empty(g.board, {row} \X (IF x = "K" THEN 5..6 ELSE 1..3))
                           /\ g.board[<<row, IF x = "K" THEN 7 ELSE 0>>] = <<color, "r">>}}

getPseudoLegalMoves(g, s) ==
  IF g.board[s][2] = "p" THEN PawnMoves(g, s)
  ELSE {Move(s, t, "plain") : t \in Reach(g.board, s)}
         \cup (IF g.board[s][2] = "k" THEN CastleMoves(g, s) ELSE {})

King(g, color) == {s \in Squares : g.board[s] = <<color, "k">>}
Earlier(s, t) == s[1] < t[1] \/ (s[1] = t[1] /\ s[2] < t[2])

\* Only the first king of a colour is looked at; without one there is no check.
isCheck(color, g) ==
  \E k \in King(g, color) :
    /\ \A other \in King(g, color) : ~Earlier(other, k)
    /\ \E s \in Squares : /\ Holds(g.board, s, Foe[color])
                          /\ \E m \in getPseudoLegalMoves(g, s) : m.to = k

Moved(g, s, t) == [g EXCEPT !.board[t] = g.board[s], !.board[s] = None]
After(g, m) == LET h == Moved(g, m.from, m.to)
               IN IF m.special = "passant" THEN [h EXCEPT !.board[<<m.from[1], m.to[2]>>] = None] ELSE h

(* Mutant: only castling is checked. *)
LegalUnchecked(g, color, m) == m.special \in {"K", "Q"} => ~isCheck(color, g)

Legal(g, color, m) ==
  /\ m.special \in {"K", "Q"} =>
       /\ ~isCheck(color, g)
       /\ ~isCheck(color, Moved(g, m.from, Step(m.from, <<0, IF m.special = "K" THEN 1 ELSE -1>>, 1)))
  /\ ~isCheck(color, After(g, m))
getLegalMoves(g, s, color) ==
  {m \in getPseudoLegalMoves(g, s) : Legal(g, color, m)}
\* The move the handler finds: to a square that a king reaches by a step, it is not castling.
FirstFound(m, moves) == m.special \in {"K", "Q"} => [m EXCEPT !.special = "plain"] \notin moves

applyMove(g, m, promotion) ==
  LET piece == g.board[m.from]
      color == piece[1]
      row == Home[color]
      moved == After(g, m).board
      rooked == CASE m.special = "K" -> [moved EXCEPT ![<<row, 5>>] = moved[<<row, 7>>], ![<<row, 7>>] = None]
                  [] m.special = "Q" -> [moved EXCEPT ![<<row, 3>>] = moved[<<row, 0>>], ![<<row, 0>>] = None]
                  [] OTHER -> moved
      promoted == piece[2] = "p" /\ m.to[1] = Home[Foe[color]]
      spent == CASE piece[2] = "k" -> {color} \X {"K", "Q"}
                 [] piece[2] = "r" /\ m.from = <<row, 7>> -> {<<color, "K">>}
                 [] piece[2] = "r" /\ m.from = <<row, 0>> -> {<<color, "Q">>}
                 [] OTHER -> {}
  IN [g EXCEPT
       !.board = IF promoted THEN [rooked EXCEPT ![m.to] = <<color, promotion>>] ELSE rooked,
       !.irregular = @ \/ (promoted /\ promotion \notin Offered),
       !.rights = @ \ spent,
       !.passant = IF piece[2] = "p" /\ m.to[1] - m.from[1] \in {-2, 2}
                   THEN {<<(m.from[1] + m.to[1]) \div 2, m.from[2]>>} ELSE {},
       !.history = Append(@, <<m.from, m.to>>)]

\* getGameResult for the player of a colour, who is to move.
Stuck(g, color) ==
  ~\E s \in Squares : /\ Holds(g.board, s, color)
                      /\ \E m \in getPseudoLegalMoves(g, s) : Legal(g, color, m)
Checkmate(g, color) == Stuck(g, color) /\ isCheck(color, g)
Bare(g) == Cardinality({s \in Squares : g.board[s] # None}) = 2

Color(d, p) == IF p = d.room.players[1] THEN "w" ELSE "b"

----------------------------------------------------------------------------
\* getLegalMoves and applyMove, seen from the board: lines of attack are traced
\* back from the king. Whatever the players promote to, no side is ever without a
\* king: an only king is not attacked when its side has moved, and the side to move
\* can move while the match goes on. With the promotions that the rules name, each side
\* has one king, a right to castle belongs to a king that stands at home, and a
\* finished game that was won on the board ends with its loser's king under attack.
Attacked(g, k, foe) ==
  \/ \E v \in Leaps : Step(k, v, 1) \in Squares /\ g.board[Step(k, v, 1)] = <<foe, "n">>
  \/ \E v \in Slanted : /\ v[1] = (IF foe = "w" THEN 1 ELSE -1)
                        /\ Step(k, v, 1) \in Squares /\ g.board[Step(k, v, 1)] = <<foe, "p">>
  \/ \E v \in Straight \cup Slanted, n \in 1..7 :
       /\ Step(k, v, n) \in Squares
       /\ Empty(g.board, {Step(k, v, i) : i \in 1..n-1})
       /\ \/ g.board[Step(k, v, n)] = <<foe, "q">>
          \/ g.board[Step(k, v, n)] = <<foe, IF v \in Straight THEN "r" ELSE "b">>
          \/ n = 1 /\ g.board[Step(k, v, n)] = <<foe, "k">>
KingsSafe ==
  IsChess(db.game) =>
    LET g == db.game
        turn == Color(db, g.mover)
        rested == Foe[turn]
        stuck == Stuck(g, turn)
    IN /\ \A c \in {"w", "b"} : King(g, c) # {}
       /\ \A k \in King(g, rested) : King(g, rested) = {k} => ~Attacked(g, k, turn)
       /\ InPlay(db) => ~stuck /\ ~Bare(g)
       /\ ~g.irregular =>
            /\ \A c \in {"w", "b"} : Cardinality(King(g, c)) = 1
            /\ \A r \in g.rights : King(g, r[1]) = {<<Home[r[1]], 4>>}
            /\ stuck /\ db.room.status = "finished" =>
                 IF \E k \in King(g, turn) : Attacked(g, k, rested)
                 THEN db.room.winner = Opponent(db, g.mover)
                 ELSE db.room.winner = None
=============================================================================
