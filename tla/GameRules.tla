----------------------------- MODULE GameRules -----------------------------
(* What the moves promise of a match of connect four, naval battle, halma,     *)
(* domino and UNO, read from the room and the document of the game alone: one  *)
(* statement for every board, every fleet, every set of tiles and every deck.  *)
EXTENDS GameRooms

\* connect_four_games; the board has None or the player whose disc it is.
IsConnectFour(g) == DOMAIN g = {"mover", "board"}
WinLength == 4
Directions == {<<0, 1>>, <<1, 0>>, <<1, 1>>, <<1, -1>>}

Line(board, p) ==
  \E c \in DOMAIN board, v \in Directions :
    \A i \in 0..WinLength-1 :
      LET at == <<c[1] + i * v[1], c[2] + i * v[2]>>
      IN at \in DOMAIN board /\ board[at] = p
Discs(board, p) == Cardinality({c \in DOMAIN board : board[c] = p})

\* dropDisc, isBoardFull and checkWinFromCell, seen from the whole board: discs
\* rest on discs, the players alternate, and the game is over for the player
\* whose disc came last as soon as there is a line, or in a draw when the board
\* is full, and not before (a match may also end by a timeout or a departure).
DiscsDecide ==
  IsConnectFour(db.game) =>
    LET board == db.game.board
        first == db.room.players[1]
        second == db.room.players[2]
        ahead == Discs(board, first) - Discs(board, second)
    IN /\ \A c \in DOMAIN board : board[c] = None =>
            \A r \in 1..c[1] : board[<<r, c[2]>>] = None
       /\ ahead \in {0, 1}
       /\ \A p \in {first, second} : Line(board, p) =>
            /\ db.room.status = "finished" /\ db.room.winner = p
            /\ ahead = IF p = first THEN 1 ELSE 0
       /\ (\A c \in DOMAIN board : board[c] # None) => db.room.status = "finished"
       /\ InPlay(db) => (db.game.mover = first) = (ahead = 0)

----------------------------------------------------------------------------
\* battleship-placement.schema.ts: the cells of each ship of who has placed, and his shots.
IsNavalBattle(g) == DOMAIN g = {"mover", "ships", "shots"}

\* place_ships, saveBattleshipPlacement, handleFire and those who leave the lobby:
\* fleets are of players with a seat, they are alike and no two ships meet, no fleet is
\* placed once a shot was fired, and a whole fleet is sunk only in a battle that its
\* attacker has won (a player without a fleet neither fires nor is hit).
FleetsDecide ==
  IsNavalBattle(db.game) =>
    LET ships == db.game.ships
        shots == db.game.shots
        placed == DOMAIN ships
    IN /\ placed \subseteq Seated(db)
       /\ \A p \in placed : /\ \A i, j \in DOMAIN ships[p] : i # j => ships[p][i] \cap ships[p][j] = {}
                            /\ shots[p] # {} => Seated(db) \subseteq placed
       /\ \A p, q \in placed : p # q =>
            /\ DOMAIN ships[p] = DOMAIN ships[q]
            /\ \A i \in DOMAIN ships[p] : Cardinality(ships[p][i]) = Cardinality(ships[q][i])
            /\ (\A s \in ToSet(ships[p]) : s \subseteq shots[q]) =>
                 db.room.status = "finished" /\ db.room.winner = q

----------------------------------------------------------------------------
\* halma_games; the board has 0 or a piece on each dark square: 1 and 2 are men,
\* 3 and 4 kings, of the first and the second player.
IsHalma(g) == DOMAIN g = {"mover", "board", "pending"}
HasPiece(g, n) == \E c \in DOMAIN g.board : g.board[c] \in {n, n + 2}

\* handleMove and handleEndTurn: a piece is lost only when a turn ends, so a
\* match goes on only while both sides have one, and a side that has lost its
\* last piece has lost the match. A jump asks for no owner: a piece may leave the
\* square it was marked on and another one stand there when the turn ends, so
\* both sides may be emptied at once, and then the second player has won.
PiecesDecide ==
  IsHalma(db.game) =>
    /\ InPlay(db) => HasPiece(db.game, 1) /\ HasPiece(db.game, 2)
    /\ ~HasPiece(db.game, 1) => db.room.status = "finished" /\ db.room.winner = db.room.players[2]
    /\ HasPiece(db.game, 1) /\ ~HasPiece(db.game, 2) =>
         db.room.status = "finished" /\ db.room.winner = db.room.players[1]

----------------------------------------------------------------------------
\* domino_games: hands of tiles, the boneyard, the chain on the board and its ends.
IsDomino(g) == DOMAIN g = {"mover", "hands", "boneyard", "board", "ends", "passes", "out"}
TilesUpTo(n) == {t \in (0..n) \X (0..n) : t[1] <= t[2]}
HeldTiles(g) == UNION {g.hands[p] : p \in DOMAIN g.hands}
Halves(S, v) == Cardinality({t \in S : t[1] = v}) + Cardinality({t \in S : t[2] = v})

\* handleMove, handleDraw and eliminatePlayer: the tiles are a whole set and every
\* tile is in one place, those who are out hold none, and the chain closes: every
\* number on it is matched by a neighbour, except at its two ends, so it shows an
\* even number of times if the two ends count as well.
TilesConserved ==
  IsDomino(db.game) =>
    LET g == db.game
        all == HeldTiles(g) \cup g.boneyard \cup g.board
    IN /\ \E t \in all : all = TilesUpTo(t[2])
       /\ g.boneyard \cap (HeldTiles(g) \cup g.board) = {} /\ HeldTiles(g) \cap g.board = {}
       /\ \A p, q \in DOMAIN g.hands : p # q => g.hands[p] \cap g.hands[q] = {}
       /\ \A p \in g.out \cap DOMAIN g.hands : g.hands[p] = {}
       /\ InPlay(db) => g.mover \in Seated(db) \ g.out
       /\ \A v \in {t[2] : t \in all} :
            (Halves(g.board, v) + Cardinality({i \in DOMAIN g.ends : g.ends[i] = v})) % 2 = 0

----------------------------------------------------------------------------
\* uno_games: hands of cards <<color, face, copy>>, the pile to draw from, the card on
\* top of the other pile and those under it, the stack of cards to take, who declared
\* his last card and who may be challenged because he did not.
IsUno(g) == DOMAIN g = {"mover", "hands", "draw", "top", "discard", "color", "dir", "pending", "out", "called",
                        "offender", "ready", "between", "dealing", "scores", "round", "history"}
Draw2 == 12
WildDraw4 == 14
Pile(g) == g.draw \cup g.discard \cup {g.top}
Cards(g) == Pile(g) \cup UNION {g.hands[p] : p \in DOMAIN g.hands}

\* What holds of the cards and of what was declared between two steps.
CardsPlaced ==
  IsUno(db.game) =>
    LET g == db.game
        OneCard(p) == p \in g.out \/ Cardinality(g.hands[p]) = 1
    IN /\ g.draw \cap g.discard = {} /\ g.top \notin g.draw \cup g.discard
       /\ \A p \in DOMAIN g.hands : g.hands[p] \cap Pile(g) = {}
       /\ \A p, q \in DOMAIN g.hands : p # q => g.hands[p] \cap g.hands[q] = {}
       /\ g.pending > 0 => g.top[2] \in {Draw2, WildDraw4}
       /\ InPlay(db) => g.mover \in Seated(db) \ g.out
       /\ InPlay(db) /\ ~g.between =>
            /\ \A p \in g.called : OneCard(p)
            /\ g.offender # None => OneCard(g.offender) /\ g.offender \notin g.called

\* applyPlay, drawNCards, eliminatePlayer and startNextRound: every card is in one place,
\* and no move, penalty or reshuffle, no player who goes and no new deal loses a card of
\* the match or adds one; a declared UNO is one card, a player who can be challenged has
\* one card and has not declared, unless he is out; a stack stands only on a card that
\* draws, and the player to move is in the round.
CardsConserved == []CardsPlaced /\ [][IsUno(db.game) => Cards(db'.game) = Cards(db.game)]_vars
=============================================================================
