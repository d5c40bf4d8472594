---------------------------- MODULE ChessProofs ----------------------------
(* The stakes and the countdowns of a room of chess, and the rules its moves   *)
(* keep, for any stake, fee, opening and players.                              *)
EXTENDS Chess, GameRoomsProofs

(* handleMove: the move ends the game, or passes the turn. *)
LEMMA handleMoveKept ==
  ASSUME Good(db, sweep), InPlay(db), NEW p \in Players, NEW m, NEW promotion, handleMove(p, m, promotion)
  PROVE  Kept
<1>1. OpenBooks(db) /\ Shape(db)
  BY InPlayGood DEF InPlay
<1> DEFINE g == applyMove(db.game, m, promotion)
           moved == [db EXCEPT !.game = g]
           after == PassTurn(moved, Opponent(db, p))
<1>2. PICK e : Commit(e) /\ (e = after \/ \E w : e = Finish(after, w))
  BY DEF handleMove
<1> HIDE DEF g
<1>3. Turned(db, moved)
  BY <1>1 DEF Turned, Shape
<1> HIDE DEF moved
<1>4. Turned(db, after)
  BY <1>1, <1>3, TurnedSteps
<1> HIDE DEF after
<1>5. Plays(db, e)
  BY <1>1, <1>2, <1>4, TurnedPlays
<1> QED
  BY <1>2, <1>5, MoveKept

(* Every step keeps the books, the countdowns and the promise about the stakes. *)
LEMMA NextKept ==
  ASSUME Good(db, sweep), [Next]_vars
  PROVE  Kept
<1>1. CASE UNCHANGED vars
  BY <1>1, UnchangedKept
<1>2. CASE RoomStep
  BY <1>2, RoomStepKept
<1>3. CASE \E p \in Players : markReady(p)
  BY <1>3, markReadyKept
<1>4. CASE \E p \in Players : handleJoin(p)
  BY <1>4, JoinKept DEF handleJoin
<1>5. CASE tryStartChessGame
  BY <1>5, tryStartKept DEF tryStartChessGame
<1>6. CASE \E p \in Players : handleDisconnect(p)
  BY <1>6, AbsenceKept DEF handleDisconnect
<1>7. CASE \E p \in Players : LeaveRoom(p)
  BY <1>7, LeavingKept, ResignPlays DEF LeaveRoom
<1>8. CASE executeForfeit
  BY <1>8, HandlerKept, ResignPlays DEF executeForfeit, Sweepers
<1>9. CASE executeTurnTimeout
  BY <1>9, HandlerKept, ResignPlays DEF executeTurnTimeout, Timeout, Sweepers
<1>10. CASE \E p \in Players, promotion \in Promotions :
             /\ InPlay(db) /\ p \in Seated(db) \cap online /\ db.game.mover = p
             /\ \E s \in Squares :
                  /\ Holds(db.game.board, s, Color(db, p))
                  /\ \E m \in getLegalMoves(db.game, s, Color(db, p)) :
                       /\ FirstFound(m, getLegalMoves(db.game, s, Color(db, p)))
                       /\ handleMove(p, m, promotion)
  BY <1>10, handleMoveKept
<1> QED
  BY <1>1, <1>2, <1>3, <1>4, <1>5, <1>6, <1>7, <1>8, <1>9, <1>10 DEF Next

(* Every reachable state of a room of chess has its books in order. *)
THEOREM ChessGood == Spec => []Good(db, sweep)
<1>1. Init => Good(db, sweep)
  BY InitGood
<1>2. Good(db, sweep) /\ [Next]_vars => Good(db, sweep)'
  BY NextKept DEF Kept
<1> QED
  BY <1>1, <1>2, PTL DEF Spec

(* settleGameRoom and everything before it: in every state of every room of chess, *)
(* the escrow has the stakes that came in and did not go back, until the winner of *)
(* the match takes them.                                                           *)
THEOREM ChessStakesBalance == Spec => []StakesBalance
<1>1. Good(db, sweep) => StakesBalance
  BY GoodBalance
<1> QED
  BY <1>1, ChessGood, PTL

(* grace-period.service.ts sweep: the sweeper that finishes with an earlier absence *)
(* leaves the countdown of a player who is away again alone.                        *)
THEOREM ChessRefreshedRowSurvives == Spec => RefreshedRowSurvives
<1>1. Good(db, sweep) /\ [Next]_vars => [GraceStep]_vars
  BY NextKept DEF Kept
<1>2. Spec => [][GraceStep]_vars
  BY <1>1, ChessGood, PTL DEF Spec
<1> QED
  BY <1>2 DEF RefreshedRowSurvives, GraceStep

(* Every step of a room of chess is a step of RoomContract: the stakes come in *)
(* before the match, lie untouched until everyone has seen the board and while    *)
(* the match is played, and go out once, to a player who staked or back to all.   *)
THEOREM ChessImplementsContract == Spec => Contract!Spec
<1>1. Init => Contract!Init
  BY InitContract
<1>2. Good(db, sweep) /\ [Next]_vars => [Contract!Next]_(Contract!contractVars)
  BY NextKept, PromiseContract DEF Kept
<1> QED
  BY <1>1, <1>2, ChessGood, PTL DEF Spec, Contract!Spec

----------------------------------------------------------------------------
(* The squares around the opponent's piece on k, and what it takes to see it from s. *)
Rays == Straight \cup Slanted
Back(v) == <<-v[1], -v[2]>>
Between(s, v, n) == {Step(s, v, i) : i \in 1..n-1}
Strides(type) == 1..(IF type \in {"k", "n"} THEN 1 ELSE 7)
Sees(b, s, k) == \E v \in Ways(b[s][2]), n \in Strides(b[s][2]) : k = Step(s, v, n) /\ Empty(b, Between(s, v, n))
Ahead(color) == IF color = "w" THEN -1 ELSE 1
Strikes(b, k, foe) == Attacked([board |-> b], k, foe)

(* A way back leads from one end to the other, over the same squares. *)
LEMMA WayBack ==
  ASSUME NEW v \in Rays \cup Leaps
  PROVE  /\ v \in Straight => Back(v) \in Straight
         /\ v \in Slanted => Back(v) \in Slanted
         /\ v \in Leaps => Back(v) \in Leaps
         /\ v[1] \in -2..2 /\ v[2] \in -2..2 /\ v = <<v[1], v[2]>>
         /\ v \in Rays => v[1] \in -1..1 /\ v[2] \in -1..1
BY DEF Rays, Straight, Slanted, Leaps, Back

(* It has as many steps. *)
LEMMA StepBack ==
  ASSUME NEW s \in Squares, NEW k \in Squares, NEW v \in Rays \cup Leaps, NEW n \in Nat, k = Step(s, v, n)
  PROVE  /\ s = Step(k, Back(v), n)
         /\ \A i \in Nat : Step(k, Back(v), i) = Step(s, v, n - i)
         /\ Between(k, Back(v), n) = Between(s, v, n)
<1>1. v[1] \in Int /\ v[2] \in Int /\ s \in Int \X Int /\ k \in Int \X Int
  BY WayBack DEF Squares
<1> DEFINE x == v[1]
           y == v[2]
<1>2. k = <<s[1] + n * x, s[2] + n * y>>
  BY DEF Step
<1> HIDE DEF x, y
<1>3. ASSUME NEW i \in Nat
      PROVE  Step(k, Back(v), i) = Step(s, v, n - i)
  <2>1. Step(k, Back(v), i) = <<k[1] + i * (-x), k[2] + i * (-y)>>
    BY DEF Step, Back, x, y
  <2>2. Step(s, v, n - i) = <<s[1] + (n - i) * x, s[2] + (n - i) * y>>
    BY DEF Step, x, y
  <2>3. x \in Int /\ y \in Int
    BY <1>1 DEF x, y
  <2>4. k[1] = s[1] + n * x /\ k[2] = s[2] + n * y
    BY <1>2
  <2>5. k[1] + i * (-x) = s[1] + (n - i) * x
    BY <1>1, <2>3, <2>4
  <2>6. k[2] + i * (-y) = s[2] + (n - i) * y
    BY <1>1, <2>3, <2>4
  <2> QED
    BY <2>1, <2>2, <2>5, <2>6
<1>4. Step(s, v, 0) = s
  BY <1>1 DEF Step
<1>5. s = Step(k, Back(v), n)
  BY <1>3, <1>4
<1>6. Between(k, Back(v), n) = Between(s, v, n)
  <2>1. \A i \in 1..n-1 : n - i \in 1..n-1 /\ n - (n - i) = i
    OBVIOUS
  <2>2. \A i \in 1..n-1 : Step(k, Back(v), i) = Step(s, v, n - i)
    BY <1>3
  <2>3. \A i \in 1..n-1 : Step(k, Back(v), n - i) = Step(s, v, i)
    BY <2>1, <2>2
  <2> QED
    BY <2>1, <2>2, <2>3 DEF Between
<1> QED
  BY <1>3, <1>5, <1>6

(* A board of pieces and empty squares. *)
Men == {"w", "b"} \X (Types \cup Promotions)
Sound(b) == DOMAIN b = Squares /\ \A s \in Squares : b[s] \in Men \cup {None}
(* The piece on s may take what stands on k. *)
Hits(b, s, k) == IF b[s][2] = "p" THEN k[1] = s[1] + Ahead(b[s][1]) /\ k[2] - s[2] \in {-1, 1} ELSE Sees(b, s, k)

(* The piece of a colour that a square holds. *)
LEMMA HeldPiece ==
  ASSUME ChessAssumption, NEW b, Sound(b), NEW s, NEW c, Holds(b, s, c)
  PROVE  /\ s \in Squares /\ b[s] \in Men /\ b[s] # None /\ b[s] = <<c, b[s][2]>> /\ b[s][1] = c
         /\ c \in {"w", "b"}
BY DEF ChessAssumption, Sound, Holds, Men

(* An empty square is none of the pieces that a game begins with. *)
LEMMA NoPiece ==
  ASSUME ChessAssumption
  PROVE  \A c \in {"w", "b"}, t \in Types : <<c, t>> # None /\ <<c, t>> \in Men
BY DEF ChessAssumption, Men

(* Attacked, of a board. *)
LEMMA StrikesFrom ==
  ASSUME NEW b, NEW k, NEW f
  PROVE  Strikes(b, k, f) <=>
           \/ \E v \in Leaps : Step(k, v, 1) \in Squares /\ b[Step(k, v, 1)] = <<f, "n">>
           \/ \E v \in Slanted : /\ v[1] = (IF f = "w" THEN 1 ELSE -1)
                                 /\ Step(k, v, 1) \in Squares /\ b[Step(k, v, 1)] = <<f, "p">>
           \/ \E v \in Rays, n \in 1..7 :
                /\ Step(k, v, n) \in Squares
                /\ Empty(b, Between(k, v, n))
                /\ \/ b[Step(k, v, n)] = <<f, "q">>
                   \/ b[Step(k, v, n)] = <<f, IF v \in Straight THEN "r" ELSE "b">>
                   \/ n = 1 /\ b[Step(k, v, n)] = <<f, "k">>
BY DEF Strikes, Attacked, Rays, Between

(* What hits a square is found by looking back from it. *)
LEMMA HitsStrikes ==
  ASSUME ChessAssumption, NEW b, Sound(b), NEW k \in Squares, NEW f, NEW s, Holds(b, s, f), Hits(b, s, k)
  PROVE  Strikes(b, k, f)
<1> DEFINE type == b[s][2]
<1>1. s \in Squares /\ b[s] = <<f, type>> /\ f \in {"w", "b"} /\ b[s][1] = f
  BY HeldPiece
<1>2. CASE type = "p"
  <2> DEFINE v == <<s[1] - k[1], s[2] - k[2]>>
  <2>1. k[1] = s[1] + Ahead(f) /\ k[2] - s[2] \in {-1, 1}
    BY <1>1, <1>2 DEF Hits
  <2>2. s \in (0..7) \X (0..7) /\ k \in (0..7) \X (0..7)
    BY <1>1 DEF Squares
  <2>3. v \in Slanted /\ v[1] = (IF f = "w" THEN 1 ELSE -1)
    BY <1>1, <2>1, <2>2 DEF Slanted, Ahead
  <2>4. Step(k, v, 1) = s
    BY <2>2 DEF Step
  <2> HIDE DEF v
  <2> QED
    BY <1>1, <1>2, <2>3, <2>4, StrikesFrom
<1>3. CASE type # "p"
  <2>1. PICK v \in Ways(type), n \in Strides(type) : k = Step(s, v, n) /\ Empty(b, Between(s, v, n))
    BY <1>3 DEF Hits, Sees
  <2>0. type \in {"r", "n", "b", "q", "k"}
    BY <2>1 DEF Ways
  <2>2. v \in Rays \cup Leaps /\ n \in 1..7 /\ n \in Nat
    BY <2>0, <2>1 DEF Ways, Rays, Strides
  <2>3. Step(k, Back(v), n) = s /\ Between(k, Back(v), n) = Between(s, v, n)
    BY <1>1, <2>1, <2>2, StepBack
  <2>4. Empty(b, Between(k, Back(v), n))
    BY <2>1, <2>3
  <2>5. CASE type = "n"
    <3>1. v \in Leaps /\ n = 1
      BY <2>1, <2>5 DEF Ways, Strides
    <3>2. Back(v) \in Leaps
      BY <3>1, WayBack
    <3> QED
      BY <1>1, <2>3, <2>5, <3>1, <3>2, StrikesFrom
  <2>6. CASE type \in {"q", "k", "r", "b"}
    <3>1. v \in Straight \cup Slanted
      BY <2>1, <2>6 DEF Ways
    <3>2. Back(v) \in Rays /\ (v \in Straight => Back(v) \in Straight) /\ (v \in Slanted => Back(v) \in Slanted)
      BY <3>1, WayBack DEF Rays
    <3>3. Slanted \cap Straight = {}
      BY DEF Slanted, Straight
    <3>4. \/ type = "q"
          \/ type = IF Back(v) \in Straight THEN "r" ELSE "b"
          \/ type = "k" /\ n = 1
      BY <2>1, <2>6, <3>2, <3>3 DEF Ways, Strides
    <3> QED
      BY <1>1, <2>2, <2>3, <2>4, <3>2, <3>4, StrikesFrom
  <2> QED
    BY <2>0, <2>5, <2>6
<1> QED
  BY <1>2, <1>3

(* What looking back finds can hit the square. *)
LEMMA StrikesHits ==
  ASSUME ChessAssumption, NEW b, Sound(b), NEW k \in Squares, NEW f \in {"w", "b"}, Strikes(b, k, f)
  PROVE  \E s \in Squares : Holds(b, s, f) /\ Hits(b, s, k)
<1>1. ASSUME NEW s \in Squares, NEW t, b[s] = <<f, t>>, t \in {"p", "r", "n", "b", "q", "k"}
      PROVE  Holds(b, s, f) /\ b[s][2] = t /\ b[s][1] = f
  BY <1>1, NoPiece DEF Holds, Types
<1>2. ASSUME NEW v \in Leaps, Step(k, v, 1) \in Squares, b[Step(k, v, 1)] = <<f, "n">>
      PROVE  \E s \in Squares : Holds(b, s, f) /\ Hits(b, s, k)
  <2> DEFINE s == Step(k, v, 1)
  <2>1. s \in Squares /\ Holds(b, s, f) /\ b[s][2] = "n"
    BY <1>1, <1>2
  <2>2. s = Step(k, v, 1)
    OBVIOUS
  <2> HIDE DEF s
  <2>3. k = Step(s, Back(v), 1) /\ Back(v) \in Leaps
    BY <2>1, <2>2, StepBack, WayBack
  <2>4. Empty(b, Between(s, Back(v), 1))
    BY DEF Empty, Between
  <2>5. Back(v) \in Ways("n") /\ 1 \in Strides("n")
    BY <2>3 DEF Ways, Strides
  <2>6. Sees(b, s, k)
    BY <2>1, <2>3, <2>4, <2>5 DEF Sees
  <2> QED
    BY <2>1, <2>6 DEF Hits
<1>3. ASSUME NEW v \in Slanted, v[1] = (IF f = "w" THEN 1 ELSE -1), Step(k, v, 1) \in Squares,
             b[Step(k, v, 1)] = <<f, "p">>
      PROVE  \E s \in Squares : Holds(b, s, f) /\ Hits(b, s, k)
  <2> DEFINE s == Step(k, v, 1)
  <2>1. s \in Squares /\ Holds(b, s, f) /\ b[s][2] = "p" /\ b[s][1] = f
    BY <1>1, <1>3
  <2>2. k \in (0..7) \X (0..7) /\ v[1] \in {1, -1} /\ v[2] \in {1, -1}
    BY DEF Squares, Slanted
  <2>3. s = <<k[1] + v[1], k[2] + v[2]>>
    BY <2>2 DEF Step
  <2> HIDE DEF s
  <2>4. k[1] = s[1] + Ahead(f) /\ k[2] - s[2] \in {-1, 1}
    BY <1>3, <2>2, <2>3 DEF Ahead
  <2> QED
    BY <2>1, <2>4 DEF Hits
<1>4. ASSUME NEW v \in Rays, NEW n \in 1..7, Step(k, v, n) \in Squares, Empty(b, Between(k, v, n)),
             \/ b[Step(k, v, n)] = <<f, "q">>
             \/ b[Step(k, v, n)] = <<f, IF v \in Straight THEN "r" ELSE "b">>
             \/ n = 1 /\ b[Step(k, v, n)] = <<f, "k">>
      PROVE  \E s \in Squares : Holds(b, s, f) /\ Hits(b, s, k)
  <2> DEFINE s == Step(k, v, n)
  <2>1. PICK t : /\ b[s] = <<f, t>>
                 /\ t = "q" \/ (t = IF v \in Straight THEN "r" ELSE "b") \/ (n = 1 /\ t = "k")
    BY <1>4
  <2>2. s \in Squares /\ Holds(b, s, f) /\ b[s][2] = t
    BY <1>1, <1>4, <2>1
  <2>3. s = Step(k, v, n)
    OBVIOUS
  <2> HIDE DEF s
  <2>4. k = Step(s, Back(v), n) /\ Between(s, Back(v), n) = Between(k, v, n)
    BY <2>2, <2>3, StepBack
  <2>5. Back(v) \in Ways(t) /\ n \in Strides(t)
    <3>1. (v \in Straight => Back(v) \in Straight) /\ (v \in Slanted => Back(v) \in Slanted)
      BY WayBack
    <3> QED
      BY <2>1, <3>1 DEF Ways, Strides, Rays
  <2>6. Sees(b, s, k)
    BY <1>4, <2>2, <2>4, <2>5 DEF Sees
  <2> QED
    BY <2>1, <2>2, <2>6 DEF Hits
<1> QED
  BY <1>2, <1>3, <1>4, StrikesFrom

(* Colours. *)
LEMMA Colors ==
  /\ Foe["w"] = "b" /\ Foe["b"] = "w" /\ Home["w"] = 7 /\ Home["b"] = 0
  /\ \A c \in {"w", "b"} : Foe[c] \in {"w", "b"} /\ Foe[c] # c /\ Foe[Foe[c]] = c /\ Home[c] \in 0..7
BY DEF Foe, Home

(* The squares in front of a pawn. *)
PawnSides(s, c) == {<<s[1] + Ahead(c), s[2] + 1>>, <<s[1] + Ahead(c), s[2] - 1>>} \cap Squares
PawnWalk(b, s, c, t) ==
  /\ b[t] = None /\ b[<<s[1] + Ahead(c), s[2]>>] = None
  /\ \/ t = <<s[1] + Ahead(c), s[2]>> /\ t \in Squares
     \/ t = <<s[1] + 2 * Ahead(c), s[2]>> /\ s[1] = Home[c] + Ahead(c)
(* getPseudoLegalMoves, case by case: pawns, castling, and the pieces that move as they take. *)
Walks(g, s, c, m) ==
  \E t : /\ m = Move(s, t, "plain") /\ g.board[s][2] = "p"
         /\ PawnWalk(g.board, s, c, t) \/ (t \in PawnSides(s, c) /\ Holds(g.board, t, Foe[c]))
Passes(g, s, c, m) ==
  \E t : m = Move(s, t, "passant") /\ g.board[s][2] = "p" /\ t \in PawnSides(s, c) /\ t \in g.passant
Castling(g, s, c, m) ==
  \E x \in {"K", "Q"} :
    /\ m = Move(s, <<Home[c], IF x = "K" THEN 6 ELSE 2>>, x) /\ g.board[s][2] = "k" /\ <<c, x>> \in g.rights
    /\ Empty(g.board, {Home[c]} \X (IF x = "K" THEN 5..6 ELSE 1..3))
    /\ g.board[<<Home[c], IF x = "K" THEN 7 ELSE 0>>] = <<c, "r">>
Slides(g, s, c, m) ==
  \E t : /\ m = Move(s, t, "plain") /\ g.board[s][2] # "p"
         /\ t \in Squares /\ ~Holds(g.board, t, c) /\ Sees(g.board, s, t)

(* The moves of a pawn: it walks, takes, or takes in passing. *)
LEMMA PawnMovesAre ==
  ASSUME NEW g, NEW s \in Squares, NEW c \in {"w", "b"}, g.board[s] = <<c, "p">>, NEW m
  PROVE  m \in PawnMoves(g, s) <=> Walks(g, s, c, m) \/ Passes(g, s, c, m)
<1> DEFINE ahead == IF c = "w" THEN <<-1, 0>> ELSE <<1, 0>>
           one == Step(s, ahead, 1)
           two == Step(s, ahead, 2)
           sides == {<<one[1], one[2] + 1>>, <<one[1], one[2] - 1>>} \cap Squares
           walks == IF one \in Squares /\ g.board[one] = None
                    THEN {one} \cup (IF s[1] = Home[c] + ahead[1] /\ g.board[two] = None THEN {two} ELSE {})
                    ELSE {}
<1>1. PawnMoves(g, s) = {Move(s, t, "plain") : t \in walks \cup {t \in sides : Holds(g.board, t, Foe[c])}}
                          \cup {Move(s, t, "passant") : t \in sides \cap g.passant}
  BY DEF PawnMoves
<1>2. s \in (0..7) \X (0..7)
  BY DEF Squares
<1>3. /\ ahead[1] = Ahead(c) /\ one = <<s[1] + Ahead(c), s[2]>> /\ two = <<s[1] + 2 * Ahead(c), s[2]>>
  BY <1>2 DEF Ahead, Step
<1>4. sides = PawnSides(s, c)
  BY <1>3 DEF PawnSides
<1>5. \A t : t \in walks <=> PawnWalk(g.board, s, c, t)
  <2>1. s[1] = Home[c] + Ahead(c) => one \in Squares
    BY <1>2, <1>3, Colors DEF Ahead, Squares
  <2> HIDE DEF one, two, ahead
  <2> QED
    BY <1>3, <2>1 DEF PawnWalk
<1> HIDE DEF walks, sides, one, two, ahead
<1>6. m \in PawnMoves(g, s) <=>
        \/ \E t \in walks \cup {t \in sides : Holds(g.board, t, Foe[c])} : m = Move(s, t, "plain")
        \/ \E t \in sides \cap g.passant : m = Move(s, t, "passant")
  BY <1>1
<1>7. (\E t \in walks \cup {t \in sides : Holds(g.board, t, Foe[c])} : m = Move(s, t, "plain")) <=> Walks(g, s, c, m)
  <2>1. \A t : t \in walks \cup {x \in sides : Holds(g.board, x, Foe[c])} <=>
                 PawnWalk(g.board, s, c, t) \/ (t \in PawnSides(s, c) /\ Holds(g.board, t, Foe[c]))
    BY <1>4, <1>5
  <2>2. g.board[s][2] = "p"
    OBVIOUS
  <2> DEFINE taken == walks \cup {t \in sides : Holds(g.board, t, Foe[c])}
  <2> HIDE DEF taken
  <2>3. (\E t \in taken : m = Move(s, t, "plain")) <=> Walks(g, s, c, m)
    BY <2>1, <2>2 DEF Walks, taken
  <2> QED
    BY <2>3 DEF taken
<1>8. (\E t \in sides \cap g.passant : m = Move(s, t, "passant")) <=> Passes(g, s, c, m)
  BY <1>4 DEF Passes
<1> QED
  BY <1>6, <1>7, <1>8

(* The moves of any piece. *)
LEMMA MovesAre ==
  ASSUME ChessAssumption, NEW g, Sound(g.board), NEW s, NEW c, Holds(g.board, s, c), NEW m
  PROVE  m \in getPseudoLegalMoves(g, s) <=>
           Walks(g, s, c, m) \/ Passes(g, s, c, m) \/ Slides(g, s, c, m) \/ Castling(g, s, c, m)
<1> DEFINE b == g.board
           type == b[s][2]
<1>1. s \in Squares /\ c \in {"w", "b"} /\ b[s] = <<c, type>> /\ b[s][1] = c
  BY HeldPiece
<1>2. CASE type = "p"
  <2>1. m \in getPseudoLegalMoves(g, s) <=> m \in PawnMoves(g, s)
    BY <1>2 DEF getPseudoLegalMoves
  <2>2. ~Slides(g, s, c, m) /\ ~Castling(g, s, c, m)
    BY <1>2 DEF Slides, Castling
  <2> QED
    BY <1>1, <1>2, <2>1, <2>2, PawnMovesAre
<1>3. CASE type # "p"
  <2>1. m \in getPseudoLegalMoves(g, s) <=>
          \/ \E t \in Reach(b, s) : m = Move(s, t, "plain")
          \/ type = "k" /\ m \in CastleMoves(g, s)
    BY <1>3 DEF getPseudoLegalMoves
  <2>2. \A t : t \in Reach(b, s) <=> t \in Squares /\ ~Holds(b, t, c) /\ Sees(b, s, t)
    <3> SUFFICES ASSUME NEW t
                 PROVE  t \in Reach(b, s) <=> t \in Squares /\ ~Holds(b, t, c) /\ Sees(b, s, t)
      OBVIOUS
    <3>1. t \in Reach(b, s) <=>
            \E v \in Ways(type), j \in Strides(type) :
              /\ t = Step(s, v, j) /\ Step(s, v, j) \in Squares
              /\ Empty(b, Between(s, v, j)) /\ ~Holds(b, Step(s, v, j), c)
      <4> DEFINE ends(v) == {Step(s, v, i) : i \in
                               {j \in Strides(type) : /\ Step(s, v, j) \in Squares
                                                      /\ Empty(b, Between(s, v, j))
                                                      /\ ~Holds(b, Step(s, v, j), c)}}
      <4>1. Reach(b, s) = UNION {ends(v) : v \in Ways(type)}
        BY <1>1 DEF Reach, Strides, Between
      <4>2. \A v : t \in ends(v) <=> \E j \in Strides(type) :
                      /\ t = Step(s, v, j) /\ Step(s, v, j) \in Squares
                      /\ Empty(b, Between(s, v, j)) /\ ~Holds(b, Step(s, v, j), c)
        OBVIOUS
      <4> HIDE DEF ends
      <4>3. t \in Reach(b, s) <=> \E v \in Ways(type) : t \in ends(v)
        BY <4>1
      <4> QED
        BY <4>2, <4>3
    <3> QED
      BY <3>1 DEF Sees
  <2>3. type = "k" /\ m \in CastleMoves(g, s) <=> Castling(g, s, c, m)
    BY <1>1 DEF CastleMoves, Castling
  <2>4. ~Walks(g, s, c, m) /\ ~Passes(g, s, c, m)
    BY <1>3 DEF Walks, Passes
  <2>5. (\E t \in Reach(b, s) : m = Move(s, t, "plain")) <=> Slides(g, s, c, m)
    BY <1>3, <2>2 DEF Slides
  <2> QED
    BY <2>1, <2>3, <2>4, <2>5
<1> QED
  BY <1>2, <1>3

(* A king can be taken by what hits its square. *)
LEMMA TakesKing ==
  ASSUME ChessAssumption, NEW g, Sound(g.board), NEW c \in {"w", "b"}, NEW s, Holds(g.board, s, Foe[c]),
         NEW k \in Squares, g.board[k] = <<c, "k">>
  PROVE  (\E m \in getPseudoLegalMoves(g, s) : m.to = k) <=> Hits(g.board, s, k)
<1> DEFINE b == g.board
           f == Foe[c]
<1>1. /\ s \in Squares /\ b[s][1] = f /\ f \in {"w", "b"} /\ Foe[f] = c /\ f # c /\ Home[f] \in 0..7
  BY HeldPiece, Colors
<1>2. b[k] # None /\ Holds(b, k, c) /\ ~Holds(b, k, f)
  BY <1>1, NoPiece DEF Holds, Types
<1>3. s \in (0..7) \X (0..7) /\ k \in (0..7) \X (0..7) /\ Ahead(f) \in {1, -1}
  BY <1>1 DEF Squares, Ahead
<1> HIDE DEF f
<1>4. k \in PawnSides(s, f) <=> k[1] = s[1] + Ahead(f) /\ k[2] - s[2] \in {-1, 1}
  <2>1. k = <<k[1], k[2]>> /\ k[1] \in Int /\ k[2] \in Int /\ s[1] \in Int /\ s[2] \in Int
    BY <1>3
  <2> QED
    BY <1>3, <2>1 DEF PawnSides
<1>5. ASSUME NEW m \in getPseudoLegalMoves(g, s), m.to = k
      PROVE  Hits(b, s, k)
  <2>1. CASE Walks(g, s, f, m)
    <3>1. PICK t : /\ m = Move(s, t, "plain") /\ b[s][2] = "p"
                   /\ PawnWalk(b, s, f, t) \/ (t \in PawnSides(s, f) /\ Holds(b, t, Foe[f]))
      BY <2>1 DEF Walks
    <3>2. t = k
      BY <1>5, <3>1 DEF Move
    <3> QED
      BY <1>1, <1>2, <1>4, <3>1, <3>2 DEF PawnWalk, Hits
  <2>2. CASE Passes(g, s, f, m)
    <3>1. PICK t : m = Move(s, t, "passant") /\ b[s][2] = "p" /\ t \in PawnSides(s, f)
      BY <2>2 DEF Passes
    <3>2. t = k
      BY <1>5, <3>1 DEF Move
    <3> QED
      BY <1>1, <1>4, <3>1, <3>2 DEF Hits
  <2>3. CASE Slides(g, s, f, m)
    <3>1. PICK t : m = Move(s, t, "plain") /\ b[s][2] # "p" /\ Sees(b, s, t)
      BY <2>3 DEF Slides
    <3>2. t = k
      BY <1>5, <3>1 DEF Move
    <3> QED
      BY <3>1, <3>2 DEF Hits
  <2>4. CASE Castling(g, s, f, m)
    <3>1. PICK x \in {"K", "Q"} : /\ m = Move(s, <<Home[f], IF x = "K" THEN 6 ELSE 2>>, x)
                                  /\ Empty(b, {Home[f]} \X (IF x = "K" THEN 5..6 ELSE 1..3))
      BY <2>4 DEF Castling
    <3>2. k = <<Home[f], IF x = "K" THEN 6 ELSE 2>>
      BY <1>5, <3>1 DEF Move
    <3>3. k \in {Home[f]} \X (IF x = "K" THEN 5..6 ELSE 1..3)
      BY <3>2
    <3> QED
      BY <1>2, <3>1, <3>3 DEF Empty
  <2> QED
    BY <1>1, <2>1, <2>2, <2>3, <2>4, MovesAre DEF f
<1>6. ASSUME Hits(b, s, k)
      PROVE  \E m \in getPseudoLegalMoves(g, s) : m.to = k
  <2> DEFINE m == Move(s, k, "plain")
  <2>1. Walks(g, s, f, m) \/ Slides(g, s, f, m)
    <3>1. CASE b[s][2] = "p"
      <4>1. k \in PawnSides(s, f) /\ Holds(b, k, Foe[f])
        BY <1>1, <1>2, <1>4, <1>6, <3>1 DEF Hits
      <4> QED
        BY <3>1, <4>1 DEF Walks
    <3>2. CASE b[s][2] # "p"
      BY <1>2, <1>6, <3>2 DEF Hits, Slides
    <3> QED
      BY <3>1, <3>2
  <2>2. m.to = k
    BY DEF Move
  <2> HIDE DEF m
  <2>3. m \in getPseudoLegalMoves(g, s)
    BY <1>1, <2>1, MovesAre DEF f
  <2> QED
    BY <2>2, <2>3
<1> QED
  BY <1>5, <1>6

Kings(b, c) == {s \in Squares : b[s] = <<c, "k">>}
Lone(b, c) == \E k \in Squares : Kings(b, c) = {k}

(* isCheck, of an only king, depends on the board alone, and is what is seen from the king. *)
LEMMA CheckStrikes ==
  ASSUME ChessAssumption, NEW g, Sound(g.board), NEW c \in {"w", "b"}, Lone(g.board, c)
  PROVE  isCheck(c, g) <=> \E k \in Squares : g.board[k] = <<c, "k">> /\ Strikes(g.board, k, Foe[c])
<1>1. ASSUME NEW k \in Squares, g.board[k] = <<c, "k">>
      PROVE  (\E s \in Squares : /\ Holds(g.board, s, Foe[c])
                                 /\ \E m \in getPseudoLegalMoves(g, s) : m.to = k)
               <=> Strikes(g.board, k, Foe[c])
  <2>1. \A s : Holds(g.board, s, Foe[c]) =>
          ((\E m \in getPseudoLegalMoves(g, s) : m.to = k) <=> Hits(g.board, s, k))
    BY <1>1, TakesKing
  <2>2. Strikes(g.board, k, Foe[c]) => \E s \in Squares : Holds(g.board, s, Foe[c]) /\ Hits(g.board, s, k)
    BY StrikesHits, Colors
  <2>3. \A s \in Squares : Holds(g.board, s, Foe[c]) /\ Hits(g.board, s, k) => Strikes(g.board, k, Foe[c])
    BY HitsStrikes
  <2> QED
    BY <2>1, <2>2, <2>3
<1>2. PICK k \in Squares : King(g, c) = {k}
  BY DEF Lone, King, Kings
<1>3. g.board[k] = <<c, "k">> /\ \A x \in Squares : g.board[x] = <<c, "k">> => x = k
  BY <1>2 DEF King
<1>4. ~Earlier(k, k)
  BY DEF Squares, Earlier
<1> QED
  BY <1>1, <1>2, <1>3, <1>4 DEF isCheck

----------------------------------------------------------------------------
(* A position with c to move. *)
Safe(b, c) == \A k \in Kings(b, c) : ~Strikes(b, k, Foe[c])
Castles(b, rights) == \A r \in rights : Kings(b, r[1]) = {<<Home[r[1]], 4>>}
Passed(b, passant, c) ==
  \A t \in passant : /\ t \in Squares /\ b[t] = None
                     /\ b[<<t[1] - Ahead(c), t[2]>>] = <<Foe[c], "p">>
Position(g, c) ==
  /\ IsChess(g) /\ c \in {"w", "b"} /\ Sound(g.board)
  /\ \A x \in {"w", "b"} : Kings(g.board, x) # {}
  /\ Lone(g.board, Foe[c]) => Safe(g.board, Foe[c])
  /\ g.rights \subseteq Rights /\ Passed(g.board, g.passant, c)
  /\ ~g.irregular => (\A x \in {"w", "b"} : Lone(g.board, x)) /\ Castles(g.board, g.rights)

(* What a move does to the board, before rooks and promotions: from and to change, and a pawn may go. *)
Shifted(b, e, s, t) ==
  /\ Sound(e) /\ e[s] = None /\ e[t] = b[s]
  /\ \A x \in Squares \ {s, t} : e[x] = b[x] \/ (e[x] = None /\ b[x][2] = "p")

(* Whose turn it is can take a piece, but not an only king, and never his own. *)
LEMMA Target ==
  ASSUME ChessAssumption, NEW g, NEW c, Position(g, c), NEW s, Holds(g.board, s, c),
         NEW m \in getPseudoLegalMoves(g, s)
  PROVE  /\ m.from = s /\ m.to \in Squares /\ ~Holds(g.board, m.to, c) /\ m.to # s
         /\ Lone(g.board, Foe[c]) => g.board[m.to] # <<Foe[c], "k">>
<1> DEFINE b == g.board
<1>1. /\ s \in Squares /\ b[s] = <<c, b[s][2]>> /\ c \in {"w", "b"} /\ Foe[c] # c /\ Sound(b)
      /\ Home[c] \in 0..7 /\ Foe[c] \in {"w", "b"}
  BY HeldPiece, Colors DEF Position
<1>2. Walks(g, s, c, m) \/ Passes(g, s, c, m) \/ Slides(g, s, c, m) \/ Castling(g, s, c, m)
  BY <1>1, MovesAre
<1>3. \A t, x : Move(s, t, x).from = s /\ Move(s, t, x).to = t /\ Move(s, t, x).special = x
  BY DEF Move
<1>4. \A t : b[t] = None => ~Holds(b, t, c)
  BY DEF Holds
<1>5. s \in (0..7) \X (0..7) /\ Ahead(c) \in {1, -1}
  BY <1>1 DEF Squares, Ahead
<1>6. m.from = s /\ m.to \in Squares /\ ~Holds(b, m.to, c)
  <2>1. CASE Walks(g, s, c, m)
    <3>1. PICK t : m = Move(s, t, "plain") /\ (PawnWalk(b, s, c, t) \/ (t \in PawnSides(s, c) /\ Holds(b, t, Foe[c])))
      BY <2>1 DEF Walks
    <3>2. PawnWalk(b, s, c, t) => t \in Squares
      <4>1. s[1] = Home[c] + Ahead(c) => <<s[1] + 2 * Ahead(c), s[2]>> \in Squares
        BY <1>1, <1>5, Colors DEF Ahead, Squares
      <4> QED
        BY <4>1 DEF PawnWalk
    <3>3. Holds(b, t, Foe[c]) => ~Holds(b, t, c)
      BY <1>1 DEF Holds
    <3>4. m.from = s /\ m.to = t
      BY <1>3, <3>1
    <3>5. t \in Squares
      BY <3>1, <3>2 DEF PawnSides
    <3>6. ~Holds(b, t, c)
      BY <1>4, <3>1, <3>3 DEF PawnWalk
    <3> QED
      BY <3>4, <3>5, <3>6
  <2>2. CASE Passes(g, s, c, m)
    <3>1. PICK t : m = Move(s, t, "passant") /\ t \in g.passant
      BY <2>2 DEF Passes
    <3>2. t \in Squares /\ b[t] = None
      BY <3>1 DEF Position, Passed
    <3>3. m.from = s /\ m.to = t
      BY <1>3, <3>1
    <3> QED
      BY <1>4, <3>2, <3>3
  <2>3. CASE Slides(g, s, c, m)
    <3>1. PICK t : m = Move(s, t, "plain") /\ t \in Squares /\ ~Holds(b, t, c)
      BY <2>3 DEF Slides
    <3>2. m.from = s /\ m.to = t
      BY <1>3, <3>1
    <3> QED
      BY <3>1, <3>2
  <2>4. CASE Castling(g, s, c, m)
    <3>1. PICK x \in {"K", "Q"} : /\ m = Move(s, <<Home[c], IF x = "K" THEN 6 ELSE 2>>, x)
                                  /\ Empty(b, {Home[c]} \X (IF x = "K" THEN 5..6 ELSE 1..3))
      BY <2>4 DEF Castling
    <3>2. /\ m.from = s /\ m.to = <<Home[c], IF x = "K" THEN 6 ELSE 2>>
          /\ m.to \in {Home[c]} \X (IF x = "K" THEN 5..6 ELSE 1..3)
      BY <1>3, <3>1
    <3> QED
      BY <1>1, <1>4, <3>1, <3>2 DEF Empty, Squares
  <2> QED
    BY <1>2, <2>1, <2>2, <2>3, <2>4
<1>7. Lone(b, Foe[c]) => b[m.to] # <<Foe[c], "k">>
  <2> SUFFICES ASSUME Lone(b, Foe[c]), b[m.to] = <<Foe[c], "k">> PROVE FALSE
    OBVIOUS
  <2>1. Foe[Foe[c]] = c
    BY <1>1, Colors
  <2>2. Hits(b, s, m.to)
    BY <1>1, <1>6, <2>1, TakesKing
  <2>3. Strikes(b, m.to, c)
    BY <1>1, <1>6, <2>2, HitsStrikes
  <2> QED
    BY <1>1, <1>6, <2>1, <2>3 DEF Position, Safe, Kings
<1> QED
  BY <1>6, <1>7

(* After: a pawn taken in passing stands beside the one that takes it. *)
LEMMA AfterShifts ==
  ASSUME ChessAssumption, NEW g, NEW c, Position(g, c), NEW s, Holds(g.board, s, c),
         NEW m \in getPseudoLegalMoves(g, s)
  PROVE  /\ Shifted(g.board, After(g, m).board, s, m.to)
         /\ m.special # "passant" => \A x \in Squares \ {s, m.to} : After(g, m).board[x] = g.board[x]
<1> DEFINE b == g.board
           t == m.to
           r == <<s[1], t[2]>>
           e == [b EXCEPT ![t] = b[s], ![s] = None]
           h == Moved(g, s, t)
<1>1. m.from = s /\ t \in Squares /\ ~Holds(b, t, c) /\ t # s
  BY Target
<1>2. /\ s \in Squares /\ b[s] \in Men /\ c \in {"w", "b"} /\ Sound(b) /\ "board" \in DOMAIN g
      /\ Foe[c] # c /\ b[s][1] = c
  BY HeldPiece, Colors DEF Position, IsChess
<1>3. h.board = e /\ "board" \in DOMAIN h
  BY <1>2 DEF Moved
<1> HIDE DEF t, h
<1>4. Sound(e) /\ e[s] = None /\ e[t] = b[s] /\ \A x \in Squares \ {s, t} : e[x] = b[x]
  BY <1>1, <1>2 DEF Sound
<1> HIDE DEF e
<1>5. CASE m.special # "passant"
  <2>1. After(g, m) = h
    BY <1>1, <1>5 DEF After, h, t
  <2> QED
    BY <1>3, <1>4, <1>5, <2>1 DEF Shifted, t
<1>6. CASE m.special = "passant"
  <2>1. After(g, m) = [h EXCEPT !.board[r] = None]
    BY <1>1, <1>6 DEF After, h, t
  <2>2. After(g, m).board = [e EXCEPT ![r] = None]
    BY <1>3, <2>1
  <2>3. Passes(g, s, c, m)
    <3>1. Walks(g, s, c, m) \/ Passes(g, s, c, m) \/ Slides(g, s, c, m) \/ Castling(g, s, c, m)
      BY <1>2, MovesAre
    <3>2. \A q, x : Move(s, q, x).special = x
      BY DEF Move
    <3>3. (\E q : m = Move(s, q, "plain")) => m.special = "plain"
      BY <3>2
    <3>4. (\E q, x : m = Move(s, q, x) /\ x \in {"K", "Q"}) => m.special \in {"K", "Q"}
      BY <3>2
    <3>5. ~Walks(g, s, c, m) /\ ~Slides(g, s, c, m)
      BY <1>6, <3>3 DEF Walks, Slides
    <3>6. ~Castling(g, s, c, m)
      BY <1>6, <3>4 DEF Castling
    <3> QED
      BY <3>1, <3>5, <3>6
  <2>4. t \in PawnSides(s, c) /\ t \in g.passant
    BY <2>3 DEF Passes, t, Move
  <2>5. b[<<t[1] - Ahead(c), t[2]>>] = <<Foe[c], "p">>
    BY <2>4 DEF Position, Passed
  <2>6. s \in (0..7) \X (0..7) /\ Ahead(c) \in {1, -1}
    BY <1>2 DEF Squares, Ahead
  <2>7. t[1] - Ahead(c) = s[1] /\ r # t
    BY <2>4, <2>6 DEF PawnSides
  <2>8. b[r] = <<Foe[c], "p">> /\ r # s
    BY <1>2, <2>5, <2>7
  <2>9. r \in Squares
    BY <1>1, <1>2 DEF Squares
  <2> HIDE DEF r
  <2>10. Sound([e EXCEPT ![r] = None])
    BY <1>4, <2>9 DEF Sound
  <2>11. b[r][2] = "p"
    BY <2>8
  <2>12. DOMAIN e = Squares
    BY <1>4 DEF Sound
  <2> QED
    BY <1>1, <1>2, <1>4, <1>6, <2>2, <2>7, <2>8, <2>9, <2>10, <2>11, <2>12 DEF Shifted, t
<1> QED
  BY <1>5, <1>6

(* Kings are where they were, except the one that moved and one that is taken: never the last. *)
LEMMA ShiftedKings ==
  ASSUME ChessAssumption, NEW b, Sound(b), NEW c, NEW s, Holds(b, s, c), NEW t \in Squares, t # s,
         ~Holds(b, t, c), Lone(b, Foe[c]) => b[t] # <<Foe[c], "k">>, NEW e, Shifted(b, e, s, t),
         Kings(b, Foe[c]) # {}
  PROVE  /\ Kings(e, Foe[c]) # {} /\ (Lone(b, Foe[c]) => Kings(e, Foe[c]) = Kings(b, Foe[c]))
         /\ Kings(e, c) = IF b[s][2] = "k" THEN (Kings(b, c) \ {s}) \cup {t} ELSE Kings(b, c)
<1>1. /\ s \in Squares /\ b[s] = <<c, b[s][2]>> /\ b[s] # None
      /\ c \in {"w", "b"} /\ Foe[c] # c /\ Foe[c] \in {"w", "b"}
  BY HeldPiece, Colors
<1>2. \A x \in {"w", "b"} : <<x, "k">> # None /\ <<x, "k">>[2] # "p"
  BY NoPiece DEF Types
<1>3. b[t] # <<c, "k">>
  BY <1>1, <1>2 DEF Holds
<1>4. \A x \in Squares \ {s, t}, f \in {"w", "b"} : e[x] = <<f, "k">> <=> b[x] = <<f, "k">>
  BY <1>2 DEF Shifted
<1>5. Kings(e, Foe[c]) = Kings(b, Foe[c]) \ {t}
  <2>1. e[s] # <<Foe[c], "k">> /\ e[t] # <<Foe[c], "k">> /\ b[s] # <<Foe[c], "k">>
    BY <1>1, <1>2 DEF Shifted
  <2> QED
    BY <1>1, <1>4, <2>1 DEF Kings
<1>6. e[s] # <<c, "k">> /\ (e[t] = <<c, "k">> <=> b[s] = <<c, "k">>)
  BY <1>1, <1>2 DEF Shifted
<1>7. b[s] = <<c, "k">> <=> b[s][2] = "k"
  BY <1>1
<1>8. Kings(e, c) = IF b[s][2] = "k" THEN (Kings(b, c) \ {s}) \cup {t} ELSE Kings(b, c)
  <2>1. CASE b[s][2] = "k"
    <3>1. \A x \in Squares : e[x] = <<c, "k">> <=> (b[x] = <<c, "k">> /\ x # s) \/ x = t
      BY <1>1, <1>4, <1>6, <1>7, <2>1
    <3> QED
      BY <2>1, <3>1 DEF Kings
  <2>2. CASE b[s][2] # "k"
    <3>1. \A x \in Squares : e[x] = <<c, "k">> <=> b[x] = <<c, "k">>
      BY <1>1, <1>3, <1>4, <1>6, <1>7, <2>2
    <3> QED
      BY <2>2, <3>1 DEF Kings
  <2> QED
    BY <2>1, <2>2
<1>9. Lone(b, Foe[c]) => Kings(e, Foe[c]) = Kings(b, Foe[c])
  BY <1>5 DEF Kings
<1>10. Kings(e, Foe[c]) # {}
  <2>1. PICK k : k \in Kings(b, Foe[c])
    OBVIOUS
  <2>2. CASE Lone(b, Foe[c])
    BY <1>9, <2>1, <2>2
  <2>3. CASE ~Lone(b, Foe[c])
    BY <1>5, <2>1, <2>3 DEF Lone, Kings
  <2> QED
    BY <2>2, <2>3
<1> QED
  BY <1>8, <1>9, <1>10

(* Between two numbers of 0..7 there are only numbers of 0..7. *)
LEMMA OnTheWay ==
  ASSUME NEW u \in 0..7, NEW x \in {-1, 0, 1}, NEW n \in Nat, u + n * x \in 0..7, NEW i \in 1..n-1
  PROVE  u + i * x \in 0..7
<1>1. CASE x = 0
  <2>1. i * 0 = 0
    OBVIOUS
  <2> QED
    BY <1>1, <2>1
<1>2. CASE x = 1
  <2>1. i * 1 = i /\ n * 1 = n
    OBVIOUS
  <2> QED
    BY <1>2, <2>1
<1>3. CASE x = -1
  <2>1. i * (-1) = -i /\ n * (-1) = -n
    OBVIOUS
  <2> QED
    BY <1>3, <2>1
<1> QED
  BY <1>1, <1>2, <1>3

(* Between two squares of the board there are only squares of the board. *)
LEMMA BetweenSquares ==
  ASSUME NEW k \in Squares, NEW v \in Rays, NEW n \in Nat, Step(k, v, n) \in Squares
  PROVE  Between(k, v, n) \subseteq Squares
<1> DEFINE x == v[1]
           y == v[2]
<1>1. k[1] \in 0..7 /\ k[2] \in 0..7 /\ x \in {-1, 0, 1} /\ y \in {-1, 0, 1}
  BY WayBack DEF Squares
<1>2. \A i : Step(k, v, i) = <<k[1] + i * x, k[2] + i * y>>
  BY DEF Step
<1> HIDE DEF x, y
<1>3. k[1] + n * x \in 0..7 /\ k[2] + n * y \in 0..7
  BY <1>2 DEF Squares
<1>4. ASSUME NEW i \in 1..n-1
      PROVE  k[1] + i * x \in 0..7 /\ k[2] + i * y \in 0..7
  BY <1>1, <1>3, OnTheWay
<1> QED
  BY <1>2, <1>4 DEF Between, Squares

(* From b to e no piece of f came, and only squares in X were emptied, which look away from k. *)
Closes(b, e, k, f, X) ==
  /\ \A x \in Squares, t \in Types : e[x] = <<f, t>> => b[x] = <<f, t>>
  /\ \A x \in Squares \ X : e[x] = None => b[x] = None
  /\ \A v \in Rays, n \in 1..7 : Step(k, v, n) \in Squares => Between(k, v, n) \cap X = {}

(* Then k is not attacked by more. *)
LEMMA StrikesKept ==
  ASSUME NEW b, NEW e, NEW k \in Squares, NEW f, NEW X, Closes(b, e, k, f, X), Strikes(e, k, f)
  PROVE  Strikes(b, k, f)
<1>0. /\ \A x \in Squares, t \in Types : e[x] = <<f, t>> => b[x] = <<f, t>>
      /\ \A x \in Squares \ X : e[x] = None => b[x] = None
      /\ \A v \in Rays, n \in 1..7 : Step(k, v, n) \in Squares => Between(k, v, n) \cap X = {}
  BY DEF Closes
<1>1. ASSUME NEW v \in Rays, NEW n \in 1..7, Step(k, v, n) \in Squares, Empty(e, Between(k, v, n))
      PROVE  Empty(b, Between(k, v, n))
  <2>1. Between(k, v, n) \subseteq Squares
    BY <1>1, BetweenSquares
  <2> QED
    BY <1>0, <1>1, <2>1 DEF Empty
<1>2. ASSUME NEW x \in Squares, NEW t \in Types, e[x] = <<f, t>>
      PROVE  b[x] = <<f, t>>
  BY <1>0, <1>2
<1>3. {"n", "p", "q", "r", "b", "k"} \subseteq Types
  BY DEF Types
<1>4. CASE \E v \in Leaps : Step(k, v, 1) \in Squares /\ e[Step(k, v, 1)] = <<f, "n">>
  <2>1. \E v \in Leaps : Step(k, v, 1) \in Squares /\ b[Step(k, v, 1)] = <<f, "n">>
    BY <1>2, <1>3, <1>4
  <2> QED
    BY <2>1, StrikesFrom
<1>5. CASE \E v \in Slanted : /\ v[1] = (IF f = "w" THEN 1 ELSE -1)
                              /\ Step(k, v, 1) \in Squares /\ e[Step(k, v, 1)] = <<f, "p">>
  <2>1. \E v \in Slanted : /\ v[1] = (IF f = "w" THEN 1 ELSE -1)
                           /\ Step(k, v, 1) \in Squares /\ b[Step(k, v, 1)] = <<f, "p">>
    BY <1>2, <1>3, <1>5
  <2> QED
    BY <2>1, StrikesFrom
<1>6. CASE \E v \in Rays, n \in 1..7 :
             /\ Step(k, v, n) \in Squares
             /\ Empty(e, Between(k, v, n))
             /\ \/ e[Step(k, v, n)] = <<f, "q">>
                \/ e[Step(k, v, n)] = <<f, IF v \in Straight THEN "r" ELSE "b">>
                \/ n = 1 /\ e[Step(k, v, n)] = <<f, "k">>
  <2>1. PICK v \in Rays, n \in 1..7 :
             /\ Step(k, v, n) \in Squares
             /\ Empty(e, Between(k, v, n))
             /\ \/ e[Step(k, v, n)] = <<f, "q">>
                \/ e[Step(k, v, n)] = <<f, IF v \in Straight THEN "r" ELSE "b">>
                \/ n = 1 /\ e[Step(k, v, n)] = <<f, "k">>
    BY <1>6
  <2>2. Empty(b, Between(k, v, n))
    BY <1>1, <2>1
  <2>3. \/ b[Step(k, v, n)] = <<f, "q">>
        \/ b[Step(k, v, n)] = <<f, IF v \in Straight THEN "r" ELSE "b">>
        \/ n = 1 /\ b[Step(k, v, n)] = <<f, "k">>
    BY <1>2, <1>3, <2>1
  <2> QED
    BY <2>1, <2>2, <2>3, StrikesFrom
<1> QED
  BY <1>4, <1>5, <1>6, StrikesFrom

(* A castled king is at the side of his rook: nothing looks at him through the corner. *)
LEMMA Corners ==
  ASSUME NEW row \in 0..7, NEW v \in Rays, NEW n \in 1..7
  PROVE  /\ Step(<<row, 6>>, v, n) \in Squares => <<row, 7>> \notin Between(<<row, 6>>, v, n)
         /\ Step(<<row, 2>>, v, n) \in Squares => <<row, 0>> \notin Between(<<row, 2>>, v, n)
<1> DEFINE x == v[1]
           y == v[2]
<1>1. x \in {-1, 0, 1} /\ y \in {-1, 0, 1}
  BY WayBack
<1>2. \A c, i : Step(<<row, c>>, v, i) = <<row + i * x, c + i * y>>
  BY DEF Step
<1> HIDE DEF x, y
<1>3. ASSUME NEW i \in 1..n-1, NEW c \in {2, 6}, NEW d \in {0, 7}, c = 2 <=> d = 0,
             Step(<<row, c>>, v, i) = <<row, d>>, Step(<<row, c>>, v, n) \in Squares
      PROVE  FALSE
  <2>1. row + i * x = row /\ c + i * y = d /\ c + n * y \in 0..7
    BY <1>2, <1>3 DEF Squares
  <2>2. CASE y = 0
    BY <1>3, <2>1, <2>2
  <2>3. CASE y = 1
    BY <1>3, <2>1, <2>3
  <2>4. CASE y = -1
    BY <1>3, <2>1, <2>4
  <2> QED
    BY <1>1, <2>2, <2>3, <2>4
<1> QED
  BY <1>3 DEF Between

(* The end of applyMove: the rook follows a king that castles, a pawn is promoted. *)
Rooked(e, row, special) ==
  CASE special = "K" -> [e EXCEPT ![<<row, 5>>] = e[<<row, 7>>], ![<<row, 7>>] = None]
    [] special = "Q" -> [e EXCEPT ![<<row, 3>>] = e[<<row, 0>>], ![<<row, 0>>] = None]
    [] OTHER -> e
(* It puts no king elsewhere and lays an only king of c not open. *)
Covered(e, d, c) ==
  /\ Sound(d) /\ Kings(d, Foe[c]) = Kings(e, Foe[c]) /\ Kings(e, c) \subseteq Kings(d, c)
  /\ Lone(d, c) => \A k \in Kings(e, c) : Strikes(d, k, Foe[c]) => Strikes(e, k, Foe[c])
Aside(e, d, c) == Covered(e, d, c) /\ Kings(d, c) = Kings(e, c)

(* A rook has gone from one square to another. *)
Towered(e, d, from, into) ==
  /\ DOMAIN d = Squares /\ d[into] = e[from] /\ d[from] = None
  /\ \A x \in Squares \ {from, into} : d[x] = e[x]

(* The rook that follows a castled king lays nothing open. *)
LEMMA RookCovered ==
  ASSUME ChessAssumption, NEW e, Sound(e), NEW c \in {"w", "b"}, NEW row \in 0..7,
         NEW at \in {2, 6}, NEW from, NEW into,
         from = <<row, IF at = 6 THEN 7 ELSE 0>>, into = <<row, IF at = 6 THEN 5 ELSE 3>>,
         e[from] = <<c, "r">>, e[into] = None, <<row, at>> \in Kings(e, c),
         NEW d, Towered(e, d, from, into)
  PROVE  Aside(e, d, c)
<1>1. from \in Squares /\ into \in Squares /\ from # into /\ <<row, at>> \in Squares
  BY DEF Squares
<1>2. DOMAIN e = Squares /\ DOMAIN d = Squares
  BY DEF Sound, Towered
<1>3. d[into] = <<c, "r">> /\ d[from] = None /\ \A x \in Squares \ {from, into} : d[x] = e[x]
  BY DEF Towered
<1>4. <<c, "r">> \in Men /\ <<c, "r">> # None /\ Foe[c] # c /\ Foe[c] \in {"w", "b"}
  BY Colors, NoPiece DEF Types
<1>5. Sound(d)
  BY <1>2, <1>3, <1>4 DEF Sound
<1>6. \A x : <<x, "k">> # <<c, "r">>
  OBVIOUS
<1>7. \A x \in {"w", "b"} : <<x, "k">> # None
  BY NoPiece DEF Types
<1>8. ASSUME NEW x \in {"w", "b"}
      PROVE  Kings(d, x) = Kings(e, x)
  <2>1. \A y \in Squares \ {from, into} : d[y] = <<x, "k">> <=> e[y] = <<x, "k">>
    BY <1>3
  <2>2. \A y \in {from, into} : d[y] # <<x, "k">> /\ e[y] # <<x, "k">>
    BY <1>3, <1>6, <1>7
  <2> QED
    BY <2>1, <2>2 DEF Kings
<1>9. \A x \in Squares, t \in Types : d[x] = <<Foe[c], t>> => e[x] = <<Foe[c], t>>
  <2>1. \A t \in Types : <<Foe[c], t>> # <<c, "r">> /\ <<Foe[c], t>> # None
    BY <1>4, NoPiece
  <2> QED
    BY <1>3, <2>1
<1>10. \A x \in Squares \ {from} : d[x] = None => e[x] = None
  BY <1>3, <1>4
<1>11. \A v \in Rays, n \in 1..7 : Step(<<row, at>>, v, n) \in Squares => Between(<<row, at>>, v, n) \cap {from} = {}
  <2>1. CASE at = 6
    <3>1. from = <<row, 7>> /\ <<row, at>> = <<row, 6>>
      BY <2>1
    <3>2. \A v \in Rays, n \in 1..7 : Step(<<row, 6>>, v, n) \in Squares => <<row, 7>> \notin Between(<<row, 6>>, v, n)
      BY Corners
    <3> QED
      BY <3>1, <3>2
  <2>2. CASE at = 2
    <3>1. from = <<row, 0>> /\ <<row, at>> = <<row, 2>>
      BY <2>2
    <3>2. \A v \in Rays, n \in 1..7 : Step(<<row, 2>>, v, n) \in Squares => <<row, 0>> \notin Between(<<row, 2>>, v, n)
      BY Corners
    <3> QED
      BY <3>1, <3>2
  <2> QED
    BY <2>1, <2>2
<1>12. ASSUME Lone(d, c), NEW k \in Kings(e, c), Strikes(d, k, Foe[c])
       PROVE  Strikes(e, k, Foe[c])
  <2>1. k = <<row, at>> /\ k \in Squares
    BY <1>1, <1>8, <1>12 DEF Lone
  <2>2. Closes(e, d, k, Foe[c], {from})
    BY <1>9, <1>10, <1>11, <2>1 DEF Closes
  <2> QED
    BY <1>12, <2>1, <2>2, StrikesKept
<1> QED
  BY <1>4, <1>5, <1>8, <1>12 DEF Covered, Aside

(* Nor does a promotion: to a king it makes one more. *)
LEMMA PromotionCovered ==
  ASSUME ChessAssumption, NEW e, Sound(e), NEW c \in {"w", "b"}, NEW t \in Squares, e[t] = <<c, "p">>,
         NEW promotion \in Promotions, NEW d, d = [e EXCEPT ![t] = <<c, promotion>>]
  PROVE  Covered(e, d, c) /\ (promotion \in Offered => Kings(d, c) = Kings(e, c))
<1>1. DOMAIN e = Squares /\ DOMAIN d = Squares
  BY DEF Sound
<1>2. d[t] = <<c, promotion>> /\ \A x \in Squares \ {t} : d[x] = e[x]
  BY <1>1
<1>3. Foe[c] # c /\ Foe[c] \in {"w", "b"}
  BY Colors
<1>4. <<c, promotion>> \in Men /\ <<c, promotion>> # None
  BY DEF ChessAssumption, Men
<1>5. Sound(d)
  BY <1>1, <1>2, <1>4 DEF Sound
<1>6. /\ Kings(d, Foe[c]) = Kings(e, Foe[c]) /\ Kings(e, c) \subseteq Kings(d, c)
      /\ promotion \in Offered => Kings(d, c) = Kings(e, c)
  <2>1. /\ d[t] # <<Foe[c], "k">> /\ \A x \in {"w", "b"} : e[t] # <<x, "k">>
        /\ promotion \in Offered => d[t] # <<c, "k">>
    BY <1>2, <1>3 DEF Offered
  <2> QED
    BY <1>2, <2>1 DEF Kings
<1>7. \A x \in Squares, p \in Types : d[x] = <<Foe[c], p>> => e[x] = <<Foe[c], p>>
  BY <1>2, <1>3
<1>8. \A x \in Squares \ {} : d[x] = None => e[x] = None
  BY <1>2, <1>4
<1>9. ASSUME NEW k \in Kings(e, c), Strikes(d, k, Foe[c])
      PROVE  Strikes(e, k, Foe[c])
  <2>1. k \in Squares
    BY DEF Kings
  <2>2. Closes(e, d, k, Foe[c], {})
    BY <1>7, <1>8 DEF Closes
  <2> QED
    BY <1>9, <2>1, <2>2, StrikesKept
<1> QED
  BY <1>5, <1>6, <1>9 DEF Covered

(* applyMove, field by field. *)
Applies(g, m, c, type, promotion, a) ==
  LET rooked == Rooked(After(g, m).board, Home[c], m.special)
  IN /\ IsChess(a) /\ a.mover = g.mover
     /\ a.board = IF type = "p" /\ m.to[1] = Home[Foe[c]]
                  THEN [rooked EXCEPT ![m.to] = <<c, promotion>>] ELSE rooked
     /\ ~a.irregular => ~g.irregular /\ (type = "p" /\ m.to[1] = Home[Foe[c]] => promotion \in Offered)
     /\ a.rights \subseteq g.rights
     /\ type = "k" => a.rights \cap ({c} \X {"K", "Q"}) = {}
     /\ a.passant = IF type = "p" /\ m.to[1] - m.from[1] \in {-2, 2}
                    THEN {<<(m.from[1] + m.to[1]) \div 2, m.from[2]>>} ELSE {}

(* They hold of it. *)
LEMMA AppliedFields ==
  ASSUME NEW g, IsChess(g), NEW m, NEW c, NEW type, g.board[m.from] = <<c, type>>, NEW promotion
  PROVE  Applies(g, m, c, type, promotion, applyMove(g, m, promotion))
<1> DEFINE piece == g.board[m.from]
           row == Home[c]
           moved == After(g, m).board
           rooked == CASE m.special = "K" -> [moved EXCEPT ![<<row, 5>>] = moved[<<row, 7>>], ![<<row, 7>>] = None]
                       [] m.special = "Q" -> [moved EXCEPT ![<<row, 3>>] = moved[<<row, 0>>], ![<<row, 0>>] = None]
                       [] OTHER -> moved
           spent == CASE type = "k" -> {c} \X {"K", "Q"}
                      [] type = "r" /\ m.from = <<row, 7>> -> {<<c, "K">>}
                      [] type = "r" /\ m.from = <<row, 0>> -> {<<c, "Q">>}
                      [] OTHER -> {}
           board == IF type = "p" /\ m.to[1] = Home[Foe[c]]
                    THEN [rooked EXCEPT ![m.to] = <<c, promotion>>] ELSE rooked
           passant == IF type = "p" /\ m.to[1] - m.from[1] \in {-2, 2}
                      THEN {<<(m.from[1] + m.to[1]) \div 2, m.from[2]>>} ELSE {}
           history == Append(g.history, <<m.from, m.to>>)
           irregular == g.irregular \/ (type = "p" /\ m.to[1] = Home[Foe[c]] /\ promotion \notin Offered)
<1>1. piece[1] = c /\ piece[2] = type
  OBVIOUS
<1>2. applyMove(g, m, promotion) =
        [g EXCEPT !.board = board, !.irregular = irregular, !.rights = g.rights \ spent,
                  !.passant = passant, !.history = history]
  BY <1>1, Zenon DEF applyMove
<1>3. rooked = Rooked(moved, row, m.special)
  BY DEF Rooked
<1>4. type = "k" => spent = {c} \X {"K", "Q"}
  OBVIOUS
<1>8. ~irregular => ~g.irregular /\ (type = "p" /\ m.to[1] = Home[Foe[c]] => promotion \in Offered)
  OBVIOUS
<1> HIDE DEF board, spent, passant, history, irregular
<1> DEFINE a == applyMove(g, m, promotion)
<1>5. /\ IsChess(a) /\ a.mover = g.mover /\ a.board = board /\ a.rights = g.rights \ spent /\ a.passant = passant
      /\ a.irregular = irregular
  BY <1>2 DEF IsChess
<1> HIDE DEF a
<1>6. a.rights \subseteq g.rights /\ (type = "k" => a.rights \cap ({c} \X {"K", "Q"}) = {})
  BY <1>4, <1>5
<1>7. a.board = IF type = "p" /\ m.to[1] = Home[Foe[c]]
                THEN [Rooked(moved, row, m.special) EXCEPT ![m.to] = <<c, promotion>>]
                ELSE Rooked(moved, row, m.special)
  BY <1>3, <1>5 DEF board
<1> QED
  BY <1>5, <1>6, <1>7, <1>8 DEF Applies, a, passant

(* The board after a legal move, before the rook and the promotion: an only king is not left open. *)
LEMMA LegalAfter ==
  ASSUME ChessAssumption, NEW g, NEW c, Position(g, c), NEW s, Holds(g.board, s, c),
         NEW m \in getLegalMoves(g, s, c)
  PROVE  LET e == After(g, m).board
         IN /\ m \in getPseudoLegalMoves(g, s) /\ Shifted(g.board, e, s, m.to) /\ (Lone(e, c) => Safe(e, c))
            /\ Kings(e, Foe[c]) # {} /\ (Lone(g.board, Foe[c]) => Kings(e, Foe[c]) = Kings(g.board, Foe[c]))
            /\ Kings(e, c) = IF g.board[s][2] = "k" THEN (Kings(g.board, c) \ {s}) \cup {m.to}
                             ELSE Kings(g.board, c)
<1> DEFINE e == After(g, m).board
<1>1. m \in getPseudoLegalMoves(g, s) /\ Legal(g, c, m)
  BY DEF getLegalMoves
<1>2. Shifted(g.board, e, s, m.to) /\ m.to \in Squares /\ m.to # s /\ ~Holds(g.board, m.to, c)
      /\ (Lone(g.board, Foe[c]) => g.board[m.to] # <<Foe[c], "k">>)
  BY <1>1, AfterShifts, Target
<1>3. Sound(e) /\ ~isCheck(c, After(g, m))
  BY <1>1, <1>2 DEF Legal, Shifted
<1>4. Lone(e, c) => Safe(e, c)
  BY <1>3, CheckStrikes DEF Position, Safe, Kings
<1>5. Kings(g.board, Foe[c]) # {}
  BY Colors DEF Position
<1>6. Sound(g.board)
  BY DEF Position
<1> DEFINE b == g.board
           t == m.to
<1>7. Sound(b) /\ Holds(b, s, c) /\ t \in Squares /\ t # s /\ ~Holds(b, t, c)
      /\ (Lone(b, Foe[c]) => b[t] # <<Foe[c], "k">>) /\ Shifted(b, e, s, t) /\ Kings(b, Foe[c]) # {}
  BY <1>2, <1>5, <1>6
<1> HIDE DEF e, b, t
<1>8. /\ Kings(e, Foe[c]) # {} /\ (Lone(b, Foe[c]) => Kings(e, Foe[c]) = Kings(b, Foe[c]))
      /\ Kings(e, c) = IF b[s][2] = "k" THEN (Kings(b, c) \ {s}) \cup {t} ELSE Kings(b, c)
  BY <1>7, ShiftedKings
<1> QED
  BY <1>1, <1>2, <1>4, <1>5, <1>8 DEF e, b, t

(* Castling: the rook at home, nothing between, and a king that goes to the side of it. *)
LEMMA CastlingParts ==
  ASSUME ChessAssumption, NEW g, NEW c, Position(g, c), NEW s, Holds(g.board, s, c),
         NEW m \in getPseudoLegalMoves(g, s), m.special \in {"K", "Q"}
  PROVE  /\ g.board[s] = <<c, "k">>
         /\ m.to = <<Home[c], IF m.special = "K" THEN 6 ELSE 2>>
         /\ g.board[<<Home[c], IF m.special = "K" THEN 7 ELSE 0>>] = <<c, "r">>
         /\ g.board[<<Home[c], IF m.special = "K" THEN 5 ELSE 3>>] = None
<1>1. g.board[s] = <<c, g.board[s][2]>> /\ s \in Squares /\ Sound(g.board) /\ Home[c] \in 0..7
  BY HeldPiece, Colors DEF Position
<1>2. Walks(g, s, c, m) \/ Passes(g, s, c, m) \/ Slides(g, s, c, m) \/ Castling(g, s, c, m)
  BY <1>1, MovesAre
<1>3. \A t, x : Move(s, t, x).to = t /\ Move(s, t, x).special = x
  BY DEF Move
<1>4. (\E t : m = Move(s, t, "plain") \/ m = Move(s, t, "passant")) => m.special \in {"plain", "passant"}
  BY <1>3
<1>5. Castling(g, s, c, m)
  BY <1>2, <1>4 DEF Walks, Passes, Slides
<1>6. PICK x \in {"K", "Q"} :
        /\ m = Move(s, <<Home[c], IF x = "K" THEN 6 ELSE 2>>, x) /\ g.board[s][2] = "k" /\ <<c, x>> \in g.rights
        /\ Empty(g.board, {Home[c]} \X (IF x = "K" THEN 5..6 ELSE 1..3))
        /\ g.board[<<Home[c], IF x = "K" THEN 7 ELSE 0>>] = <<c, "r">>
  BY <1>5 DEF Castling
<1>7. m.special = x /\ m.to = <<Home[c], IF x = "K" THEN 6 ELSE 2>>
  BY <1>3, <1>6
<1>9. <<Home[c], IF x = "K" THEN 5 ELSE 3>> \in {Home[c]} \X (IF x = "K" THEN 5..6 ELSE 1..3)
  OBVIOUS
<1>10. g.board[<<Home[c], IF x = "K" THEN 5 ELSE 3>>] = None
  BY <1>6, <1>9 DEF Empty
<1> QED
  BY <1>1, <1>6, <1>7, <1>10

(* A pawn that goes two starts at home, and passes over an empty square. *)
LEMMA DoubleStep ==
  ASSUME ChessAssumption, NEW g, NEW c, Position(g, c), NEW s, Holds(g.board, s, c),
         NEW m \in getPseudoLegalMoves(g, s), g.board[s][2] = "p", m.to[1] - s[1] \in {-2, 2}
  PROVE  /\ m.special = "plain" /\ m.to[1] # Home[Foe[c]]
         /\ <<(s[1] + m.to[1]) \div 2, s[2]>> = <<s[1] + Ahead(c), s[2]>>
         /\ m.to = <<s[1] + 2 * Ahead(c), s[2]>>
         /\ <<s[1] + Ahead(c), s[2]>> \in Squares /\ g.board[<<s[1] + Ahead(c), s[2]>>] = None
<1>1. s \in Squares /\ c \in {"w", "b"} /\ Sound(g.board)
  BY HeldPiece DEF Position
<1>2. s \in (0..7) \X (0..7) /\ Ahead(c) \in {1, -1}
  BY <1>1 DEF Squares, Ahead
<1>3. Walks(g, s, c, m) \/ Passes(g, s, c, m) \/ Slides(g, s, c, m) \/ Castling(g, s, c, m)
  BY <1>1, MovesAre
<1>4. Walks(g, s, c, m) \/ Passes(g, s, c, m)
  BY <1>3 DEF Slides, Castling
<1>5. \A t, x : Move(s, t, x).to = t /\ Move(s, t, x).special = x
  BY DEF Move
<1>6. m.to \notin PawnSides(s, c)
  BY <1>2 DEF PawnSides
<1>7. PICK t : m = Move(s, t, "plain") /\ PawnWalk(g.board, s, c, t)
  <2>1. \A t, x : m = Move(s, t, x) => t \notin PawnSides(s, c)
    BY <1>5, <1>6
  <2>2. ~Passes(g, s, c, m)
    BY <2>1 DEF Passes
  <2> QED
    BY <1>4, <2>1, <2>2 DEF Walks
<1>8. m.to = t /\ m.special = "plain"
  BY <1>5, <1>7
<1>9. t # <<s[1] + Ahead(c), s[2]>>
  <2>1. t[1] - s[1] \in {-2, 2}
    BY <1>8
  <2>2. t[1] # s[1] + Ahead(c)
    BY <1>2, <2>1
  <2> QED
    BY <2>2
<1>10. t = <<s[1] + 2 * Ahead(c), s[2]>> /\ s[1] = Home[c] + Ahead(c) /\ g.board[<<s[1] + Ahead(c), s[2]>>] = None
  BY <1>7, <1>9 DEF PawnWalk
<1>11. (s[1] + t[1]) \div 2 = s[1] + Ahead(c)
  BY <1>2, <1>10
<1>12. <<s[1] + Ahead(c), s[2]>> \in Squares /\ t[1] # Home[Foe[c]]
  BY <1>1, <1>2, <1>10, Colors DEF Squares, Ahead
<1> QED
  BY <1>8, <1>10, <1>11, <1>12

(* Once rook and promotion are done, the board is still covered as it was after the move alone. *)
LEMMA AppliedCovers ==
  ASSUME ChessAssumption, NEW g, NEW c, Position(g, c), NEW s, Holds(g.board, s, c),
         NEW m \in getLegalMoves(g, s, c), NEW promotion \in Promotions
  PROVE  LET a == applyMove(g, m, promotion)
             e == After(g, m).board
         IN /\ Covered(e, a.board, c) /\ (~a.irregular => Kings(a.board, c) = Kings(e, c))
            /\ m.special = "plain" /\ m.to[1] # Home[Foe[c]] => a.board = e
<1> DEFINE a == applyMove(g, m, promotion)
           e == After(g, m).board
           b == g.board
           type == b[s][2]
           row == Home[c]
           d == Rooked(e, row, m.special)
           t == m.to
<1>1. m \in getPseudoLegalMoves(g, s) /\ Shifted(b, e, s, t)
  BY LegalAfter
<1>2. /\ s \in Squares /\ b[s] = <<c, type>> /\ c \in {"w", "b"} /\ row \in 0..7 /\ IsChess(g)
  BY HeldPiece, Colors DEF Position
<1>3. m.from = s /\ t \in Squares /\ t # s
  BY <1>1, Target
<1>4. m.special # "passant" => \A x \in Squares \ {s, t} : e[x] = b[x]
  BY <1>1, AfterShifts
<1>5. /\ a.board = IF type = "p" /\ t[1] = Home[Foe[c]] THEN [d EXCEPT ![t] = <<c, promotion>>] ELSE d
      /\ ~a.irregular => (type = "p" /\ t[1] = Home[Foe[c]] => promotion \in Offered)
  <2>1. g.board[m.from] = <<c, type>>
    BY <1>2, <1>3
  <2>2. Applies(g, m, c, type, promotion, a)
    BY <1>2, <2>1, AppliedFields
  <2> HIDE DEF a, type
  <2> QED
    BY <1>3, <2>2 DEF Applies
<1>6. Sound(e) /\ e[t] = b[s]
  BY <1>1 DEF Shifted
<1>7. m.special \in {"K", "Q"} =>
        /\ type = "k" /\ t = <<row, IF m.special = "K" THEN 6 ELSE 2>>
        /\ b[<<row, IF m.special = "K" THEN 7 ELSE 0>>] = <<c, "r">>
        /\ b[<<row, IF m.special = "K" THEN 5 ELSE 3>>] = None
  BY <1>1, <1>2, CastlingParts
<1> SUFFICES /\ Covered(e, a.board, c) /\ (~a.irregular => Kings(a.board, c) = Kings(e, c))
             /\ (m.special = "plain" /\ t[1] # Home[Foe[c]] => a.board = e)
  OBVIOUS
<1> HIDE DEF a, e, t
<1>8. m.special \notin {"K", "Q"} => d = e
  BY DEF Rooked
<1>9. CASE m.special \in {"K", "Q"}
  <2> DEFINE at == IF m.special = "K" THEN 6 ELSE 2
             from == <<row, IF at = 6 THEN 7 ELSE 0>>
             into == <<row, IF at = 6 THEN 5 ELSE 3>>
  <2>1. at \in {2, 6} /\ t = <<row, at>> /\ type = "k" /\ (at = 6 <=> m.special = "K")
    BY <1>7, <1>9
  <2>2. b[from] = <<c, "r">> /\ b[into] = None
    BY <1>7, <1>9, <2>1
  <2>3. from \in Squares /\ into \in Squares
    BY <1>2 DEF Squares
  <2>4. from \notin {s, t} /\ into \notin {s, t}
    <3>1. from # t /\ into # t
      BY <1>2, <2>1
    <3>2. b[s] = <<c, "k">> /\ <<c, "k">> # None
      BY <1>2, <2>1, NoPiece DEF Types
    <3>3. <<c, "k">> # <<c, "r">>
      OBVIOUS
    <3> HIDE DEF from, into, type
    <3>4. from # s /\ into # s
      BY <2>2, <3>2, <3>3
    <3> QED
      BY <3>1, <3>4
  <2>5. e[from] = <<c, "r">> /\ e[into] = None
    BY <1>4, <1>9, <2>2, <2>3, <2>4
  <2>6. <<row, at>> \in Kings(e, c)
    BY <1>2, <1>3, <1>6, <2>1 DEF Kings
  <2>7. d = [e EXCEPT ![into] = e[from], ![from] = None]
    <3>1. CASE m.special = "K"
      <4>1. at = 6 /\ from = <<row, 7>> /\ into = <<row, 5>>
        BY <3>1
      <4> QED
        BY <3>1, <4>1, Zenon DEF Rooked
    <3>2. CASE m.special = "Q"
      <4>1. at # 6 /\ from = <<row, 0>> /\ into = <<row, 3>>
        BY <3>2
      <4>2. m.special # "K"
        BY <3>2
      <4> QED
        BY <3>2, <4>1, <4>2 DEF Rooked
    <3> QED
      BY <1>9, <3>1, <3>2
  <2>8. from = <<row, IF at = 6 THEN 7 ELSE 0>> /\ into = <<row, IF at = 6 THEN 5 ELSE 3>> /\ from # into
    <3>1. at \in {2, 6}
      BY <2>1
    <3> HIDE DEF at
    <3> QED
      BY <3>1
  <2> HIDE DEF at, from, into, row, d
  <2>11. Towered(e, d, from, into)
    BY <1>6, <2>3, <2>7, <2>8 DEF Towered, Sound
  <2>9. Covered(e, d, c) /\ Kings(d, c) = Kings(e, c)
    <3>1. c \in {"w", "b"} /\ row \in 0..7 /\ at \in {2, 6} /\ Sound(e)
      BY <1>2, <1>6, <2>1
    <3>2. from = <<row, IF at = 6 THEN 7 ELSE 0>> /\ into = <<row, IF at = 6 THEN 5 ELSE 3>>
      BY <2>8
    <3>3. /\ e[from] = <<c, "r">> /\ e[into] = None /\ <<row, at>> \in Kings(e, c)
          /\ Towered(e, d, from, into)
      BY <2>5, <2>6, <2>11
    <3>4. Aside(e, d, c)
      BY <3>1, <3>2, <3>3, RookCovered
    <3> QED
      BY <3>4 DEF Aside
  <2>10. a.board = d
    BY <1>5, <1>7, <1>9
  <2> QED
    BY <1>9, <2>9, <2>10
<1>10. CASE m.special \notin {"K", "Q"}
  <2>1. Covered(e, e, c)
    BY <1>6 DEF Covered
  <2> HIDE DEF d
  <2>2. CASE type = "p" /\ t[1] = Home[Foe[c]]
    <3>1. a.board = [e EXCEPT ![t] = <<c, promotion>>] /\ e[t] = <<c, "p">>
      BY <1>2, <1>5, <1>6, <1>8, <1>10, <2>2
    <3>2. Covered(e, a.board, c) /\ (promotion \in Offered => Kings(a.board, c) = Kings(e, c))
      BY <1>2, <1>3, <1>6, <3>1, PromotionCovered
    <3> QED
      BY <1>5, <2>2, <3>2
  <2>3. CASE ~(type = "p" /\ t[1] = Home[Foe[c]])
    <3>1. a.board = e
      BY <1>5, <1>8, <1>10, <2>3
    <3> QED
      BY <2>1, <3>1
  <2> QED
    BY <2>2, <2>3
<1> QED
  BY <1>9, <1>10

(* A legal move leads from a position to one with the other to move. *)
LEMMA Applied ==
  ASSUME ChessAssumption, NEW g, NEW c, Position(g, c), NEW s, Holds(g.board, s, c),
         NEW m \in getLegalMoves(g, s, c), NEW promotion \in Promotions
  PROVE  LET a == applyMove(g, m, promotion)
         IN Position(a, Foe[c]) /\ a.mover = g.mover
<1> DEFINE a == applyMove(g, m, promotion)
           e == After(g, m).board
           b == g.board
           type == b[s][2]
           f == Foe[c]
           t == m.to
<1>1. /\ m \in getPseudoLegalMoves(g, s) /\ Shifted(b, e, s, t) /\ (Lone(e, c) => Safe(e, c))
      /\ Kings(e, f) # {} /\ (Lone(b, f) => Kings(e, f) = Kings(b, f))
      /\ Kings(e, c) = IF type = "k" THEN (Kings(b, c) \ {s}) \cup {t} ELSE Kings(b, c)
  BY LegalAfter
<1>2. /\ s \in Squares /\ b[s] = <<c, type>> /\ c \in {"w", "b"} /\ f \in {"w", "b"} /\ Foe[f] = c /\ f # c
  BY HeldPiece, Colors DEF Position
<1>3. /\ IsChess(g) /\ Kings(b, c) # {} /\ g.rights \subseteq Rights
      /\ ~g.irregular => Lone(b, c) /\ Lone(b, f) /\ Castles(b, g.rights)
  BY <1>2 DEF Position
<1>4. m.from = s /\ t \in Squares /\ t # s
  BY <1>1, Target
<1>5. /\ Covered(e, a.board, c) /\ (~a.irregular => Kings(a.board, c) = Kings(e, c))
      /\ (m.special = "plain" /\ t[1] # Home[f] => a.board = e)
  BY AppliedCovers
<1>6. /\ IsChess(a) /\ a.mover = g.mover /\ a.rights \subseteq g.rights /\ (~a.irregular => ~g.irregular)
      /\ type = "k" => a.rights \cap ({c} \X {"K", "Q"}) = {}
      /\ a.passant = IF type = "p" /\ t[1] - s[1] \in {-2, 2} THEN {<<(s[1] + t[1]) \div 2, s[2]>>} ELSE {}
  <2>1. g.board[m.from] = <<c, type>>
    BY <1>2, <1>4
  <2>2. Applies(g, m, c, type, promotion, a)
    BY <1>3, <2>1, AppliedFields
  <2> HIDE DEF a, type
  <2> QED
    BY <1>4, <2>2 DEF Applies
<1>7. m.special # "passant" => \A x \in Squares \ {s, t} : e[x] = b[x]
  BY <1>1, AfterShifts
<1>8. ASSUME type = "p", t[1] - s[1] \in {-2, 2}
      PROVE  /\ m.special = "plain" /\ t[1] # Home[f]
             /\ <<(s[1] + t[1]) \div 2, s[2]>> = <<s[1] + Ahead(c), s[2]>>
             /\ t = <<s[1] + 2 * Ahead(c), s[2]>>
             /\ <<s[1] + Ahead(c), s[2]>> \in Squares /\ b[<<s[1] + Ahead(c), s[2]>>] = None
  BY <1>1, <1>8, DoubleStep
<1> HIDE DEF a, e, t, f, type
<1>9. Sound(a.board) /\ Kings(a.board, f) = Kings(e, f) /\ Kings(e, c) \subseteq Kings(a.board, c)
  BY <1>5 DEF Covered, f
<1>10. Kings(e, c) # {} /\ \A x \in {"w", "b"} : Kings(a.board, x) # {}
  <2>1. Kings(e, c) # {}
    BY <1>1, <1>3
  <2> QED
    BY <1>1, <1>2, <1>9, <2>1
<1>11. Lone(a.board, c) => Safe(a.board, c)
  <2> SUFFICES ASSUME Lone(a.board, c) PROVE Safe(a.board, c)
    OBVIOUS
  <2>1. Kings(a.board, c) = Kings(e, c)
    BY <1>9, <1>10 DEF Lone
  <2>2. Safe(e, c)
    BY <1>1, <2>1 DEF Lone
  <2> QED
    BY <1>5, <2>1, <2>2 DEF Safe, Covered
<1>12. ASSUME ~a.irregular
       PROVE  (\A x \in {"w", "b"} : Lone(a.board, x)) /\ Castles(a.board, a.rights)
  <2>1. Lone(b, c) /\ Lone(b, f) /\ Castles(b, g.rights)
    BY <1>3, <1>6, <1>12
  <2>2. Kings(a.board, f) = Kings(b, f) /\ Kings(a.board, c) = Kings(e, c)
    BY <1>1, <1>5, <1>9, <1>12, <2>1
  <2>3. type = "k" => Kings(e, c) = {t}
    <3>1. type = "k" => s \in Kings(b, c)
      BY <1>2 DEF Kings
    <3> QED
      BY <1>1, <2>1, <3>1 DEF Lone
  <2>4. \A x \in {"w", "b"} : Lone(a.board, x)
    <3>1. Lone(a.board, f)
      BY <2>1, <2>2 DEF Lone
    <3>2. Lone(a.board, c)
      BY <1>1, <1>4, <2>1, <2>2, <2>3 DEF Lone
    <3> QED
      BY <1>2, <3>1, <3>2
  <2>5. ASSUME NEW r \in a.rights
        PROVE  Kings(a.board, r[1]) = {<<Home[r[1]], 4>>}
    <3>1. r \in {"w", "b"} \X {"K", "Q"} /\ Kings(b, r[1]) = {<<Home[r[1]], 4>>}
      BY <1>3, <1>6, <2>1 DEF Castles, Rights
    <3>2. CASE r[1] = f
      BY <2>2, <3>1, <3>2
    <3>3. CASE r[1] = c
      <4>1. r \in {c} \X {"K", "Q"}
        BY <3>1, <3>3
      <4>2. type # "k"
        BY <1>6, <4>1
      <4> QED
        BY <1>1, <2>2, <3>1, <3>3, <4>2
    <3> QED
      BY <1>2, <3>1, <3>2, <3>3
  <2> QED
    BY <2>4, <2>5 DEF Castles
<1>13. Passed(a.board, a.passant, f)
  <2> SUFFICES ASSUME NEW u \in a.passant
               PROVE  u \in Squares /\ a.board[u] = None /\ a.board[<<u[1] - Ahead(f), u[2]>>] = <<Foe[f], "p">>
    BY DEF Passed
  <2>1. type = "p" /\ t[1] - s[1] \in {-2, 2} /\ u = <<s[1] + Ahead(c), s[2]>>
    BY <1>6, <1>8
  <2>2. s \in (0..7) \X (0..7) /\ Ahead(c) \in {1, -1} /\ Ahead(f) = -Ahead(c)
    BY <1>2 DEF Squares, Ahead
  <2>3. u \notin {s, t} /\ u \in Squares /\ <<u[1] - Ahead(f), u[2]>> = t
    <3>1. t = <<s[1] + 2 * Ahead(c), s[2]>> /\ u \in Squares
      BY <1>8, <2>1
    <3>2. u[1] # s[1] /\ u[1] # t[1] /\ u[1] - Ahead(f) = s[1] + 2 * Ahead(c)
      BY <2>1, <2>2, <3>1
    <3> QED
      BY <2>1, <3>1, <3>2
  <2>4. a.board = e /\ m.special = "plain"
    BY <1>5, <1>8, <2>1
  <2>5. a.board[u] = None
    BY <1>7, <1>8, <2>1, <2>3, <2>4
  <2>6. a.board[t] = <<c, "p">>
    BY <1>1, <1>2, <2>1, <2>4 DEF Shifted
  <2> QED
    BY <1>2, <2>3, <2>5, <2>6
<1>14. Position(a, f)
  <2>1. a.rights \subseteq Rights
    BY <1>3, <1>6
  <2> QED
    BY <1>2, <1>6, <1>9, <1>10, <1>11, <1>12, <1>13, <2>1 DEF Position
<1> QED
  BY <1>6, <1>14 DEF a, f

----------------------------------------------------------------------------
(* Games that differ in who is named as the mover, or in the record of moves. *)
Alike(g, h) ==
  /\ IsChess(g) /\ IsChess(h)
  /\ h.board = g.board /\ h.rights = g.rights /\ h.passant = g.passant /\ h.irregular = g.irregular

(* They have the same moves. *)
LEMMA AlikeMoves ==
  ASSUME NEW g, NEW h, Alike(g, h)
  PROVE  /\ \A s : getPseudoLegalMoves(h, s) = getPseudoLegalMoves(g, s)
         /\ \A c : isCheck(c, h) <=> isCheck(c, g)
<1>1. h.board = g.board /\ h.rights = g.rights /\ h.passant = g.passant
  BY DEF Alike
<1>2. ASSUME NEW s
      PROVE  PawnMoves(h, s) = PawnMoves(g, s) /\ CastleMoves(h, s) = CastleMoves(g, s)
  <2>1. PawnMoves(h, s) = PawnMoves(g, s)
    <3> DEFINE color(b) == b[s][1]
               ahead(b) == IF color(b) = "w" THEN <<-1, 0>> ELSE <<1, 0>>
               one(b) == Step(s, ahead(b), 1)
               two(b) == Step(s, ahead(b), 2)
               sides(b) == {<<one(b)[1], one(b)[2] + 1>>, <<one(b)[1], one(b)[2] - 1>>} \cap Squares
               walks(b) == IF one(b) \in Squares /\ b[one(b)] = None
                           THEN {one(b)} \cup (IF s[1] = Home[color(b)] + ahead(b)[1] /\ b[two(b)] = None
                                               THEN {two(b)} ELSE {})
                           ELSE {}
               moves(b, passant) ==
                 {Move(s, t, "plain") : t \in walks(b) \cup {t \in sides(b) : Holds(b, t, Foe[color(b)])}}
                   \cup {Move(s, t, "passant") : t \in sides(b) \cap passant}
    <3>1. \A x : PawnMoves(x, s) = moves(x.board, x.passant)
      BY Zenon DEF PawnMoves
    <3> HIDE DEF moves
    <3> QED
      BY <1>1, <3>1
  <2>2. CastleMoves(h, s) = CastleMoves(g, s)
    BY <1>1, Zenon DEF CastleMoves
  <2> QED
    BY <2>1, <2>2
<1>3. ASSUME NEW s
      PROVE  getPseudoLegalMoves(h, s) = getPseudoLegalMoves(g, s)
  BY <1>1, <1>2 DEF getPseudoLegalMoves
<1>4. ASSUME NEW c
      PROVE  isCheck(c, h) <=> isCheck(c, g)
  BY <1>1, <1>3, Zenon DEF isCheck, King
<1> QED
  BY <1>3, <1>4

(* What a move leads to is alike again. *)
LEMMA AlikeAfter ==
  ASSUME NEW g, NEW h, Alike(g, h), NEW m
  PROVE  /\ \A s, t : Alike(Moved(g, s, t), Moved(h, s, t))
         /\ Alike(After(g, m), After(h, m))
<1>1. ASSUME NEW x, NEW y, Alike(x, y), NEW b
      PROVE  Alike([x EXCEPT !.board = b], [y EXCEPT !.board = b])
  BY <1>1 DEF Alike, IsChess
<1>2. ASSUME NEW x, IsChess(x), NEW s, NEW t
      PROVE  Moved(x, s, t) = [x EXCEPT !.board = [x.board EXCEPT ![t] = x.board[s], ![s] = None]]
  BY <1>2 DEF Moved, IsChess
<1>3. ASSUME NEW s, NEW t
      PROVE  Alike(Moved(g, s, t), Moved(h, s, t))
  <2> DEFINE b == [g.board EXCEPT ![t] = g.board[s], ![s] = None]
  <2>1. h.board = g.board /\ IsChess(g) /\ IsChess(h)
    BY DEF Alike
  <2>2. Moved(g, s, t) = [g EXCEPT !.board = b] /\ Moved(h, s, t) = [h EXCEPT !.board = b]
    BY <1>2, <2>1
  <2> HIDE DEF b
  <2> QED
    BY <1>1, <2>2
<1>4. Alike(After(g, m), After(h, m))
  <2> DEFINE x == Moved(g, m.from, m.to)
             y == Moved(h, m.from, m.to)
             r == <<m.from[1], m.to[2]>>
  <2>1. Alike(x, y)
    BY <1>3
  <2>2. /\ After(g, m) = IF m.special = "passant" THEN [x EXCEPT !.board[r] = None] ELSE x
        /\ After(h, m) = IF m.special = "passant" THEN [y EXCEPT !.board[r] = None] ELSE y
    BY DEF After
  <2> HIDE DEF x, y, r
  <2>3. y.board = x.board /\ IsChess(x) /\ IsChess(y)
    BY <2>1 DEF Alike
  <2>4. /\ [x EXCEPT !.board[r] = None] = [x EXCEPT !.board = [x.board EXCEPT ![r] = None]]
        /\ [y EXCEPT !.board[r] = None] = [y EXCEPT !.board = [y.board EXCEPT ![r] = None]]
    BY <2>3 DEF IsChess
  <2> QED
    BY <1>1, <2>1, <2>2, <2>3, <2>4
<1> QED
  BY <1>3, <1>4

(* So they are stuck, or bare, together. *)
LEMMA AlikeStuck ==
  ASSUME NEW g, NEW h, Alike(g, h), NEW c
  PROVE  (Stuck(h, c) <=> Stuck(g, c)) /\ (Bare(h) <=> Bare(g))
<1>1. ASSUME NEW m
      PROVE  Legal(h, c, m) <=> Legal(g, c, m)
  <2>1. Alike(After(g, m), After(h, m)) /\ \A s, t : Alike(Moved(g, s, t), Moved(h, s, t))
    BY AlikeAfter
  <2>2. /\ isCheck(c, h) <=> isCheck(c, g)
        /\ isCheck(c, After(h, m)) <=> isCheck(c, After(g, m))
        /\ \A s, t : isCheck(c, Moved(h, s, t)) <=> isCheck(c, Moved(g, s, t))
    BY <2>1, AlikeMoves
  <2> QED
    BY <2>2, Zenon DEF Legal
<1>2. h.board = g.board /\ \A s : getPseudoLegalMoves(h, s) = getPseudoLegalMoves(g, s)
  BY AlikeMoves DEF Alike
<1> QED
  BY <1>1, <1>2, Zenon DEF Stuck, Bare

----------------------------------------------------------------------------
(* A king at home behind a row of men, with the enemy at the other end of the board. *)
LEMMA Sheltered ==
  ASSUME NEW e, NEW row \in {0, 7}, NEW f \in {"w", "b"},
         \A x \in Squares, t \in Types : e[x] = <<f, t>> => x[1] - row \notin -5..5,
         \A x \in Squares : x[1] - row \in {-1, 0, 1} /\ x[2] \in 3..5 => e[x] # None
  PROVE  ~Strikes(e, <<row, 4>>, f)
<1> DEFINE k == <<row, 4>>
<1>0. \A x \in Squares, t \in Types : e[x] = <<f, t>> => x[1] - row \notin -5..5
  OBVIOUS
<1>00. \A x \in Squares : x[1] - row \in {-1, 0, 1} /\ x[2] \in 3..5 => e[x] # None
  OBVIOUS
<1>1. k \in Squares /\ \A v, i : Step(k, v, i) = <<row + i * v[1], 4 + i * v[2]>>
  BY DEF Squares, Step
<1>2. "n" \in Types /\ "p" \in Types /\ "q" \in Types /\ "r" \in Types /\ "b" \in Types /\ "k" \in Types
  BY DEF Types
<1>3. ASSUME NEW v \in Rays \cup Leaps, NEW t \in Types, Step(k, v, 1) \in Squares, e[Step(k, v, 1)] = <<f, t>>
      PROVE  FALSE
  <2>1. v[1] \in -2..2 /\ v[2] \in -2..2
    BY WayBack
  <2>2. Step(k, v, 1)[1] = row + v[1]
    BY <1>1, <2>1
  <2>3. Step(k, v, 1)[1] - row \notin -5..5
    BY <1>0, <1>3
  <2> QED
    BY <2>1, <2>2, <2>3
<1>4. ASSUME NEW v \in Rays, NEW n \in 1..7, NEW t \in Types, Step(k, v, n) \in Squares, e[Step(k, v, n)] = <<f, t>>,
             Empty(e, Between(k, v, n))
      PROVE  FALSE
  <2> DEFINE x == v[1]
             y == v[2]
  <2>1. x \in {-1, 0, 1} /\ y \in {-1, 0, 1}
    BY WayBack
  <2>2. Step(k, v, n)[1] - row \notin -5..5
    BY <1>0, <1>4
  <2>3. n # 1
    BY <1>3, <1>4
  <2>4. 1 \in 1..n-1
    BY <2>3
  <2>5. Step(k, v, 1) \in Between(k, v, n)
    BY <2>4 DEF Between
  <2>6. Step(k, v, 1) \in Squares
    BY <1>1, <1>4, <2>5, BetweenSquares
  <2>7. Step(k, v, 1) = <<row + x, 4 + y>>
    <3> HIDE DEF x, y, k
    <3>1. Step(k, v, 1) = <<row + 1 * x, 4 + 1 * y>>
      BY <1>1 DEF x, y, k
    <3> QED
      BY <2>1, <3>1
  <2> HIDE DEF x, y, k
  <2>8. Step(k, v, 1)[1] - row \in {-1, 0, 1} /\ Step(k, v, 1)[2] \in 3..5
    BY <2>1, <2>7
  <2> QED
    BY <1>00, <1>4, <2>5, <2>6, <2>8 DEF Empty
<1> HIDE DEF k
<1>5. \A v : v \in Leaps \/ v \in Slanted \/ v \in Rays => v \in Rays \cup Leaps
  BY DEF Rays
<1>6. \A v : (IF v \in Straight THEN "r" ELSE "b") \in Types
  BY <1>2
<1>7. ~Strikes(e, k, f)
  <2>1. ~\E v \in Leaps : Step(k, v, 1) \in Squares /\ e[Step(k, v, 1)] = <<f, "n">>
    BY <1>2, <1>3, <1>5
  <2>2. ~\E v \in Slanted : /\ v[1] = (IF f = "w" THEN 1 ELSE -1)
                            /\ Step(k, v, 1) \in Squares /\ e[Step(k, v, 1)] = <<f, "p">>
    BY <1>2, <1>3, <1>5
  <2>3. ~\E v \in Rays, n \in 1..7 :
           /\ Step(k, v, n) \in Squares
           /\ Empty(e, Between(k, v, n))
           /\ \/ e[Step(k, v, n)] = <<f, "q">>
              \/ e[Step(k, v, n)] = <<f, IF v \in Straight THEN "r" ELSE "b">>
              \/ n = 1 /\ e[Step(k, v, n)] = <<f, "k">>
    BY <1>2, <1>4, <1>6
  <2> QED
    BY <2>1, <2>2, <2>3, StrikesFrom
<1> QED
  BY <1>7 DEF k

(* createInitialBoard, square by square. *)
LEMMA InitialSquares ==
  ASSUME ChessAssumption
  PROVE  /\ Sound(createInitialBoard)
         /\ \A s \in Squares :
              LET x == createInitialBoard[s]
              IN /\ s[1] \in {0, 1} => x \in {"b"} \X Types
                 /\ s[1] \in {6, 7} => x \in {"w"} \X Types
                 /\ s[1] \in 2..5 => x = None
                 /\ s[1] \in {1, 6} => x[2] = "p"
                 /\ s[1] \in {0, 7} => (x[2] = "k" <=> s[2] = 4)
<1> DEFINE I == createInitialBoard
<1>1. ASSUME NEW i \in 0..7
      PROVE  Main[i + 1] \in {"r", "n", "b", "q", "k"} /\ (Main[i + 1] = "k" <=> i = 4)
  BY DEF Main
<1>2. DOMAIN I = Squares
  BY DEF createInitialBoard
<1>3. ASSUME NEW s \in Squares
      PROVE  /\ s[1] \in {0, 7} => I[s] = <<IF s[1] = 0 THEN "b" ELSE "w", Main[s[2] + 1]>>
             /\ s[1] \in {1, 6} => I[s] = <<IF s[1] = 1 THEN "b" ELSE "w", "p">>
             /\ s[1] \in 2..5 => I[s] = None
             /\ s[1] \in 0..7 /\ s[2] \in 0..7
  <2>1. s[1] \in 0..7 /\ s[2] \in 0..7
    BY DEF Squares
  <2>2. I[s] = CASE s[1] \in {0, 7} -> <<IF s[1] = 0 THEN "b" ELSE "w", Main[s[2] + 1]>>
                 [] s[1] \in {1, 6} -> <<IF s[1] = 1 THEN "b" ELSE "w", "p">>
                 [] OTHER -> None
    BY DEF createInitialBoard
  <2> HIDE DEF I
  <2> QED
    BY <2>1, <2>2
<1> HIDE DEF I
<1>4. ASSUME NEW s \in Squares
      PROVE  /\ s[1] \in {0, 1} => I[s] \in {"b"} \X Types
             /\ s[1] \in {6, 7} => I[s] \in {"w"} \X Types
             /\ s[1] \in 2..5 => I[s] = None
             /\ s[1] \in {1, 6} => I[s][2] = "p"
             /\ s[1] \in {0, 7} => (I[s][2] = "k" <=> s[2] = 4)
  <2>1. s[1] \in 0..7 /\ s[2] \in 0..7
    BY <1>3
  <2>2. CASE s[1] \in {0, 7}
    BY <1>1, <1>3, <2>1, <2>2 DEF Types
  <2>3. CASE s[1] \in {1, 6}
    BY <1>3, <2>3 DEF Types
  <2>4. CASE s[1] \in 2..5
    BY <1>3, <2>4
  <2> QED
    BY <2>1, <2>2, <2>3, <2>4
<1>5. \A s \in Squares : s[1] \in {0, 1} \/ s[1] \in {6, 7} \/ s[1] \in 2..5
  BY DEF Squares
<1>6. Sound(I)
  BY <1>2, <1>4, <1>5 DEF Sound, Men, Types
<1> QED
  BY <1>4, <1>6 DEF I

(* The opening board, with or without the advance of White's first pawn. *)
Advanced(e) ==
  \A s \in Squares : \/ e[s] = createInitialBoard[s]
                     \/ s = <<6, 0>> /\ e[s] = None
                     \/ s = <<5, 0>> /\ e[s] = <<"w", "p">>

(* Its kings are safe. *)
LEMMA OpeningKings ==
  ASSUME ChessAssumption
  PROVE  /\ Kings(createInitialBoard, "w") = {<<7, 4>>} /\ Kings(createInitialBoard, "b") = {<<0, 4>>}
         /\ Safe(createInitialBoard, "b")
         /\ \A e : Advanced(e) => Safe(e, "w") /\ Kings(e, "w") = {<<7, 4>>}
<1> DEFINE I == createInitialBoard
<1>1. Sound(I) /\ \A s \in Squares :
        /\ s[1] \in {0, 1} => I[s] \in {"b"} \X Types
        /\ s[1] \in {6, 7} => I[s] \in {"w"} \X Types
        /\ s[1] \in 2..5 => I[s] = None
        /\ s[1] \in {1, 6} => I[s][2] = "p"
        /\ s[1] \in {0, 7} => (I[s][2] = "k" <=> s[2] = 4)
  BY InitialSquares
<1>2. \A s \in Squares : /\ s = <<s[1], s[2]>> /\ s[1] \in 0..7 /\ s[2] \in 0..7
                         /\ s[1] \in {0, 1} \/ s[1] \in {6, 7} \/ s[1] \in 2..5
  BY DEF Squares
<1>3. <<7, 4>> \in Squares /\ <<0, 4>> \in Squares /\ "k" \in Types /\ "w" # "b"
  BY DEF Squares, Types
<1>4. \A c \in {"w", "b"}, t \in Types : <<c, t>> # None
  BY NoPiece
<1> HIDE DEF I
<1>5. ASSUME NEW s \in Squares
      PROVE  (I[s] = <<"w", "k">> <=> s = <<7, 4>>) /\ (I[s] = <<"b", "k">> <=> s = <<0, 4>>)
  <2>1. s = <<s[1], s[2]>> /\ s[1] \in 0..7
    BY <1>2
  <2>2. CASE s[1] \in 2..5
    <3>1. I[s] = None
      BY <1>1, <2>2
    <3> QED
      BY <1>3, <1>4, <2>1, <2>2, <3>1
  <2>3. CASE s[1] \in {0, 1}
    <3>1. I[s] = <<"b", I[s][2]>>
      BY <1>1, <2>3
    <3>2. I[s][2] = "k" <=> s[1] = 0 /\ s[2] = 4
      BY <1>1, <2>3
    <3> QED
      BY <1>3, <2>1, <2>3, <3>1, <3>2
  <2>4. CASE s[1] \in {6, 7}
    <3>1. I[s] = <<"w", I[s][2]>>
      BY <1>1, <2>4
    <3>2. I[s][2] = "k" <=> s[1] = 7 /\ s[2] = 4
      BY <1>1, <2>4
    <3> QED
      BY <1>3, <2>1, <2>4, <3>1, <3>2
  <2> QED
    BY <2>1, <2>2, <2>3, <2>4
<1>6. Kings(I, "w") = {<<7, 4>>} /\ Kings(I, "b") = {<<0, 4>>}
  BY <1>3, <1>5 DEF Kings
<1>7. Safe(I, "b")
  <2>1. \A x \in Squares, t \in Types : I[x] = <<"w", t>> => x[1] - 0 \notin -5..5
    <3> SUFFICES ASSUME NEW x \in Squares, NEW t \in Types, I[x] = <<"w", t>>
                 PROVE  x[1] - 0 \notin -5..5
      OBVIOUS
    <3>1. x[1] \notin 2..5
      BY <1>1, <1>4
    <3>2. x[1] \notin {0, 1}
      BY <1>1, <1>3
    <3> QED
      BY <1>2, <3>1, <3>2
  <2>2. \A x \in Squares : x[1] - 0 \in {-1, 0, 1} /\ x[2] \in 3..5 => I[x] # None
    <3> SUFFICES ASSUME NEW x \in Squares, x[1] - 0 \in {-1, 0, 1}
                 PROVE  I[x] # None
      OBVIOUS
    <3>1. x[1] \in {0, 1}
      BY <1>2
    <3> QED
      BY <1>1, <1>4, <3>1
  <2>3. ~Strikes(I, <<0, 4>>, "w")
    BY <2>1, <2>2, Sheltered
  <2> QED
    BY <1>6, <2>3, Colors DEF Safe
<1>8. ASSUME NEW e,
             \A s \in Squares : e[s] = I[s] \/ (s = <<6, 0>> /\ e[s] = None) \/ (s = <<5, 0>> /\ e[s] = <<"w", "p">>)
      PROVE  Safe(e, "w") /\ Kings(e, "w") = {<<7, 4>>}
  <2>0. <<"w", "p">> # <<"w", "k">> /\ <<"w", "k">> # None
    BY <1>3, <1>4
  <2>1. Kings(e, "w") = {<<7, 4>>}
    <3>1. \A s \in Squares : e[s] = <<"w", "k">> => I[s] = <<"w", "k">>
      BY <1>8, <2>0
    <3>2. e[<<7, 4>>] = <<"w", "k">>
      BY <1>3, <1>5, <1>8
    <3> QED
      BY <1>3, <1>5, <3>1, <3>2 DEF Kings
  <2>2. ASSUME NEW x \in Squares, NEW t \in Types, e[x] = <<"b", t>>
        PROVE  x[1] - 7 \notin -5..5
    <3>1. e[x] # None /\ e[x] # <<"w", "p">>
      BY <1>3, <1>4, <2>2
    <3>2. I[x] = <<"b", t>>
      BY <1>8, <2>2, <3>1
    <3>3. x[1] \notin 2..5
      BY <1>1, <1>4, <3>2
    <3>4. x[1] \notin {6, 7}
      BY <1>1, <1>3, <3>2
    <3> QED
      BY <1>2, <3>3, <3>4
  <2>3. ASSUME NEW x \in Squares, x[1] - 7 \in {-1, 0, 1}, x[2] \in 3..5
        PROVE  e[x] # None
    <3>1. x[1] \in {6, 7}
      BY <1>2, <2>3
    <3>2. I[x] # None
      BY <1>1, <1>4, <3>1
    <3>3. x # <<6, 0>> /\ x # <<5, 0>>
      BY <2>3
    <3> QED
      BY <1>8, <3>2, <3>3
  <2>4. ~Strikes(e, <<7, 4>>, "b")
    BY <2>2, <2>3, Sheltered
  <2> QED
    BY <2>1, <2>4, Colors DEF Safe
<1> QED
  BY <1>6, <1>7, <1>8 DEF Advanced, I

(* The new document: a position with White to move, who can move, and more than two pieces. *)
LEMMA Opening ==
  ASSUME ChessAssumption, NEW g, IsChess(g), g.board = createInitialBoard, g.rights = Rights, g.passant = {}, g.irregular = FALSE
  PROVE  Position(g, "w") /\ ~Stuck(g, "w") /\ ~Bare(g)
<1> DEFINE I == createInitialBoard
           s == <<6, 0>>
           t == <<5, 0>>
           m == Move(s, t, "plain")
           e == After(g, m).board
<1>1. /\ Sound(I) /\ Kings(I, "w") = {<<7, 4>>} /\ Kings(I, "b") = {<<0, 4>>} /\ Safe(I, "b")
  BY InitialSquares, OpeningKings
<1>2. /\ s \in Squares /\ t \in Squares /\ I[s] = <<"w", "p">> /\ I[t] = None
  <2>1. s \in Squares /\ t \in Squares
    BY DEF Squares
  <2>2. I[s] \in {"w"} \X Types /\ I[s][2] = "p" /\ I[t] = None
    BY <2>1, InitialSquares
  <2> QED
    BY <2>1, <2>2
<1>3. Position(g, "w")
  <2>1. Lone(I, "w") /\ Lone(I, "b")
    <3>1. <<7, 4>> \in Squares /\ <<0, 4>> \in Squares
      BY DEF Squares
    <3> HIDE DEF I
    <3> QED
      BY <1>1, <3>1 DEF Lone
  <2>2. \A r \in Rights : r[1] \in {"w", "b"}
    BY DEF Rights
  <2>3. Castles(I, Rights)
    BY <1>1, <2>2, Colors DEF Castles
  <2>4. Passed(I, {}, "w")
    BY DEF Passed
  <2> HIDE DEF I
  <2> QED
    BY <1>1, <2>1, <2>3, <2>4, Colors DEF Position, I, Lone
<1>4. Holds(g.board, s, "w") /\ g.board[s][2] = "p"
  <2>1. <<"w", "p">> # None
    BY NoPiece DEF Types
  <2> QED
    BY <1>2, <2>1 DEF Holds
<1>5. PawnWalk(g.board, s, "w", t)
  <2>1. t = <<s[1] + Ahead("w"), s[2]>>
    BY DEF Ahead
  <2> HIDE DEF s, t
  <2> QED
    BY <1>2, <2>1 DEF PawnWalk
<1>6. m \in getPseudoLegalMoves(g, s)
  <2>1. Walks(g, s, "w", m)
    BY <1>4, <1>5 DEF Walks
  <2> HIDE DEF s, t, m
  <2> QED
    BY <1>1, <1>4, <2>1, MovesAre
<1>7. m.from = s /\ m.to = t /\ m.special = "plain"
  BY DEF Move
<1>8. Safe(e, "w") /\ Sound(e) /\ Lone(e, "w")
  <2>1. /\ Shifted(g.board, e, s, t)
        /\ \A x \in Squares \ {s, t} : e[x] = g.board[x]
    <3>1. m.special # "passant"
      BY <1>7
    <3> HIDE DEF m, s
    <3> QED
      BY <1>3, <1>4, <1>6, <1>7, <3>1, AfterShifts
  <2>2. e[s] = None /\ e[t] = <<"w", "p">> /\ Sound(e)
    BY <1>2, <2>1 DEF Shifted
  <2> HIDE DEF e, I
  <2>3. ASSUME NEW x \in Squares
        PROVE  e[x] = I[x] \/ (x = s /\ e[x] = None) \/ (x = t /\ e[x] = <<"w", "p">>)
    <3> HIDE DEF s, t
    <3>1. x \notin {s, t} => e[x] = I[x]
      BY <2>1 DEF I
    <3> QED
      BY <2>2, <3>1
  <2>4. Advanced(e)
    BY <2>3 DEF Advanced, I
  <2>5. <<7, 4>> \in Squares
    BY DEF Squares
  <2> QED
    BY <2>2, <2>4, <2>5, OpeningKings DEF Lone
<1>9. ~Stuck(g, "w")
  <2> HIDE DEF m, s
  <2>1. ~isCheck("w", After(g, m))
    BY <1>8, CheckStrikes DEF Safe, Kings
  <2>2. Legal(g, "w", m)
    BY <1>7, <2>1 DEF Legal
  <2> QED
    BY <1>2, <1>4, <1>6, <2>2 DEF Stuck
<1>10. ~Bare(g)
  <2> DEFINE S == {x \in Squares : g.board[x] # None}
             T == {<<7, 4>>, <<0, 4>>}
  <2>1. IsFiniteSet(S)
    <3>1. IsFiniteSet(0..7)
      <4>1. 0 \in Int /\ 7 \in Int
        OBVIOUS
      <4> QED
        BY <4>1, FS_Interval
    <3>2. IsFiniteSet(Squares)
      BY <3>1, FS_Product DEF Squares
    <3> QED
      BY <3>2, FS_Subset
  <2>2. T \subseteq S
    <3>1. <<"w", "k">> # None /\ <<"b", "k">> # None
      BY NoPiece DEF Types
    <3>2. <<7, 4>> \in Kings(I, "w") /\ <<0, 4>> \in Kings(I, "b")
      BY <1>1
    <3> QED
      BY <3>1, <3>2 DEF Kings
  <2>3. s \in S /\ s \notin T
    BY <1>4 DEF Holds
  <2>4. Cardinality(T) = 2
    <3>1. IsFiniteSet({<<7, 4>>}) /\ Cardinality({<<7, 4>>}) = 1
      BY FS_Singleton
    <3> DEFINE A == {<<7, 4>>}
               z == <<0, 4>>
    <3>2. T = A \cup {z} /\ z \notin A
      OBVIOUS
    <3> HIDE DEF A, z, T
    <3>3. Cardinality(A \cup {z}) = Cardinality(A) + 1
      BY <3>1, <3>2, FS_AddElement DEF A
    <3> QED
      BY <3>1, <3>2, <3>3 DEF A
  <2> HIDE DEF S, T, s
  <2>5. Cardinality(S) # 2
    BY <2>1, <2>2, <2>3, <2>4, FS_Subset
  <2> QED
    BY <2>5 DEF Bare, S
<1> QED
  BY <1>3, <1>9, <1>10

----------------------------------------------------------------------------
(* What the room says of a position with c to move, against o. *)
Ruled(g, c, status, winner, o) ==
  /\ Position(g, c)
  /\ status # "finished" => ~Stuck(g, c) /\ ~Bare(g)
  /\ Stuck(g, c) /\ status = "finished" => winner = IF isCheck(c, g) THEN o ELSE None
Match(d) ==
  LET s == d.room.players
      p == d.game.mover
  IN /\ d.room.gameReady /\ Len(s) > 1 /\ p \in {s[1], s[2]}
     /\ Ruled(d.game, Color(d, p), d.room.status, d.room.winner, IF p = s[1] THEN s[2] ELSE s[1])
ChessInv(d) == Orderly(d.room.players) /\ (d.game = NoGame \/ Match(d))

(* The two who play. *)
LEMMA TwoPlayers ==
  ASSUME NEW s, Orderly(s), Len(s) > 1
  PROVE  /\ 1 \in DOMAIN s /\ 2 \in DOMAIN s /\ s[1] # s[2] /\ s[1] \in Players /\ s[2] \in Players
         /\ DOMAIN s \subseteq Nat /\ \A i \in DOMAIN s : i >= 1
<1>1. s \in Seq(Players)
  BY DEF Orderly
<1>2. Len(s) \in Nat /\ DOMAIN s = 1..Len(s) /\ \A i \in DOMAIN s : s[i] \in Players
  BY <1>1
<1>3. 1 \in DOMAIN s /\ 2 \in DOMAIN s
  BY <1>2
<1>4. s[1] = s[2] => 1 = 2
  BY <1>3 DEF Orderly
<1> QED
  BY <1>2, <1>3, <1>4

(* Opponent, of the two who play. *)
LEMMA Opponents ==
  ASSUME NEW d, Orderly(d.room.players), Len(d.room.players) > 1
  PROVE  /\ Opponent(d, d.room.players[1]) = d.room.players[2]
         /\ Opponent(d, d.room.players[2]) = d.room.players[1]
<1> DEFINE s == d.room.players
           First(p, i) == s[i] # p /\ \A j \in 1..i-1 : s[j] = p
<1>1. /\ 1 \in DOMAIN s /\ 2 \in DOMAIN s /\ s[1] # s[2]
      /\ DOMAIN s \subseteq Nat /\ \A i \in DOMAIN s : i >= 1
  BY TwoPlayers
<1>2. \A p : Opponent(d, p) = s[CHOOSE i \in DOMAIN s : First(p, i)]
  BY DEF Opponent
<1> HIDE DEF s
<1>3. \A i \in DOMAIN s : First(s[1], i) <=> i = 2
  <2> SUFFICES ASSUME NEW i \in DOMAIN s PROVE First(s[1], i) <=> i = 2
    OBVIOUS
  <2>1. i \in Nat /\ i >= 1
    BY <1>1
  <2>2. i > 2 => 2 \in 1..i-1
    BY <2>1
  <2> QED
    BY <1>1, <2>1, <2>2
<1>4. \A i \in DOMAIN s : First(s[2], i) <=> i = 1
  <2> SUFFICES ASSUME NEW i \in DOMAIN s PROVE First(s[2], i) <=> i = 1
    OBVIOUS
  <2>1. i \in Nat /\ i >= 1
    BY <1>1
  <2>2. i > 1 => 1 \in 1..i-1
    BY <2>1
  <2> QED
    BY <1>1, <2>1, <2>2
<1> HIDE DEF First
<1>5. (CHOOSE i \in DOMAIN s : First(s[1], i)) = 2 /\ (CHOOSE i \in DOMAIN s : First(s[2], i)) = 1
  BY <1>1, <1>3, <1>4
<1> QED
  BY <1>2, <1>5 DEF s

(* What leaves the document alone, or deals, keeps the invariant. *)
LEMMA QuietChess ==
  ASSUME ChessInv(db), Quiet(db, db')
  PROVE  ChessInv(db')
<1>1. Orderly(db'.room.players) /\ db'.game = db.game
  BY DEF ChessInv, Quiet, Result
<1>2. CASE Match(db)
  <2>1. /\ db'.room.gameReady /\ db'.room.players = db.room.players
        /\ db.room.status = "finished" => db'.room.status = "finished" /\ db'.room.winner = db.room.winner
    BY <1>2 DEF Match, Quiet, Result
  <2>2. ASSUME NEW g, NEW c, NEW o, NEW s, NEW w, Ruled(g, c, db.room.status, db.room.winner, o),
               db.room.status = "finished" => s = "finished" /\ w = db.room.winner
        PROVE  Ruled(g, c, s, w, o)
    BY <2>2 DEF Ruled
  <2>3. Match(db')
    BY <1>1, <1>2, <2>1, <2>2 DEF Match, Color
  <2> QED
    BY <1>1, <2>3 DEF ChessInv
<1>3. CASE db.game = NoGame
  BY <1>1, <1>3 DEF ChessInv
<1> QED
  BY <1>2, <1>3 DEF ChessInv

(* A match begins with the opening board. *)
LEMMA DealsChess ==
  ASSUME ChessAssumption, ChessInv(db), Dealt(db, db', {NewGame(db)})
  PROVE  ChessInv(db')
<1> DEFINE s == db.room.players
           g == db'.game
<1>1. Orderly(s) /\ Len(s) > 1 /\ db'.room.players = s /\ db'.room.gameReady
      /\ g = NewGame(db) /\ db'.room.status = "started"
  BY DEF ChessInv, Dealt
<1>2. /\ IsChess(g) /\ g.board = createInitialBoard /\ g.rights = Rights /\ g.passant = {}
      /\ g.mover = s[1] /\ g.irregular = FALSE
  BY <1>1 DEF NewGame, IsChess
<1>3. Position(g, "w") /\ ~Stuck(g, "w") /\ ~Bare(g)
  BY <1>2, Opening
<1>4. Color(db', s[1]) = "w"
  BY <1>1 DEF Color
<1>5. \A w, o : Ruled(g, "w", "started", w, o)
  BY <1>3 DEF Ruled
<1> QED
  BY <1>1, <1>2, <1>4, <1>5 DEF ChessInv, Match

(* Games that are alike are positions together. *)
LEMMA AlikePosition ==
  ASSUME NEW g, NEW h, Alike(g, h), NEW c, Position(g, c)
  PROVE  Position(h, c)
BY DEF Alike, Position

(* handleMove: the move ends the match, or the turn passes. *)
LEMMA MovesChess ==
  ASSUME ChessAssumption, Good(db, sweep), ChessInv(db), NEW p \in Players, NEW promotion \in Promotions,
         InPlay(db), db.game.mover = p, NEW s \in Squares, Holds(db.game.board, s, Color(db, p)),
         NEW m \in getLegalMoves(db.game, s, Color(db, p)), handleMove(p, m, promotion)
  PROVE  ChessInv(db')
<1> DEFINE x == db.room.players[1]
           y == db.room.players[2]
           c == Color(db, p)
           f == Foe[c]
           foe == Opponent(db, p)
           g == applyMove(db.game, m, promotion)
           h == [g EXCEPT !.mover = foe]
           moved == [db EXCEPT !.game = g]
           after == PassTurn(moved, foe)
<1>1. Match(db) /\ Orderly(db.room.players) /\ Fields(db) /\ db.room.status = "started"
  <2>1. db.game # NoGame
    BY RoomsAssumption DEF NoGame
  <2> QED
    BY <2>1, GoodShape DEF ChessInv, Fields, Shape, InPlay
<1>2. /\ p \in {x, y} /\ x # y /\ foe = (IF p = x THEN y ELSE x)
      /\ c \in {"w", "b"} /\ Position(db.game, c)
  <2>1. Len(db.room.players) > 1 /\ p \in {x, y}
    BY <1>1 DEF Match
  <2>2. x # y
    BY <1>1, <2>1, TwoPlayers
  <2>3. foe = (IF p = x THEN y ELSE x)
    BY <1>1, <2>1, <2>2, Opponents
  <2>4. c \in {"w", "b"}
    BY DEF Color
  <2>5. Position(db.game, c)
    BY <1>1 DEF Match, Ruled
  <2> QED
    BY <2>1, <2>2, <2>3, <2>4, <2>5
<1>3. /\ foe # p /\ p = (IF foe = x THEN y ELSE x) /\ foe \in {x, y}
      /\ Color(db, foe) = f
  <2>1. c = IF p = x THEN "w" ELSE "b"
    BY DEF Color
  <2>2. Color(db, foe) = IF foe = x THEN "w" ELSE "b"
    BY DEF Color
  <2> HIDE DEF x, y, foe, c
  <2> QED
    BY <1>2, <2>1, <2>2, Colors
<1>4. Position(g, f)
  BY <1>2, Applied
<1>5. IsChess(g)
  BY <1>4 DEF Position
<1>6. Commit(IF Checkmate(g, f) THEN Finish(after, p)
             ELSE IF Stuck(g, f) \/ Bare(g) THEN Finish(after, None) ELSE after)
  BY <1>3 DEF handleMove
<1> HIDE DEF g, foe, c, f
<1>7. Fields(moved) /\ moved.room = db.room /\ moved.game = g
  BY <1>1 DEF Fields
<1>8. h.mover = foe /\ Alike(g, h)
  BY <1>5 DEF Alike, IsChess
<1> HIDE DEF h, moved
<1>9. Fields(after) /\ after.room = db.room /\ after.game = h
  BY <1>7 DEF PassTurn, NewTurn, Schedule, Fields, h
<1> HIDE DEF after, x, y
<1>10. /\ Position(h, f) /\ (Stuck(h, f) <=> Stuck(g, f)) /\ (Bare(h) <=> Bare(g))
       /\ isCheck(f, h) <=> isCheck(f, g)
  BY <1>4, <1>8, AlikePosition, AlikeStuck, AlikeMoves
<1>11. ASSUME NEW e, Commit(e), Fields(e), e.game = h,
              e.room.players = db.room.players, e.room.gameReady = db.room.gameReady,
              Ruled(h, f, e.room.status, e.room.winner, p)
       PROVE  ChessInv(db')
  <2>1. /\ db'.game = h /\ db'.room.status = e.room.status /\ db'.room.winner = e.room.winner
        /\ db'.room.players = db.room.players /\ db'.room.gameReady = db.room.gameReady
    BY <1>11, SettleQuiet DEF Commit
  <2>2. Color(db', foe) = f
    BY <1>3, <2>1 DEF Color
  <2>3. Match(db')
    BY <1>1, <1>3, <1>8, <1>11, <2>1, <2>2 DEF Match, x, y
  <2> QED
    BY <1>1, <2>1, <2>3 DEF ChessInv
<1>12. ASSUME NEW w
       PROVE  LET e == Finish(after, w)
              IN /\ Fields(e) /\ e.game = h
                 /\ e.room.players = db.room.players /\ e.room.gameReady = db.room.gameReady
                 /\ e.room.status = "finished" /\ e.room.winner = w
  BY <1>1, <1>9 DEF Finish, Fields
<1>13. CASE Checkmate(g, f)
  <2>1. Ruled(h, f, "finished", p, p)
    BY <1>10, <1>13 DEF Ruled, Checkmate
  <2> QED
    BY <1>6, <1>11, <1>12, <1>13, <2>1
<1>14. CASE ~Checkmate(g, f) /\ (Stuck(g, f) \/ Bare(g))
  <2>1. Ruled(h, f, "finished", None, p)
    BY <1>10, <1>14 DEF Ruled, Checkmate
  <2> QED
    BY <1>6, <1>11, <1>12, <1>14, <2>1
<1>15. CASE ~Checkmate(g, f) /\ ~(Stuck(g, f) \/ Bare(g))
  <2>1. Ruled(h, f, after.room.status, after.room.winner, p)
    BY <1>1, <1>9, <1>10, <1>15 DEF Ruled
  <2> QED
    BY <1>6, <1>9, <1>11, <1>15, <2>1
<1> QED
  BY <1>13, <1>14, <1>15

(* All steps. *)
LEMMA NextChess ==
  ASSUME ChessAssumption, Good(db, sweep), ChessInv(db), [Next]_vars
  PROVE  ChessInv(db')
<1>1. CASE UNCHANGED vars
  BY <1>1 DEF vars
<1>2. CASE RoomStep \/ \E p \in Players : markReady(p)
  BY <1>2, RoomStepQuiet, markReadyQuiet, QuietChess
<1>3. CASE \E p \in Players : handleJoin(p)
  <2>1. PICK p \in Players : Join(p, 2, {NewGame(db)}, TRUE)
    BY <1>3 DEF handleJoin
  <2>2. 2 \in Nat \ {0, 1}
    OBVIOUS
  <2>3. Quiet(db, db') \/ Dealt(db, db', {NewGame(db)})
    BY <2>1, <2>2, JoinSeen
  <2> QED
    BY <2>3, QuietChess, DealsChess
<1>4. CASE tryStartChessGame
  <2>1. 2 \in Nat \ {0, 1}
    OBVIOUS
  <2> QED
    BY <1>4, <2>1, tryStartSeen, DealsChess DEF tryStartChessGame
<1>5. CASE \E p \in Players : handleDisconnect(p)
  BY <1>5, AbsenceQuiet, QuietChess DEF handleDisconnect
<1>6. Open(db) => \A p, q : Quiet(db, Resign(db, p)) /\ Quiet(db, Timeout(db, q))
  <2> SUFFICES ASSUME Open(db), NEW p, NEW q PROVE Quiet(db, Resign(db, p)) /\ Quiet(db, Timeout(db, q))
    OBVIOUS
  <2> DEFINE e == Finish(db, Opponent(db, db.game.mover))
  <2>1. Quiet(db, e) /\ Quiet(db, Resign(db, p))
    BY GoodShape, FinishQuiet DEF Open, Fields, Shape, Resign
  <2> HIDE DEF e
  <2>2. Quiet(e, Unschedule(e))
    BY <2>1, FieldsSteps DEF Quiet
  <2> QED
    BY <2>1, <2>2, QuietAgain DEF Timeout, e
<1>7. InPlay(db) => Open(db)
  BY DEF InPlay, Open
<1>8. CASE \E p \in Players : LeaveRoom(p)
  BY <1>6, <1>8, LeaveQuiet, QuietChess DEF LeaveRoom
<1>9. CASE executeForfeit \/ executeTurnTimeout
  BY <1>6, <1>7, <1>9, HandlerQuiet, QuietChess DEF executeForfeit, executeTurnTimeout, Sweepers
<1>10. CASE \E p \in Players, promotion \in Promotions :
              /\ InPlay(db) /\ p \in Seated(db) \cap online /\ db.game.mover = p
              /\ \E s \in Squares :
                   /\ Holds(db.game.board, s, Color(db, p))
                   /\ \E m \in getLegalMoves(db.game, s, Color(db, p)) :
                        /\ FirstFound(m, getLegalMoves(db.game, s, Color(db, p)))
                        /\ handleMove(p, m, promotion)
  BY <1>10, MovesChess
<1> QED
  BY <1>1, <1>2, <1>3, <1>4, <1>5, <1>8, <1>9, <1>10 DEF Next

(* getLegalMoves, applyMove and handleMove, on every board that moves lead to, for any number of    *)
(* moves and whatever the clients make of their pawns: no side loses its last king, the side that   *)
(* has moved has not left an only king open to capture, and while the match goes on the side to     *)
(* move can. With the promotions that the rules name each side has one king, a right to castle   *)
(* is a king's at home, and a match that ends on the board is lost if the king of the side to move  *)
(* is attacked, drawn if not.                                                                       *)
THEOREM ChessKingsSafe == ASSUME ChessAssumption PROVE Spec => []KingsSafe
<1>1. Init => ChessInv(db)
  <2> SUFFICES ASSUME Init PROVE ChessInv(db)
    OBVIOUS
  <2>1. db.room.players = <<>> /\ db.game = NoGame
    BY DEF Init, NoRoom
  <2> QED
    BY <2>1, RoomsAssumption DEF ChessInv, Orderly
<1>2. Good(db, sweep) /\ ChessInv(db) /\ [Next]_vars => ChessInv(db)'
  BY NextChess
<1>3. ChessInv(db) => KingsSafe
  <2> SUFFICES ASSUME ChessInv(db), IsChess(db.game)
               PROVE  KingsSafe
    BY DEF KingsSafe
  <2> DEFINE g == db.game
             p == g.mover
             turn == Color(db, p)
             rested == Foe[turn]
             b == g.board
             o == IF p = db.room.players[1] THEN db.room.players[2] ELSE db.room.players[1]
  <2>1. g # NoGame
    BY DEF IsChess, NoGame
  <2>2. Match(db) /\ Orderly(db.room.players)
    BY <2>1 DEF ChessInv
  <2>3. Ruled(g, turn, db.room.status, db.room.winner, o) /\ o = Opponent(db, p)
    <3>1. Ruled(g, turn, db.room.status, db.room.winner, o)
      BY <2>2 DEF Match
    <3>2. Len(db.room.players) > 1 /\ p \in {db.room.players[1], db.room.players[2]}
      BY <2>2 DEF Match
    <3>3. o = Opponent(db, p)
      BY <2>2, <3>2, Opponents, TwoPlayers
    <3> QED
      BY <3>1, <3>3
  <2>4. \A c : King(g, c) = Kings(b, c)
    BY DEF King, Kings
  <2>5. \A k, c : Attacked(g, k, c) <=> Strikes(b, k, c)
    BY DEF Strikes, Attacked
  <2> HIDE DEF g, p, turn, o, b
  <2>6. Position(g, turn)
    BY <2>3 DEF Ruled
  <2>7. turn \in {"w", "b"} /\ Foe[rested] = turn /\ Sound(b)
    BY <2>6, Colors DEF Position, b
  <2>8. ASSUME ~g.irregular
        PROVE  /\ \A c \in {"w", "b"} : Cardinality(King(g, c)) = 1
               /\ \A r \in g.rights : King(g, r[1]) = {<<Home[r[1]], 4>>}
               /\ Stuck(g, turn) /\ db.room.status = "finished" =>
                    IF \E k \in King(g, turn) : Attacked(g, k, rested)
                    THEN db.room.winner = Opponent(db, p) ELSE db.room.winner = None
    <3>1. (\A x \in {"w", "b"} : Lone(b, x)) /\ Castles(b, g.rights)
      BY <2>6, <2>8 DEF Position, b
    <3>2. ASSUME NEW c \in {"w", "b"}
          PROVE  Cardinality(King(g, c)) = 1
      <4>1. PICK k : Kings(b, c) = {k}
        BY <3>1 DEF Lone
      <4> QED
        BY <2>4, <4>1, FS_Singleton
    <3>3. \A r \in g.rights : King(g, r[1]) = {<<Home[r[1]], 4>>}
      BY <2>4, <3>1 DEF Castles
    <3>4. isCheck(turn, g) <=> \E k \in King(g, turn) : Attacked(g, k, rested)
      <4>1. isCheck(turn, g) <=> \E k \in Squares : b[k] = <<turn, "k">> /\ Strikes(b, k, rested)
        BY <2>7, <3>1, CheckStrikes DEF b
      <4> QED
        BY <2>4, <2>5, <4>1 DEF Kings
    <3> QED
      BY <2>3, <3>2, <3>3, <3>4 DEF Ruled
  <2>9. \A c \in {"w", "b"} : King(g, c) # {}
    BY <2>4, <2>6 DEF Position, b
  <2>10. \A k \in King(g, rested) : King(g, rested) = {k} => ~Attacked(g, k, turn)
    <3> SUFFICES ASSUME NEW k \in King(g, rested), King(g, rested) = {k} PROVE ~Attacked(g, k, turn)
      OBVIOUS
    <3>1. k \in Squares /\ Kings(b, rested) = {k}
      BY <2>4 DEF Kings
    <3>2. Safe(b, rested)
      BY <2>6, <3>1 DEF Position, Lone, b
    <3> QED
      BY <2>5, <2>7, <3>1, <3>2 DEF Safe
  <2>11. InPlay(db) => ~Stuck(g, turn) /\ ~Bare(g)
    BY <2>3 DEF Ruled, InPlay
  <2> QED
    BY <2>8, <2>9, <2>10, <2>11 DEF KingsSafe, g, p, turn
<1> QED
  BY <1>1, <1>2, <1>3, ChessGood, PTL DEF Spec
=============================================================================
