--------------------------- MODULE DominoProofs ---------------------------
(* The stakes, the countdowns and the tiles of a room of domino, for any stake,  *)
(* fee, set of tiles and number of players.                                     *)
EXTENDS Domino, GameRoomsProofs

(* getDominoGameResult at the end of a handler, and the turn that passes. *)
LEMMA ConcludePlays ==
  ASSUME NEW d, OpenBooks(d), NEW e, Turned(d, e)
  PROVE  Plays(d, Conclude(e))
<1>1. Shape(d)
  BY DEF OpenBooks, Held
<1>2. \/ \E w : Conclude(e) = Finish(e, w)
      \/ Conclude(e) = Schedule(e, e.game.mover)
      \/ Conclude(e) = e
  BY DEF Conclude
<1> QED
  BY <1>1, <1>2, TurnedSteps, TurnedPlays

(* Pass: only the turn changes. *)
LEMMA PassTurned ==
  ASSUME NEW d, Shape(d), NEW e, Turned(d, e)
  PROVE  Turned(d, Pass(e))
<1> DEFINE next == Following(e, e.game.mover, e.game.out, 1)
           moved == [e EXCEPT !.game.mover = next]
<1>1. Pass(e) = NewTurn(moved)
  BY DEF Pass
<1> HIDE DEF next
<1>2. Turned(d, moved)
  BY DEF Turned, Shape
<1> HIDE DEF moved
<1> QED
  BY <1>1, <1>2, TurnedSteps

(* eliminatePlayer: the match goes on without the player, or ends. *)
LEMMA QuitPlays ==
  ASSUME Good(db, sweep), Open(db)
  PROVE  \A p : Plays(db, eliminatePlayer(db, p)) /\ Plays(db, Quit(db, p))
<1> SUFFICES ASSUME NEW p
             PROVE  Plays(db, eliminatePlayer(db, p)) /\ Plays(db, Quit(db, p))
  OBVIOUS
<1>1. OpenBooks(db) /\ Shape(db)
  BY InPlayGood
<1> DEFINE hand == IF p \in DOMAIN db.game.hands THEN db.game.hands[p] ELSE {}
           out == [db EXCEPT !.game.boneyard = @ \cup hand, !.game.hands[p] = {},
                             !.game.out = @ \cup {p}, !.game.passes = 0]
<1>2. eliminatePlayer(db, p) \in {db, Conclude(Pass(out)), Conclude(out)}
  BY DEF eliminatePlayer
<1>3. Turned(db, out)
  BY <1>1 DEF Turned, Shape
<1> HIDE DEF out
<1>4. Plays(db, eliminatePlayer(db, p))
  BY <1>1, <1>2, <1>3, PassTurned, ConcludePlays, TurnedSelf, TurnedPlays
<1> QED
  BY <1>4, ResignPlays DEF Quit

(* handleMove: a tile is laid, and the game ends or the turn passes. *)
LEMMA handleMoveKept ==
  ASSUME Good(db, sweep), NEW p \in Players, NEW tile, NEW side, handleMove(p, tile, side)
  PROVE  Kept
<1>1. InPlay(db) /\ OpenBooks(db) /\ Shape(db)
  BY InPlayGood DEF handleMove, Moves, InPlay
<1>2. PICK ends : Commit(Conclude(Pass([db EXCEPT !.game.hands[p] = @ \ {tile},
                                                  !.game.board = @ \cup {tile},
                                                  !.game.ends = ends, !.game.passes = 0])))
  BY DEF handleMove
<1> DEFINE laid == [db EXCEPT !.game.hands[p] = @ \ {tile}, !.game.board = @ \cup {tile},
                              !.game.ends = ends, !.game.passes = 0]
<1>3. Turned(db, laid)
  BY <1>1 DEF Turned, Shape
<1> HIDE DEF laid
<1>4. Plays(db, Conclude(Pass(laid)))
  BY <1>1, <1>3, PassTurned, ConcludePlays
<1> QED
  BY <1>1, <1>2, <1>4, MoveKept DEF laid

(* handleDraw: a tile comes into the hand. *)
LEMMA handleDrawKept ==
  ASSUME Good(db, sweep), NEW p \in Players, NEW tile, handleDraw(p, tile)
  PROVE  Kept
<1> DEFINE drawn == [db EXCEPT !.game.boneyard = @ \ {tile}, !.game.hands[p] = @ \cup {tile}]
<1>1. InPlay(db) /\ OpenBooks(db) /\ Shape(db) /\ Commit(Schedule(drawn, p))
  BY InPlayGood DEF handleDraw, Moves, InPlay
<1>2. Turned(db, drawn)
  BY <1>1 DEF Turned, Shape
<1> HIDE DEF drawn
<1>3. Plays(db, Schedule(drawn, p))
  BY <1>1, <1>2, TurnedSteps, TurnedPlays
<1> QED
  BY <1>1, <1>3, MoveKept

(* handlePass: the turn passes, or the game is blocked. *)
LEMMA handlePassKept ==
  ASSUME Good(db, sweep), NEW p \in Players, handlePass(p)
  PROVE  Kept
<1> DEFINE passed == [db EXCEPT !.game.passes = @ + 1]
<1>1. InPlay(db) /\ OpenBooks(db) /\ Shape(db) /\ Commit(Conclude(Pass(passed)))
  BY InPlayGood DEF handlePass, Moves, InPlay
<1>2. Turned(db, passed)
  BY <1>1 DEF Turned, Shape
<1> HIDE DEF passed
<1>3. Plays(db, Conclude(Pass(passed)))
  BY <1>1, <1>2, PassTurned, ConcludePlays
<1> QED
  BY <1>1, <1>3, MoveKept

(* Every step keeps the books, the countdowns and the promise about the stakes. *)
LEMMA NextKept ==
  ASSUME Good(db, sweep), [Next]_vars
  PROVE  Kept
<1>1. CASE UNCHANGED vars
  BY <1>1, UnchangedKept
<1>2. CASE RoomStep
  BY <1>2, RoomStepKept
<1>3. CASE \E p \in Players : markReady(p)
  BY <1>3, markReadyKept
<1>4. CASE \E p \in Players : handleJoin(p)
  BY <1>4, JoinKept DEF handleJoin
<1>5. CASE tryStartDominoGame
  BY <1>5, tryStartKept DEF tryStartDominoGame
<1>6. CASE \E p \in Players : handleDisconnect(p)
  BY <1>6, AbsenceKept DEF handleDisconnect
<1>7. CASE \E p \in Players : LeaveRoom(p)
  BY <1>7, LeavingKept, QuitPlays DEF LeaveRoom
<1>8. CASE forfeit
  BY <1>8, HandlerKept, QuitPlays DEF forfeit, Sweepers
<1>9. CASE timeout
  BY <1>9, HandlerKept, QuitPlays DEF timeout, Sweepers
<1>10. CASE \E p \in Players, tile \in Tiles, side \in 1..2 : handleMove(p, tile, side)
  BY <1>10, handleMoveKept
<1>11. CASE \E p \in Players, tile \in Tiles : handleDraw(p, tile)
  BY <1>11, handleDrawKept
<1>12. CASE \E p \in Players : handlePass(p)
  BY <1>12, handlePassKept
<1> QED
  BY <1>1, <1>2, <1>3, <1>4, <1>5, <1>6, <1>7, <1>8, <1>9, <1>10, <1>11, <1>12 DEF
     Next

(* Every reachable state of a room of domino has its books in order. *)
THEOREM DominoGood == Spec => []Good(db, sweep)
<1>1. Init => Good(db, sweep)
  BY InitGood
<1>2. Good(db, sweep) /\ [Next]_vars => Good(db, sweep)'
  BY NextKept DEF Kept
<1> QED
  BY <1>1, <1>2, PTL DEF Spec

(* settleGameRoom and everything before it: in every state of every room of domino, *)
(* the escrow has the stakes that came in and did not go back, until the winner of *)
(* the match takes them.                                                           *)
THEOREM DominoStakesBalance == Spec => []StakesBalance
<1>1. Good(db, sweep) => StakesBalance
  BY GoodBalance
<1> QED
  BY <1>1, DominoGood, PTL

(* grace-period.service.ts sweep: the sweeper that finishes with an earlier absence *)
(* leaves the countdown of a player who is away again alone.                        *)
THEOREM DominoRefreshedRowSurvives == Spec => RefreshedRowSurvives
<1>1. Good(db, sweep) /\ [Next]_vars => [GraceStep]_vars
  BY NextKept DEF Kept
<1>2. Spec => [][GraceStep]_vars
  BY <1>1, DominoGood, PTL DEF Spec
<1> QED
  BY <1>2 DEF RefreshedRowSurvives, GraceStep

(* Every step of a room of domino is a step of RoomContract: the stakes come in *)
(* before the match, lie untouched until everyone has seen the board and while    *)
(* the match is played, and go out once, to a player who staked or back to all.   *)
THEOREM DominoImplementsContract == Spec => Contract!Spec
<1>1. Init => Contract!Init
  BY InitContract
<1>2. Good(db, sweep) /\ [Next]_vars => [Contract!Next]_(Contract!contractVars)
  BY NextKept, PromiseContract DEF Kept
<1> QED
  BY <1>1, <1>2, DominoGood, PTL DEF Spec, Contract!Spec

----------------------------------------------------------------------------
(* The tiles. *)
LEMMA TilesFinite ==
  ASSUME DominoAssumption
  PROVE  /\ IsFiniteSet(Tiles) /\ <<Pips, Pips>> \in Tiles
         /\ \A t \in Tiles : t = <<t[1], t[2]>> /\ t[1] \in 0..Pips /\ t[2] \in 0..Pips
<1>1. Pips \in Nat /\ IsFiniteSet(0..Pips)
  BY FS_Interval DEF DominoAssumption
<1>2. IsFiniteSet((0..Pips) \X (0..Pips)) /\ Tiles \subseteq (0..Pips) \X (0..Pips)
  BY <1>1, FS_Product DEF Tiles, TilesUpTo
<1>3. IsFiniteSet(Tiles)
  BY <1>2, FS_Subset
<1> QED
  BY <1>1, <1>2, <1>3 DEF Tiles, TilesUpTo

(* First: a seat of S, if S has one. *)
LEMMA FirstSeat ==
  ASSUME NEW s \in Seq(Players), NEW S, ToSet(s) \cap S # {}
  PROVE  First(s, S) \in ToSet(s) \cap S
<1> DEFINE T == {i \in DOMAIN s : s[i] \in S}
           Earliest(i) == s[i] \in S /\ \A j \in 1..i-1 : s[j] \notin S
<1>1. T # {} /\ DOMAIN s = 1..Len(s) /\ Len(s) \in Nat
  BY DEF ToSet
<1>2. PICK m \in T : \A i \in T : m <= i
  <2>1. T \subseteq Nat
    BY <1>1
  <2> HIDE DEF T
  <2> QED
    BY <1>1, <2>1, LeastNatural
<1>3. \A j \in 1..m-1 : j \in DOMAIN s /\ ~(m <= j)
  BY <1>1
<1>4. m \in DOMAIN s /\ Earliest(m)
  BY <1>2, <1>3
<1>5. First(s, S) = s[CHOOSE i \in DOMAIN s : Earliest(i)]
  BY DEF First
<1> HIDE DEF T
<1>6. (CHOOSE i \in DOMAIN s : Earliest(i)) \in DOMAIN s /\ Earliest(CHOOSE i \in DOMAIN s : Earliest(i))
  BY <1>4
<1> QED
  BY <1>5, <1>6 DEF ToSet

(* A bounded set of natural numbers has a greatest element. *)
LEMMA GreatestNatural ==
  ASSUME NEW T, T \subseteq Nat, T # {}, NEW b \in Nat, \A n \in T : n <= b
  PROVE  \E m \in T : \A n \in T : n <= m
<1> DEFINE R == {k \in Nat : \E n \in T : k = b - n}
<1>1. PICK n \in T : TRUE
  OBVIOUS
<1>2. b - n \in R /\ R \subseteq Nat
  OBVIOUS
<1>3. PICK k \in R : \A i \in R : k <= i
  <2> HIDE DEF R
  <2> QED
    BY <1>2, LeastNatural
<1>4. PICK m \in T : k = b - m
  OBVIOUS
<1>5. ASSUME NEW i \in T
      PROVE  i <= m
  <2>1. b - i \in R
    OBVIOUS
  <2>2. k <= b - i
    BY <1>3, <2>1
  <2> QED
    BY <1>4, <2>2
<1> QED
  BY <1>5

(* Foremost: a player with the highest value. *)
LEMMA ForemostSeated ==
  ASSUME NEW s \in Seq(Players), NEW b \in Nat, NEW V, \A p \in ToSet(s) : V[p] \subseteq 0..b,
         \E p \in ToSet(s) : V[p] # {}
  PROVE  Foremost(s, V) \in ToSet(s)
<1> DEFINE all == UNION {V[p] : p \in ToSet(s)}
           top == CHOOSE v \in all : \A w \in all : w <= v
<1>1. all # {} /\ all \subseteq Nat /\ \A n \in all : n <= b
  OBVIOUS
<1>2. top \in all
  <2> HIDE DEF all
  <2> QED
    BY <1>1, GreatestNatural
<1>3. ToSet(s) \cap {p \in ToSet(s) : top \in V[p]} # {}
  BY <1>2
<1> HIDE DEF top
<1>4. First(s, {p \in ToSet(s) : top \in V[p]}) \in ToSet(s)
  BY <1>3, FirstSeat
<1> QED
  BY <1>4 DEF Foremost, top

(* getStartingPlayer: one of the players. *)
LEMMA StarterSeated ==
  ASSUME DominoAssumption, NEW s \in Seq(Players), NEW h, ToSet(s) # {},
         \A p \in ToSet(s) : h[p] \subseteq Tiles /\ h[p] # {}
  PROVE  getStartingPlayer(s, h) \in ToSet(s)
<1> DEFINE doubles == [p \in ToSet(s) |-> {t[1] : t \in {u \in h[p] : u[1] = u[2]}}]
           sums == [p \in ToSet(s) |-> {t[1] + t[2] : t \in h[p]}]
<1>1. getStartingPlayer(s, h)
        = Foremost(s, IF \E p \in ToSet(s) : doubles[p] # {} THEN doubles ELSE sums)
  BY DEF getStartingPlayer
<1>2. Pips \in Nat /\ Pips + Pips \in Nat
  BY DEF DominoAssumption
<1>3. \A p \in ToSet(s) : doubles[p] \subseteq 0..Pips
  BY <1>2, TilesFinite
<1>4. \A p \in ToSet(s) : sums[p] \subseteq 0..Pips+Pips
  <2> SUFFICES ASSUME NEW p \in ToSet(s), NEW t \in h[p] PROVE t[1] + t[2] \in 0..Pips+Pips
    OBVIOUS
  <2> QED
    BY <1>2, TilesFinite
<1>5. \E p \in ToSet(s) : sums[p] # {}
  OBVIOUS
<1> HIDE DEF doubles, sums
<1>6. CASE \E p \in ToSet(s) : doubles[p] # {}
  BY <1>1, <1>2, <1>3, <1>6, ForemostSeated
<1>7. CASE ~\E p \in ToSet(s) : doubles[p] # {}
  BY <1>1, <1>2, <1>4, <1>5, <1>7, ForemostSeated
<1> QED
  BY <1>6, <1>7

----------------------------------------------------------------------------
(* The chain. *)
Shown(ends, v) == Cardinality({i \in DOMAIN ends : ends[i] = v})
Once(x, v) == IF x = v THEN 1 ELSE 0
Closes(board, ends) == \A v : (Halves(board, v) + Shown(ends, v)) % 2 = 0
Chain(board, ends) ==
  /\ board \subseteq Tiles /\ Closes(board, ends)
  /\ (ends = <<>> /\ board = {}) \/ DOMAIN ends = {1, 2}

(* A chain shows a number at none, one or both of its ends. *)
LEMMA ShownTwice ==
  ASSUME NEW ends, DOMAIN ends = {1, 2}, NEW v
  PROVE  Shown(ends, v) = Once(ends[1], v) + Once(ends[2], v)
<1> DEFINE S == {i \in DOMAIN ends : ends[i] = v}
<1>1. S = (IF ends[1] = v THEN {1} ELSE {}) \cup (IF ends[2] = v THEN {2} ELSE {})
  OBVIOUS
<1>2. IsFiniteSet({}) /\ Cardinality({}) = 0
  BY FS_EmptySet
<1>3. IsFiniteSet({1}) /\ Cardinality({1}) = 1 /\ Cardinality({2}) = 1
  BY FS_Singleton
<1>4. Cardinality({1} \cup {2}) = 2
  BY <1>3, FS_AddElement
<1>5. CASE ends[1] = v /\ ends[2] = v
  BY <1>1, <1>4, <1>5 DEF Shown, Once
<1>6. CASE ends[1] = v /\ ends[2] # v
  <2>1. S = {1}
    BY <1>1, <1>6
  <2> QED
    BY <1>3, <1>6, <2>1 DEF Shown, Once
<1>7. CASE ends[1] # v /\ ends[2] = v
  <2>1. S = {2}
    BY <1>1, <1>7
  <2> QED
    BY <1>3, <1>7, <2>1 DEF Shown, Once
<1>8. CASE ends[1] # v /\ ends[2] # v
  <2>1. S = {}
    BY <1>1, <1>8
  <2> QED
    BY <1>2, <1>8, <2>1 DEF Shown, Once
<1> QED
  BY <1>5, <1>6, <1>7, <1>8

(* A tile comes to the board. *)
LEMMA LaidHalves ==
  ASSUME DominoAssumption, NEW board, board \subseteq Tiles, NEW tile \in Tiles \ board, NEW v
  PROVE  /\ Halves(board, v) \in Nat
         /\ Halves(board \cup {tile}, v) = Halves(board, v) + Once(tile[1], v) + Once(tile[2], v)
<1>1. IsFiniteSet(board)
  BY TilesFinite, FS_Subset
<1>2. ASSUME NEW i \in {1, 2}
      PROVE  LET N(S) == Cardinality({t \in S : t[i] = v})
             IN N(board) \in Nat /\ N(board \cup {tile}) = N(board) + Once(tile[i], v)
  <2> DEFINE T == {t \in board : t[i] = v}
             U == {t \in board \cup {tile} : t[i] = v}
  <2>1. U = IF tile[i] = v THEN T \cup {tile} ELSE T
    OBVIOUS
  <2>2. IsFiniteSet(T) /\ tile \notin T
    BY <1>1, FS_Subset
  <2> HIDE DEF T, U
  <2>3. Cardinality(T) \in Nat /\ Cardinality(T \cup {tile}) = Cardinality(T) + 1
    BY <2>2, FS_CardinalityType, FS_AddElement
  <2>4. Cardinality(U) = Cardinality(T) + Once(tile[i], v)
    BY <2>1, <2>3 DEF Once
  <2> QED
    BY <2>3, <2>4 DEF T, U
<1>3. Once(tile[1], v) \in Nat /\ Once(tile[2], v) \in Nat
  BY DEF Once
<1> QED
  BY <1>2, <1>3 DEF Halves

(* handleMove: the number at the end where the tile fits is matched, and its other half *)
(* is the new end.                                                                     *)
LEMMA LaidChain ==
  ASSUME DominoAssumption, NEW board, NEW ends, Chain(board, ends), NEW tile \in Tiles \ board,
         NEW side \in 1..2, ends # <<>> => ends[side] \in {tile[1], tile[2]},
         NEW shown, shown = IF ends = <<>> THEN tile ELSE [ends EXCEPT ![side] = Other(tile, @)]
  PROVE  Chain(board \cup {tile}, shown)
<1> DEFINE laid == board \cup {tile}
<1>1. laid \subseteq Tiles /\ tile = <<tile[1], tile[2]>>
  BY TilesFinite DEF Chain
<1>2. DOMAIN tile = {1, 2}
  <2> DEFINE a == tile[1]
             b == tile[2]
  <2>1. tile = <<a, b>>
    BY <1>1
  <2> HIDE DEF a, b
  <2>2. DOMAIN <<a, b>> = 1..2 /\ 1..2 = {1, 2}
    OBVIOUS
  <2> QED
    BY <2>1, <2>2
<1>3. DOMAIN shown = {1, 2}
  BY <1>2 DEF Chain
<1>4. ASSUME NEW v
      PROVE  (Halves(laid, v) + Shown(shown, v)) % 2 = 0
  <2> DEFINE o == Once(tile[1], v)
             w == Once(tile[2], v)
             h == Halves(board, v)
             n == Shown(ends, v)
  <2>1. h \in Nat /\ Halves(laid, v) = h + o + w /\ o \in {0, 1} /\ w \in {0, 1}
    <3>1. board \subseteq Tiles
      BY DEF Chain
    <3>2. h \in Nat /\ Halves(laid, v) = h + o + w
      BY <3>1, LaidHalves
    <3>3. o \in {0, 1} /\ w \in {0, 1}
      BY DEF Once
    <3> QED
      BY <3>2, <3>3
  <2>2. Shown(shown, v) = Once(shown[1], v) + Once(shown[2], v) /\ (h + n) % 2 = 0
    <3>1. Shown(shown, v) = Once(shown[1], v) + Once(shown[2], v)
      BY <1>3, ShownTwice
    <3>2. (h + n) % 2 = 0
      BY DEF Chain, Closes
    <3> QED
      BY <3>1, <3>2
  <2>3. CASE ends = <<>>
    <3>1. n = 0
      <4>1. {i \in DOMAIN ends : ends[i] = v} = {}
        BY <2>3
      <4> QED
        BY <4>1, FS_EmptySet DEF Shown
    <3>2. Shown(shown, v) = o + w
      BY <2>2, <2>3
    <3> HIDE DEF o, w, h, n
    <3> QED
      BY <2>1, <2>2, <3>1, <3>2
  <2>4. CASE ends # <<>>
    <3> DEFINE x == Once(ends[1], v)
               y == Once(ends[2], v)
    <3>1. DOMAIN ends = {1, 2} /\ n = x + y /\ x \in {0, 1} /\ y \in {0, 1}
      BY <2>4, ShownTwice DEF Chain, Once
    <3>2. side \in {1, 2} /\ shown[side] = Other(tile, ends[side])
          /\ \A i \in {1, 2} : i # side => shown[i] = ends[i]
      BY <2>4, <3>1
    <3>3. Once(shown[side], v) + Once(ends[side], v) = o + w
      <4> DEFINE pip == ends[side]
      <4>1. pip \in {tile[1], tile[2]} /\ shown[side] = IF tile[2] = pip THEN tile[1] ELSE tile[2]
        BY <2>4, <3>2 DEF Other
      <4> HIDE DEF pip
      <4> QED
        BY <4>1 DEF Once, pip
    <3>4. Once(shown[1], v) \in {0, 1} /\ Once(shown[2], v) \in {0, 1}
      BY DEF Once
    <3>5. \/ Once(shown[1], v) + x = o + w /\ Once(shown[2], v) = y
          \/ Once(shown[2], v) + y = o + w /\ Once(shown[1], v) = x
      <4>1. CASE side = 1
        <5>1. shown[2] = ends[2]
          BY <3>2, <4>1
        <5> QED
          BY <3>3, <4>1, <5>1
      <4>2. CASE side = 2
        <5>1. shown[1] = ends[1]
          BY <3>2, <4>2
        <5> QED
          BY <3>3, <4>2, <5>1
      <4> QED
        BY <3>2, <4>1, <4>2
    <3> HIDE DEF o, w, h, n, x, y
    <3> DEFINE a == Once(shown[1], v)
               b == Once(shown[2], v)
    <3>6. a \in {0, 1} /\ b \in {0, 1} /\ Shown(shown, v) = a + b
          /\ ((a + x = o + w /\ b = y) \/ (b + y = o + w /\ a = x))
      BY <2>2, <3>4, <3>5
    <3> HIDE DEF a, b
    <3> QED
      BY <2>1, <2>2, <3>1, <3>6
  <2> QED
    BY <2>3, <2>4
<1> QED
  BY <1>1, <1>3, <1>4 DEF Chain, Closes

(* An empty board. *)
LEMMA EmptyChain == Chain({}, <<>>)
<1>1. Cardinality({}) = 0
  BY FS_EmptySet
<1>2. \A v : Halves({}, v) = 0
  BY <1>1 DEF Halves
<1>3. \A v : Shown(<<>>, v) = 0
  <2>1. \A v : {i \in DOMAIN <<>> : <<>>[i] = v} = {}
    OBVIOUS
  <2> QED
    BY <1>1, <2>1 DEF Shown
<1>4. \A v : (Halves({}, v) + Shown(<<>>, v)) % 2 = 0
  BY <1>2, <1>3
<1> QED
  BY <1>4 DEF Chain, Closes

----------------------------------------------------------------------------
(* Every tile is in one place. *)
Parts(hands, boneyard, board, S) ==
  /\ DOMAIN hands = S /\ boneyard \subseteq Tiles /\ board \subseteq Tiles /\ boneyard \cap board = {}
  /\ \A p \in S : hands[p] \subseteq Tiles \ (boneyard \cup board)
  /\ \A p, q \in S : p # q => hands[p] \cap hands[q] = {}
  /\ \A t \in Tiles : t \in boneyard \cup board \/ \E p \in S : t \in hands[p]
Table(g, S) ==
  /\ IsDomino(g) /\ Parts(g.hands, g.boneyard, g.board, S) /\ Chain(g.board, g.ends)
  /\ \A p \in g.out \cap S : g.hands[p] = {}

(* Tiles go from one place to another: into or out of one hand, the boneyard and the board. *)
LEMMA PartsMoved ==
  ASSUME NEW hands, NEW boneyard, NEW board, NEW S, Parts(hands, boneyard, board, S),
         NEW p \in S, NEW own, NEW free, NEW laid,
         own \cup free \cup laid = hands[p] \cup boneyard \cup board,
         own \cap free = {}, own \cap laid = {}, free \cap laid = {}
  PROVE  Parts([hands EXCEPT ![p] = own], free, laid, S)
<1> DEFINE now == [hands EXCEPT ![p] = own]
<1>1. /\ DOMAIN now = S /\ now[p] = own /\ \A q \in S : q # p => now[q] = hands[q]
  BY DEF Parts
<1> HIDE DEF now
<1>2. hands[p] \cup boneyard \cup board \subseteq Tiles
  BY DEF Parts
<1>3. free \subseteq Tiles /\ laid \subseteq Tiles /\ own \subseteq Tiles
  BY <1>2
<1>4. ASSUME NEW q \in S, q # p
      PROVE  now[q] \subseteq Tiles /\ now[q] \cap (own \cup free \cup laid) = {}
  <2>1. hands[q] \subseteq Tiles \ (boneyard \cup board) /\ hands[q] \cap hands[p] = {}
    BY <1>4 DEF Parts
  <2> QED
    BY <1>1, <1>4, <2>1
<1>5. ASSUME NEW q \in S
      PROVE  now[q] \subseteq Tiles \ (free \cup laid)
  BY <1>1, <1>3, <1>4, <1>5
<1>6. ASSUME NEW q \in S, NEW r \in S, q # r
      PROVE  now[q] \cap now[r] = {}
  <2>1. CASE q # p /\ r # p
    BY <1>1, <1>6, <2>1 DEF Parts
  <2>2. CASE q = p \/ r = p
    BY <1>1, <1>4, <1>6, <2>2
  <2> QED
    BY <2>1, <2>2
<1>7. ASSUME NEW t \in Tiles
      PROVE  t \in free \cup laid \/ \E q \in S : t \in now[q]
  <2>1. t \in boneyard \cup board \/ \E q \in S : t \in hands[q]
    BY DEF Parts
  <2>2. CASE \E q \in S : q # p /\ t \in hands[q]
    BY <1>1, <2>2
  <2>3. CASE t \in hands[p] \cup boneyard \cup board
    BY <1>1, <2>3
  <2> QED
    BY <2>1, <2>2, <2>3
<1> QED
  BY <1>1, <1>3, <1>5, <1>6, <1>7 DEF Parts, now

(* The player to move is in the match, and somebody else is. *)
Going(d) == d.game.mover \in Active(d) /\ \E q \in Active(d) : q # d.game.mover
(* A match, when a handler has changed its document. *)
Playing(d) ==
  /\ Fields(d) /\ Orderly(d.room.players) /\ d.room.gameReady
  /\ Table(d.game, Seated(d))
DominoInv(d) ==
  /\ Orderly(d.room.players)
  /\ \/ ~d.room.gameReady /\ d.game = NoGame
     \/ d.room.gameReady /\ Table(d.game, Seated(d)) /\ (d.room.status # "finished" => Going(d))

(* A step that leaves the document alone. *)
LEMMA QuietTiles ==
  ASSUME DominoInv(db), Quiet(db, db')
  PROVE  DominoInv(db')
<1>1. CASE ~db.room.gameReady
  BY <1>1 DEF DominoInv, Quiet, Result
<1>2. CASE db.room.gameReady
  <2>1. /\ db'.room.gameReady /\ db'.game = db.game /\ db'.room.players = db.room.players
        /\ (db'.room.status # "finished" => db.room.status # "finished")
    BY <1>2 DEF Quiet, Result
  <2>2. Seated(db') = Seated(db) /\ Active(db') = Active(db)
    BY <2>1 DEF Seated, Active
  <2> QED
    BY <1>2, <2>1, <2>2 DEF DominoInv, Going
<1> QED
  BY <1>1, <1>2

(* What a handler leaves is saved. *)
LEMMA CommitTiles ==
  ASSUME NEW e, Playing(e), e.room.status # "finished" => Going(e), db' = settleGameRoom(e)
  PROVE  DominoInv(db')
<1>1. /\ db'.game = e.game /\ db'.room.status = e.room.status /\ db'.room.players = e.room.players
      /\ db'.room.gameReady
  BY SettleQuiet DEF Playing
<1>2. Seated(db') = Seated(e) /\ Active(db') = Active(e)
  BY <1>1 DEF Seated, Active
<1> QED
  BY <1>1, <1>2 DEF DominoInv, Playing, Going

(* A turn that passes goes to a player who is in the match. *)
LEMMA PassTiles ==
  ASSUME NEW d, Playing(d), d.game.mover \in Seated(d), Active(d) # {}
  PROVE  LET e == Pass(d) IN Playing(e) /\ e.game.mover \in Active(e)
<1> DEFINE next == Following(d, d.game.mover, d.game.out, 1)
           moved == [d EXCEPT !.game.mover = next]
           e == Pass(d)
<1>1. next \in Seated(d) \ d.game.out
  <2>1. ~(Seated(d) \subseteq d.game.out) /\ Orderly(d.room.players) /\ 1 \in {1, -1}
    BY DEF Active, Playing
  <2> QED
    BY <2>1, FollowingFree
<1> HIDE DEF next
<1>2. /\ Fields(moved) /\ moved.room = d.room /\ moved.game = [d.game EXCEPT !.mover = next]
  BY DEF Playing, Fields
<1>3. e = NewTurn(moved)
  BY DEF Pass, next
<1> HIDE DEF moved, e
<1>4. Fields(e) /\ e.room = d.room /\ e.game = [d.game EXCEPT !.mover = next]
  BY <1>2, <1>3 DEF NewTurn, Fields
<1>5. IsDomino(d.game)
  BY DEF Playing, Table
<1>6. /\ IsDomino(e.game) /\ e.game.mover = next /\ e.game.hands = d.game.hands
      /\ e.game.boneyard = d.game.boneyard /\ e.game.board = d.game.board
      /\ e.game.ends = d.game.ends /\ e.game.out = d.game.out
  BY <1>4, <1>5 DEF IsDomino
<1>7. Seated(e) = Seated(d) /\ Table(e.game, Seated(e))
  BY <1>4, <1>6 DEF Seated, Playing, Table
<1> QED
  BY <1>1, <1>4, <1>6, <1>7 DEF Playing, Active, e

(* getDominoGameResult: a match with one player left is over. *)
LEMMA ConcludeTiles ==
  ASSUME NEW d, Playing(d), d.game.mover \in Active(d)
  PROVE  LET e == Conclude(d) IN Playing(e) /\ (e.room.status # "finished" => Going(e))
<1> DEFINE e == Conclude(d)
<1>1. \/ \E w : e = Finish(d, w)
      \/ Winners(d) = {} /\ e \in {d, Schedule(d, d.game.mover)}
  BY DEF Conclude
<1> HIDE DEF e
<1>2. CASE \E w : e = Finish(d, w)
  <2>1. PICK w : e = [d EXCEPT !.room.status = "finished", !.room.winner = w]
    BY <1>2 DEF Finish
  <2>2. Fields(d) /\ d.room.gameReady
    BY DEF Playing
  <2>3. Fields(e) /\ e.game = d.game /\ e.room.players = d.room.players /\ e.room.gameReady
        /\ e.room.status = "finished"
    BY <2>1, <2>2 DEF Fields
  <2> QED
    BY <2>3 DEF Playing, Seated, e
<1>3. CASE Winners(d) = {} /\ e \in {d, Schedule(d, d.game.mover)}
  <2>1. Fields(e) /\ e.game = d.game /\ e.room = d.room
    BY <1>3 DEF Schedule, Playing, Fields
  <2>2. IsFiniteSet(Active(d)) /\ Cardinality(Active(d)) # 1
    <3>1. IsFiniteSet(Seated(d))
      BY OrderlyFinite DEF Playing
    <3>2. IsFiniteSet(Active(d))
      BY <3>1, FS_Subset DEF Active
    <3> QED
      BY <1>3, <3>2 DEF Winners
  <2>3. Active(d) # {d.game.mover}
    BY <2>2, FS_Singleton
  <2>4. Going(d)
    BY <2>3 DEF Going
  <2>5. Seated(e) = Seated(d) /\ Active(e) = Active(d)
    BY <2>1 DEF Seated, Active
  <2> QED
    BY <2>1, <2>4, <2>5 DEF Playing, Going, e
<1> QED
  BY <1>1, <1>2, <1>3

----------------------------------------------------------------------------
(* What a handler does to the document, up to the turn. *)
LEMMA ChangedPlaying ==
  ASSUME NEW d, Playing(d), NEW e, Fields(e), e.room = d.room, IsDomino(e.game),
         Parts(e.game.hands, e.game.boneyard, e.game.board, Seated(d)), Chain(e.game.board, e.game.ends),
         \A p \in e.game.out \cap Seated(d) : e.game.hands[p] = {}
  PROVE  Playing(e) /\ Seated(e) = Seated(d)
BY DEF Playing, Table, Seated

(* What a handler finds in a match that goes on. *)
LEMMA GoingPlaying ==
  ASSUME Good(db, sweep), DominoInv(db), Open(db), ~Pregame(db)
  PROVE  Playing(db) /\ Going(db) /\ db.game.mover \in Seated(db) /\ Seated(db) \subseteq Players
BY GoodShape, SeatsFinite DEF DominoInv, Open, Pregame, Playing, Fields, Shape, Going, Active

(* eliminatePlayer: his tiles go back, and the turn passes if it was his. *)
LEMMA EliminateTiles ==
  ASSUME NEW d, Playing(d), Going(d), NEW p
  PROVE  LET e == eliminatePlayer(d, p) IN Playing(e) /\ (e.room.status # "finished" => Going(e))
<1> DEFINE g == d.game
           hand == IF p \in DOMAIN g.hands THEN g.hands[p] ELSE {}
           h == [g.hands EXCEPT ![p] = {}]
           now == [g EXCEPT !.boneyard = @ \cup hand, !.hands = h, !.out = @ \cup {p}, !.passes = 0]
           out == [d EXCEPT !.game = now]
<1>1. Fields(d) /\ IsDomino(g) /\ Parts(g.hands, g.boneyard, g.board, Seated(d))
      /\ Chain(g.board, g.ends) /\ \A q \in g.out \cap Seated(d) : g.hands[q] = {}
  BY DEF Playing, Table
<1>2. out = [d EXCEPT !.game.boneyard = @ \cup hand, !.game.hands[p] = {},
                      !.game.out = @ \cup {p}, !.game.passes = 0]
  BY <1>1 DEF Fields, IsDomino
<1>3. eliminatePlayer(d, p) = IF d.room.status # "started" \/ p \in g.out THEN d
                              ELSE Conclude(IF g.mover = p THEN Pass(out) ELSE out)
  BY <1>2 DEF eliminatePlayer
<1>4. /\ IsDomino(now) /\ now.hands = h /\ now.boneyard = g.boneyard \cup hand /\ now.board = g.board
      /\ now.ends = g.ends /\ now.out = g.out \cup {p} /\ now.mover = g.mover
  <2> HIDE DEF g, h, hand
  <2> QED
    BY <1>1 DEF IsDomino
<1>5. Fields(out) /\ out.room = d.room /\ out.game = now
  <2> HIDE DEF now
  <2> QED
    BY <1>1 DEF Fields
<1>6. Parts(h, g.boneyard \cup hand, g.board, Seated(d))
  <2> HIDE DEF g
  <2>1. DOMAIN g.hands = Seated(d)
    BY <1>1 DEF Parts
  <2>2. CASE p \in Seated(d)
    <3> DEFINE free == g.boneyard \cup hand
               laid == g.board
               own == {}
    <3>1. own \cup free \cup laid = g.hands[p] \cup g.boneyard \cup g.board
      BY <2>1, <2>2
    <3>2. own \cap free = {} /\ own \cap laid = {} /\ free \cap laid = {}
      BY <1>1, <2>1, <2>2 DEF Parts
    <3> HIDE DEF free, laid, own
    <3>3. Parts([g.hands EXCEPT ![p] = own], free, laid, Seated(d))
      BY <1>1, <2>2, <3>1, <3>2, PartsMoved
    <3> QED
      BY <3>3 DEF free, laid, own
  <2>3. CASE p \notin Seated(d)
    <3>1. DOMAIN h = Seated(d) /\ (\A q \in Seated(d) : h[q] = g.hands[q]) /\ g.boneyard \cup hand = g.boneyard
      BY <2>1, <2>3
    <3> HIDE DEF h, hand
    <3> QED
      BY <1>1, <3>1 DEF Parts
  <2> QED
    BY <2>2, <2>3
<1>7. \A q \in now.out \cap Seated(d) : h[q] = {}
  <2> HIDE DEF now, hand
  <2> QED
    BY <1>1, <1>4 DEF Parts
<1> HIDE DEF out, now, h, hand
<1>8. Playing(out) /\ Seated(out) = Seated(d)
  BY <1>1, <1>4, <1>5, <1>6, <1>7, ChangedPlaying
<1>9. Active(out) = Active(d) \ {p} /\ out.game.mover = g.mover
  BY <1>4, <1>5, <1>8 DEF Active
<1>10. CASE d.room.status # "started" \/ p \in g.out
  BY <1>3, <1>10
<1>11. CASE d.room.status = "started" /\ p \notin g.out /\ g.mover = p
  <2>1. Active(out) # {} /\ out.game.mover \in Seated(out)
    BY <1>8, <1>9, <1>11 DEF Going, Active
  <2>2. Playing(Pass(out)) /\ Pass(out).game.mover \in Active(Pass(out))
    BY <1>8, <2>1, PassTiles
  <2> QED
    BY <1>3, <1>11, <2>2, ConcludeTiles
<1>12. CASE d.room.status = "started" /\ p \notin g.out /\ g.mover # p
  <2>1. out.game.mover \in Active(out)
    BY <1>9, <1>12 DEF Going
  <2> QED
    BY <1>3, <1>8, <1>12, <2>1, ConcludeTiles
<1> QED
  BY <1>10, <1>11, <1>12

(* The end of a turn. *)
LEMMA TurnTiles ==
  ASSUME NEW d, Playing(d), d.game.mover \in Active(d)
  PROVE  LET e == Conclude(Pass(d)) IN Playing(e) /\ (e.room.status # "finished" => Going(e))
<1>1. Active(d) # {} /\ d.game.mover \in Seated(d)
  BY DEF Active
<1>2. Playing(Pass(d)) /\ Pass(d).game.mover \in Active(Pass(d))
  BY <1>1, PassTiles
<1> QED
  BY <1>2, ConcludeTiles

LEMMA InPlayPlaying ==
  ASSUME Good(db, sweep), DominoInv(db), InPlay(db)
  PROVE  Playing(db) /\ Going(db) /\ db.game.mover \in Active(db)
<1>1. Open(db) /\ ~Pregame(db)
  BY InPlayGood DEF InPlay, Open, Pregame
<1> QED
  BY <1>1, GoingPlaying DEF Going

(* handleMove: from the hand to the chain. *)
LEMMA MoveTiles ==
  ASSUME DominoAssumption, Good(db, sweep), DominoInv(db), NEW p \in Players, NEW tile \in Tiles,
         NEW side \in 1..2, handleMove(p, tile, side)
  PROVE  DominoInv(db')
<1> DEFINE g == db.game
           own == g.hands[p] \ {tile}
           board == g.board \cup {tile}
           ends == IF g.ends = <<>> THEN tile ELSE [g.ends EXCEPT ![side] = Other(tile, @)]
           now == [g EXCEPT !.hands[p] = own, !.board = board, !.ends = ends, !.passes = 0]
           laid == [db EXCEPT !.game = now]
<1>1. Playing(db) /\ Going(db) /\ g.mover \in Active(db) /\ p = g.mover /\ p \in Seated(db)
  BY InPlayPlaying DEF handleMove, Moves
<1>2. Fields(db) /\ IsDomino(g) /\ Parts(g.hands, g.boneyard, g.board, Seated(db))
      /\ Chain(g.board, g.ends) /\ \A q \in g.out \cap Seated(db) : g.hands[q] = {}
  BY <1>1 DEF Playing, Table
<1>3. tile \in g.hands[p] /\ (g.ends # <<>> => g.ends[side] \in {tile[1], tile[2]})
  BY DEF handleMove
<1>4. laid = [db EXCEPT !.game.hands[p] = @ \ {tile}, !.game.board = @ \cup {tile},
                        !.game.ends = ends, !.game.passes = 0]
  <2> HIDE DEF ends
  <2> QED
    BY <1>2 DEF Fields, IsDomino
<1>5. Commit(Conclude(Pass(laid)))
  BY <1>4 DEF handleMove
<1>6. tile \notin g.board
  BY <1>1, <1>2, <1>3 DEF Parts
<1>7. Chain(board, ends)
  BY <1>2, <1>3, <1>6, LaidChain
<1>8. Parts([g.hands EXCEPT ![p] = own], g.boneyard, board, Seated(db))
  <2> DEFINE free == g.boneyard
  <2>1. own \cup free \cup board = g.hands[p] \cup g.boneyard \cup g.board
    BY <1>3
  <2>2. own \cap free = {} /\ own \cap board = {} /\ free \cap board = {}
    BY <1>1, <1>2, <1>3 DEF Parts
  <2> HIDE DEF own, free, board
  <2>3. Parts([g.hands EXCEPT ![p] = own], free, board, Seated(db))
    BY <1>1, <1>2, <2>1, <2>2, PartsMoved
  <2> QED
    BY <2>3 DEF free
<1>9. \A q \in g.out \cap Seated(db) : [g.hands EXCEPT ![p] = own][q] = {}
  <2> HIDE DEF own
  <2> QED
    BY <1>1, <1>2 DEF Active, Parts
<1> HIDE DEF own, board, ends
<1>10. /\ IsDomino(now) /\ now.hands = [g.hands EXCEPT ![p] = own] /\ now.boneyard = g.boneyard
       /\ now.board = board /\ now.ends = ends /\ now.out = g.out /\ now.mover = g.mover
  <2> HIDE DEF g
  <2> QED
    BY <1>2 DEF IsDomino
<1> HIDE DEF now
<1>11. Fields(laid) /\ laid.room = db.room /\ laid.game = now
  BY <1>2 DEF Fields
<1> HIDE DEF laid
<1>12. Playing(laid) /\ Seated(laid) = Seated(db)
  BY <1>1, <1>7, <1>8, <1>9, <1>10, <1>11, ChangedPlaying
<1>13. laid.game.mover \in Active(laid)
  BY <1>1, <1>10, <1>11, <1>12 DEF Active
<1> QED
  BY <1>5, <1>12, <1>13, TurnTiles, CommitTiles DEF Commit

(* handleDraw: from the boneyard to the hand of the player to move. *)
LEMMA DrawTiles ==
  ASSUME Good(db, sweep), DominoInv(db), NEW p \in Players, NEW tile, handleDraw(p, tile)
  PROVE  DominoInv(db')
<1> DEFINE g == db.game
           own == g.hands[p] \cup {tile}
           free == g.boneyard \ {tile}
           now == [g EXCEPT !.boneyard = free, !.hands[p] = own]
           drawn == [db EXCEPT !.game = now]
           e == Schedule(drawn, p)
<1>1. Playing(db) /\ Going(db) /\ g.mover \in Active(db) /\ p = g.mover /\ p \in Seated(db)
  BY InPlayPlaying DEF handleDraw, Moves
<1>2. Fields(db) /\ IsDomino(g) /\ Parts(g.hands, g.boneyard, g.board, Seated(db))
      /\ Chain(g.board, g.ends) /\ \A q \in g.out \cap Seated(db) : g.hands[q] = {}
  BY <1>1 DEF Playing, Table
<1>3. drawn = [db EXCEPT !.game.boneyard = @ \ {tile}, !.game.hands[p] = @ \cup {tile}]
  BY <1>2 DEF Fields, IsDomino
<1>4. Commit(e) /\ tile \in g.boneyard
  BY <1>3 DEF handleDraw
<1>5. Parts([g.hands EXCEPT ![p] = own], free, g.board, Seated(db))
  <2> DEFINE laid == g.board
  <2>1. own \cup free \cup laid = g.hands[p] \cup g.boneyard \cup g.board
    BY <1>4
  <2>2. own \cap free = {} /\ own \cap laid = {} /\ free \cap laid = {}
    BY <1>1, <1>2, <1>4 DEF Parts
  <2> HIDE DEF own, free, laid
  <2>3. Parts([g.hands EXCEPT ![p] = own], free, laid, Seated(db))
    BY <1>1, <1>2, <2>1, <2>2, PartsMoved
  <2> QED
    BY <2>3 DEF laid
<1>6. \A q \in g.out \cap Seated(db) : [g.hands EXCEPT ![p] = own][q] = {}
  <2> HIDE DEF own
  <2> QED
    BY <1>1, <1>2 DEF Active, Parts
<1> HIDE DEF own, free
<1>7. /\ IsDomino(now) /\ now.hands = [g.hands EXCEPT ![p] = own] /\ now.boneyard = free
      /\ now.board = g.board /\ now.ends = g.ends /\ now.out = g.out /\ now.mover = g.mover
  <2> HIDE DEF g
  <2> QED
    BY <1>2 DEF IsDomino
<1> HIDE DEF now
<1>8. Fields(drawn) /\ drawn.room = db.room /\ drawn.game = now
  BY <1>2 DEF Fields
<1> HIDE DEF drawn
<1>9. Fields(e) /\ e.room = db.room /\ e.game = now
  BY <1>8 DEF Schedule, Fields
<1> HIDE DEF e
<1>10. Playing(e) /\ Seated(e) = Seated(db)
  BY <1>1, <1>2, <1>5, <1>6, <1>7, <1>9, ChangedPlaying
<1>11. Going(e)
  BY <1>1, <1>7, <1>9, <1>10 DEF Going, Active
<1> QED
  BY <1>4, <1>10, <1>11, CommitTiles DEF Commit

(* handlePass. *)
LEMMA PassedTiles ==
  ASSUME Good(db, sweep), DominoInv(db), NEW p \in Players, handlePass(p)
  PROVE  DominoInv(db')
<1> DEFINE g == db.game
           now == [g EXCEPT !.passes = @ + 1]
           passed == [db EXCEPT !.game = now]
<1>1. Playing(db) /\ Going(db) /\ g.mover \in Active(db)
  BY InPlayPlaying DEF handlePass, Moves
<1>2. Fields(db) /\ IsDomino(g) /\ Parts(g.hands, g.boneyard, g.board, Seated(db))
      /\ Chain(g.board, g.ends) /\ \A q \in g.out \cap Seated(db) : g.hands[q] = {}
  BY <1>1 DEF Playing, Table
<1>3. Commit(Conclude(Pass(passed)))
  BY DEF handlePass
<1>4. /\ IsDomino(now) /\ now.hands = g.hands /\ now.boneyard = g.boneyard
      /\ now.board = g.board /\ now.ends = g.ends /\ now.out = g.out /\ now.mover = g.mover
  <2> HIDE DEF g
  <2> QED
    BY <1>2 DEF IsDomino
<1> HIDE DEF now
<1>5. Fields(passed) /\ passed.room = db.room /\ passed.game = now
  BY <1>2 DEF Fields
<1> HIDE DEF passed
<1>6. Playing(passed) /\ Seated(passed) = Seated(db)
  BY <1>1, <1>2, <1>4, <1>5, ChangedPlaying
<1>7. passed.game.mover \in Active(passed)
  BY <1>1, <1>4, <1>5, <1>6 DEF Active
<1> QED
  BY <1>3, <1>6, <1>7, TurnTiles, CommitTiles DEF Commit

(* At least one tile for each, if there are as many tiles as players. *)
LEMMA ShareOne ==
  ASSUME NEW x \in Nat, NEW n \in Nat \ {0}, n <= x
  PROVE  x \div n \in Nat \ {0}
OBVIOUS

(* deal: equal hands of one tile at least, and somebody to start. *)
LEMMA DealtTiles ==
  ASSUME DominoAssumption, DominoInv(db), Dealt(db, db', NewGames(db))
  PROVE  DominoInv(db')
<1> DEFINE players == db.room.players
           share == Cardinality(Tiles) \div Len(players)
           size == IF share < MaxHandSize THEN share ELSE MaxHandSize
<1>1. /\ Orderly(players) /\ Len(players) \in Nat /\ Len(players) > 1 /\ players \in Seq(Players)
      /\ db'.room.players = players /\ db'.room.gameReady /\ Seated(db) = ToSet(players)
  BY DEF DominoInv, Dealt, Orderly, Seated
<1>2. size \in Nat \ {0}
  <2> DEFINE x == Cardinality(Tiles)
             n == Len(players)
  <2>1. x \in Nat /\ Seats <= x /\ MaxHandSize \in Nat \ {0}
    BY TilesFinite, FS_CardinalityType DEF DominoAssumption
  <2>2. n \in Nat /\ n > 1 /\ n <= Seats
    BY <1>1 DEF Orderly
  <2> HIDE DEF x, n
  <2>3. n \in Nat \ {0} /\ n <= x
    BY <2>1, <2>2, RoomsAssumption
  <2>4. x \div n \in Nat \ {0}
    BY <2>1, <2>3, ShareOne
  <2> QED
    BY <2>1, <2>4 DEF x, n
<1>3. PICK h \in [Seated(db) -> kSubset(size, Tiles)] :
        /\ \A p, q \in Seated(db) : p # q => h[p] \cap h[q] = {}
        /\ db'.game = [mover |-> getStartingPlayer(players, h), hands |-> h,
                       boneyard |-> Tiles \ UNION {h[p] : p \in Seated(db)},
                       board |-> {}, ends |-> <<>>, passes |-> 0, out |-> {}]
  BY DEF Dealt, NewGames
<1> HIDE DEF size
<1>4. \A p \in Seated(db) : h[p] \subseteq Tiles /\ h[p] # {}
  <2> SUFFICES ASSUME NEW p \in Seated(db) PROVE h[p] \subseteq Tiles /\ h[p] # {}
    OBVIOUS
  <2>1. h[p] \subseteq Tiles /\ Cardinality(h[p]) = size
    BY <1>3 DEF kSubset
  <2> QED
    BY <1>2, <2>1, FS_EmptySet
<1>5. \A v : v \in Seated(db) => \E w \in Seated(db) : w # v
  <2>1. players[1] \in Seated(db) /\ players[2] \in Seated(db) /\ players[1] # players[2]
    BY <1>1 DEF ToSet, Orderly
  <2> QED
    BY <2>1
<1>6. getStartingPlayer(players, h) \in Seated(db)
  <2>1. ToSet(players) # {}
    BY <1>1 DEF ToSet
  <2> QED
    BY <1>1, <1>4, <2>1, StarterSeated
<1> DEFINE g == db'.game
<1>7. /\ IsDomino(g) /\ g.mover \in Seated(db) /\ g.hands = h /\ g.board = {} /\ g.ends = <<>> /\ g.out = {}
      /\ g.boneyard = Tiles \ UNION {h[p] : p \in Seated(db)}
  BY <1>3, <1>6 DEF IsDomino
<1> HIDE DEF g
<1>8. Parts(g.hands, g.boneyard, g.board, Seated(db))
  BY <1>3, <1>4, <1>7 DEF Parts
<1>9. Seated(db') = Seated(db)
  BY <1>1 DEF Seated
<1>10. Table(g, Seated(db'))
  BY <1>7, <1>8, <1>9, EmptyChain DEF Table
<1>11. Going(db')
  <2>1. Active(db') = Seated(db)
    BY <1>7, <1>9 DEF Active, g
  <2> QED
    BY <1>5, <1>7, <2>1 DEF Going, g
<1> QED
  BY <1>1, <1>10, <1>11 DEF DominoInv, g

(* All steps. *)
LEMMA NextTiles ==
  ASSUME DominoAssumption, Good(db, sweep), DominoInv(db), [Next]_vars
  PROVE  DominoInv(db')
<1>1. CASE UNCHANGED vars
  BY <1>1 DEF vars, DominoInv, Going, Active, Seated
<1>2. CASE RoomStep \/ \E p \in Players : markReady(p)
  BY <1>2, RoomStepQuiet, markReadyQuiet, QuietTiles
<1>3. Seats \in Nat \ {0, 1}
  BY RoomsAssumption
<1>4. CASE \E p \in Players : handleJoin(p)
  <2>1. PICK p \in Players : Join(p, Seats, NewGames(db), TRUE)
    BY <1>4 DEF handleJoin
  <2>2. Quiet(db, db') \/ Dealt(db, db', NewGames(db))
    BY <1>3, <2>1, JoinSeen
  <2> QED
    BY <2>2, QuietTiles, DealtTiles
<1>5. CASE tryStartDominoGame
  BY <1>3, <1>5, tryStartSeen, DealtTiles DEF tryStartDominoGame
<1>6. CASE \E p \in Players : handleDisconnect(p)
  BY <1>6, AbsenceQuiet, QuietTiles DEF handleDisconnect
<1>7. ASSUME NEW p, Open(db) /\ ~Pregame(db), db' = settleGameRoom(eliminatePlayer(db, p))
      PROVE  DominoInv(db')
  BY <1>7, GoingPlaying, EliminateTiles, CommitTiles
<1>8. CASE \E p \in Players : LeaveRoom(p)
  <2>1. PICK p \in Players : Leave(p, Depart(db, p), Quit(db, p))
    BY <1>8 DEF LeaveRoom
  <2>2. Quiet(db, db') \/ (Open(db) /\ ~Pregame(db) /\ Commit(Quit(db, p)))
    BY <2>1, LeaveSeen
  <2>3. CASE Open(db) /\ ~Pregame(db) /\ Commit(eliminatePlayer(db, p))
    BY <1>7, <2>3 DEF Commit
  <2>4. CASE Open(db) /\ ~Pregame(db) /\ Commit(Resign(db, p))
    <3>1. Quiet(db, Resign(db, p))
      BY <2>4, GoodShape, FinishQuiet DEF Open, Fields, Shape, Resign
    <3> QED
      BY <2>4, <3>1, CommitQuiet, QuietTiles DEF Commit
  <2> QED
    BY <2>2, <2>3, <2>4, QuietTiles DEF Quit
<1>9. InPlay(db) => Open(db) /\ ~Pregame(db)
  BY InPlayGood DEF InPlay, Open, Pregame
<1>10. CASE forfeit
  <2>1. Quiet(db, db') \/ (InPlay(db) /\ db' = settleGameRoom(eliminatePlayer(db, sweep["grace"].player)))
    BY <1>10, HandlerSeen DEF forfeit, Sweepers
  <2> QED
    BY <1>7, <1>9, <2>1, QuietTiles
<1>11. CASE timeout
  <2>1. Quiet(db, db') \/ (InPlay(db) /\ db' = settleGameRoom(eliminatePlayer(db, sweep["clock"].player)))
    BY <1>11, HandlerSeen DEF timeout, Sweepers
  <2> QED
    BY <1>7, <1>9, <2>1, QuietTiles
<1>12. CASE \E p \in Players, tile \in Tiles, side \in 1..2 : handleMove(p, tile, side)
  BY <1>12, MoveTiles
<1>13. CASE \E p \in Players, tile \in Tiles : handleDraw(p, tile)
  BY <1>13, DrawTiles
<1>14. CASE \E p \in Players : handlePass(p)
  BY <1>14, PassedTiles
<1> QED
  BY <1>1, <1>2, <1>4, <1>5, <1>6, <1>8, <1>10, <1>11, <1>12, <1>13, <1>14 DEF Next

(* handleMove, handleDraw and eliminatePlayer, with every set of tiles: no tile is lost or *)
(* in two places, the chain closes, and the player to move is one who is still in the match. *)
THEOREM DominoTilesConserved == ASSUME DominoAssumption PROVE Spec => []TilesConserved
<1>1. Init => DominoInv(db)
  <2> SUFFICES ASSUME Init PROVE DominoInv(db)
    OBVIOUS
  <2>1. db.room.players = <<>> /\ db.room.gameReady = FALSE /\ db.game = NoGame
    BY DEF Init, NoRoom
  <2>2. Orderly(<<>>)
    BY RoomsAssumption DEF Orderly
  <2> QED
    BY <2>1, <2>2 DEF DominoInv
<1>2. Good(db, sweep) /\ DominoInv(db) /\ [Next]_vars => DominoInv(db)'
  BY NextTiles
<1>3. DominoInv(db) => TilesConserved
  <2> SUFFICES ASSUME DominoInv(db), IsDomino(db.game) PROVE TilesConserved
    BY DEF TilesConserved
  <2> DEFINE g == db.game
             all == HeldTiles(g) \cup g.boneyard \cup g.board
  <2>1. db.room.gameReady /\ Table(g, Seated(db)) /\ (db.room.status # "finished" => g.mover \in Active(db))
    BY DEF DominoInv, Going, IsDomino, NoGame
  <2>2. Parts(g.hands, g.boneyard, g.board, Seated(db)) /\ Chain(g.board, g.ends) /\ DOMAIN g.hands = Seated(db)
    BY <2>1 DEF Table, Parts
  <2> HIDE DEF g
  <2>3. all = Tiles /\ HeldTiles(g) \cap (g.boneyard \cup g.board) = {}
    BY <2>2 DEF HeldTiles, Parts
  <2>4. \E t \in all : all = TilesUpTo(t[2])
    BY <2>3, TilesFinite DEF Tiles
  <2>5. g.boneyard \cap (HeldTiles(g) \cup g.board) = {} /\ HeldTiles(g) \cap g.board = {}
    BY <2>2, <2>3 DEF Parts
  <2>6. \A p, q \in DOMAIN g.hands : p # q => g.hands[p] \cap g.hands[q] = {}
    BY <2>2 DEF Parts
  <2>7. \A p \in g.out \cap DOMAIN g.hands : g.hands[p] = {}
    BY <2>1, <2>2 DEF Table
  <2>8. InPlay(db) => g.mover \in Seated(db) \ g.out
    BY <2>1 DEF InPlay, Active, g
  <2>9. \A v : (Halves(g.board, v) + Cardinality({i \in DOMAIN g.ends : g.ends[i] = v})) % 2 = 0
    BY <2>2 DEF Chain, Closes, Shown
  <2> QED
    BY <2>4, <2>5, <2>6, <2>7, <2>8, <2>9 DEF TilesConserved, g
<1> QED
  BY <1>1, <1>2, <1>3, DominoGood, PTL DEF Spec
=============================================================================
