-------------------------- MODULE BoardGamesProofs --------------------------
(* The rooms of the games on a board: connect four, halma and the naval       *)
(* battle. The stakes and the countdowns of a room, and the result that the    *)
(* discs, the pieces and the fleets give a match, for any stake, fee, board    *)
(* and players.                                                                *)
EXTENDS ConnectFour, Halma, NavalBattle, GameRoomsProofs, WellFoundedInduction

----------------------------------------------------------------------------
(* Connect four. *)

(* dropDisc: the disc ends the game, or passes the turn. *)
LEMMA handleDropDiscKept ==
  ASSUME Good(db, sweep), NEW p \in Players, NEW col \in 1..Cols, handleDropDisc(p, col)
  PROVE  Kept
<1> DEFINE cell == <<findDropRow(db.game.board, col), col>>
           dropped == [db EXCEPT !.game.board[cell] = p]
<1>1. InPlay(db) /\ OpenBooks(db) /\ Shape(db)
  BY InPlayGood DEF handleDropDisc, InPlay
<1>2. Turned(db, dropped)
  BY <1>1 DEF Turned, Shape
<1>3. PICK e : /\ Commit(e)
               /\ e \in {NewTurn(Finish(dropped, p)), NewTurn(Finish(dropped, None)),
                         PassTurn(dropped, Opponent(db, p))}
  BY DEF handleDropDisc
<1> HIDE DEF dropped
<1>4. ASSUME NEW w
      PROVE  Plays(db, NewTurn(Finish(dropped, w)))
  <2> DEFINE f == Finish(dropped, w)
  <2>1. Plays(db, f)
    BY <1>1, <1>2, TurnedPlays
  <2> HIDE DEF f
  <2>2. Turned(f, NewTurn(f))
    BY <2>1, TurnedSelf, TurnedSteps DEF Plays, Held
  <2> QED
    BY <2>1, <2>2, PlaysTurned DEF f
<1>5. Plays(db, PassTurn(dropped, Opponent(db, p)))
  BY <1>1, <1>2, TurnedSteps, TurnedPlays
<1>6. Plays(db, e)
  BY <1>3, <1>4, <1>5
<1> QED
  BY <1>1, <1>3, <1>6, MoveKept

(* Every step keeps the books, the countdowns and the promise about the stakes. *)
LEMMA ConnectFourNextKept ==
  ASSUME Good(db, sweep), [ConnectFourNext]_vars
  PROVE  Kept
<1>1. CASE UNCHANGED vars
  BY <1>1, UnchangedKept
<1>2. CASE RoomStep
  BY <1>2, RoomStepKept
<1>3. CASE \E p \in Players : markReady(p)
  BY <1>3, markReadyKept
<1>4. CASE \E p \in Players : handleJoin(p)
  BY <1>4, JoinKept DEF handleJoin
<1>5. CASE tryStartConnectFourGame
  BY <1>5, tryStartKept DEF tryStartConnectFourGame
<1>6. CASE \E p \in Players : handleDisconnect(p)
  BY <1>6, AbsenceKept DEF handleDisconnect
<1>7. CASE \E p \in Players : LeaveRoom(p)
  BY <1>7, LeavingKept, ResignPlays DEF LeaveRoom
<1>8. CASE executeForfeit
  BY <1>8, HandlerKept, ResignPlays DEF executeForfeit, Sweepers
<1>9. CASE executeConnectFourTurnTimeout
  BY <1>9, HandlerKept, ResignPlays DEF executeConnectFourTurnTimeout, Timeout, Sweepers
<1>10. CASE \E p \in Players, col \in 1..Cols : handleDropDisc(p, col)
  BY <1>10, handleDropDiscKept
<1> QED
  BY <1>1, <1>2, <1>3, <1>4, <1>5, <1>6, <1>7, <1>8, <1>9, <1>10 DEF ConnectFourNext

(* Every reachable state of a room of connect four has its books in order. *)
THEOREM ConnectFourGood == ConnectFourSpec => []Good(db, sweep)
<1>1. Init => Good(db, sweep)
  BY InitGood
<1>2. Good(db, sweep) /\ [ConnectFourNext]_vars => Good(db, sweep)'
  BY ConnectFourNextKept DEF Kept
<1> QED
  BY <1>1, <1>2, PTL DEF ConnectFourSpec

(* settleGameRoom and everything before it: in every state of every room of connect *)
(* four, the escrow has the stakes that came in and did not go back, until the      *)
(* winner of the match takes them.                                                  *)
THEOREM ConnectFourStakesBalance == ConnectFourSpec => []StakesBalance
<1>1. Good(db, sweep) => StakesBalance
  BY GoodBalance
<1> QED
  BY <1>1, ConnectFourGood, PTL

(* grace-period.service.ts sweep: the sweeper that finishes with an earlier absence *)
(* leaves the countdown of a player who is away again alone.                        *)
THEOREM ConnectFourRefreshedRowSurvives == ConnectFourSpec => RefreshedRowSurvives
<1>1. Good(db, sweep) /\ [ConnectFourNext]_vars => [GraceStep]_vars
  BY ConnectFourNextKept DEF Kept
<1>2. ConnectFourSpec => [][GraceStep]_vars
  BY <1>1, ConnectFourGood, PTL DEF ConnectFourSpec
<1> QED
  BY <1>2 DEF RefreshedRowSurvives, GraceStep

(* Every step of a room of connect four is a step of RoomContract: the stakes come in *)
(* before the match, lie untouched until everyone has seen the board and while the    *)
(* match is played, and go out once, to a player who staked or back to all.           *)
THEOREM ConnectFourImplementsContract == ConnectFourSpec => Contract!Spec
<1>1. Init => Contract!Init
  BY InitContract
<1>2. Good(db, sweep) /\ [ConnectFourNext]_vars => [Contract!Next]_(Contract!contractVars)
  BY ConnectFourNextKept, PromiseContract DEF Kept
<1> QED
  BY <1>1, <1>2, ConnectFourGood, PTL DEF ConnectFourSpec, Contract!Spec

----------------------------------------------------------------------------
(* The board. Cells are pairs of positive integers, and there are finitely many. *)
LEMMA CellsFinite ==
  ASSUME BoardAssumption
  PROVE  /\ IsFiniteSet(Cells) /\ Cells # {}
         /\ \A c \in Cells : c = <<c[1], c[2]>> /\ c[1] \in 1..Rows /\ c[2] \in 1..Cols
         /\ \A c \in Cells : \A r \in 1..c[1] : <<r, c[2]>> \in Cells
<1>1. Rows \in Nat /\ Cols \in Nat /\ 1 <= Rows /\ 1 <= Cols
  BY DEF BoardAssumption
<1>2. IsFiniteSet(1..Rows) /\ IsFiniteSet(1..Cols)
  BY <1>1, FS_Interval
<1>3. IsFiniteSet(Cells)
  BY <1>2, FS_Product DEF Cells
<1>4. <<1, 1>> \in Cells
  BY <1>1 DEF Cells
<1> QED
  BY <1>1, <1>3, <1>4 DEF Cells

(* findDropRow: a column with room has a lowest free row. *)
LEMMA LowestRow ==
  ASSUME BoardAssumption, NEW b, NEW col, \E r \in 1..Rows : b[<<r, col>>] = None
  PROVE  LET r == findDropRow(b, col)
         IN /\ r \in 1..Rows /\ b[<<r, col>>] = None
            /\ \A s \in r+1..Rows : b[<<s, col>>] # None
<1> DEFINE R == {ss \in Nat \X Nat : ss[1] < ss[2]}
           T == {n \in Nat : n < Rows /\ b[<<Rows - n, col>>] = None}
<1>1. Rows \in Nat /\ IsWellFoundedOn(R, Nat)
  BY NatLessThanWellFounded DEF BoardAssumption, OpToRel
<1>2. PICK r \in 1..Rows : b[<<r, col>>] = None
  OBVIOUS
<1>3. Rows - r \in T
  <2>1. Rows - r \in Nat /\ Rows - r < Rows /\ Rows - (Rows - r) = r
    BY <1>1
  <2> QED
    BY <1>2, <2>1
<1> HIDE DEF R
<1>4. PICK m \in T : \A n \in T : <<n, m>> \notin R
  <2>1. T \subseteq Nat /\ T # {}
    BY <1>3
  <2> HIDE DEF T
  <2> QED
    BY <1>1, <2>1, WFMin
<1> DEFINE low == Rows - m
<1>5. low \in 1..Rows /\ b[<<low, col>>] = None
  BY <1>1, <1>4
<1>6. ASSUME NEW s \in low+1..Rows, b[<<s, col>>] = None
      PROVE  FALSE
  <2>1. Rows - s \in Nat /\ Rows - s < Rows /\ Rows - (Rows - s) = s /\ Rows - s < m /\ m \in Nat
    BY <1>1, <1>4, <1>5
  <2>2. Rows - s \in T
    BY <1>6, <2>1
  <2>3. <<Rows - s, m>> \in R
    BY <2>1 DEF R
  <2> QED
    BY <1>4, <2>2, <2>3
<1> HIDE DEF low
<1> DEFINE Lowest(q) == b[<<q, col>>] = None /\ \A s \in q+1..Rows : b[<<s, col>>] # None
<1>7. Lowest(low)
  BY <1>5, <1>6
<1>8. findDropRow(b, col) = CHOOSE q \in 1..Rows : Lowest(q)
  BY DEF findDropRow
<1> HIDE DEF Lowest
<1>9. findDropRow(b, col) \in 1..Rows /\ Lowest(findDropRow(b, col))
  BY <1>5, <1>7, <1>8
<1> QED
  BY <1>9 DEF Lowest

(* Four members make a set of four. *)
LEMMA FourCells ==
  ASSUME NEW S, IsFiniteSet(S), NEW c1 \in S, NEW c2 \in S, NEW c3 \in S, NEW c4 \in S,
         c1 # c2, c1 # c3, c1 # c4, c2 # c3, c2 # c4, c3 # c4
  PROVE  Cardinality(S) >= 4
<1>1. IsFiniteSet({c1}) /\ Cardinality({c1}) = 1
  BY FS_Singleton
<1>2. IsFiniteSet({c1} \cup {c2}) /\ Cardinality({c1} \cup {c2}) = 2
  <2>1. c2 \notin {c1}
    OBVIOUS
  <2>2. Cardinality({c1} \cup {c2}) = Cardinality({c1}) + 1
    BY <1>1, <2>1, FS_AddElement
  <2> QED
    BY <1>1, <2>2, FS_AddElement
<1>3. IsFiniteSet({c1} \cup {c2} \cup {c3}) /\ Cardinality({c1} \cup {c2} \cup {c3}) = 3
  BY <1>2, FS_AddElement
<1>4. Cardinality({c1} \cup {c2} \cup {c3} \cup {c4}) = 4
  BY <1>3, FS_AddElement
<1>5. {c1} \cup {c2} \cup {c3} \cup {c4} \in SUBSET S
  OBVIOUS
<1>6. Cardinality({c1} \cup {c2} \cup {c3} \cup {c4}) <= Cardinality(S) /\ Cardinality(S) \in Nat
  BY <1>5, FS_Subset, FS_CardinalityType
<1> QED
  BY <1>4, <1>6

(* A line seen from any of its cells. *)
LEMMA Steps ==
  ASSUME NEW x \in Int, NEW i \in Int, NEW k \in Int, NEW t \in {-1, 0, 1}
  PROVE  /\ (x + k * t) + (i - k) * t = x + i * t
         /\ (x + k * t) + (k - i) * (-t) = x + i * t
<1>1. CASE t = -1
  BY <1>1
<1>2. CASE t = 0
  BY <1>2
<1>3. CASE t = 1
  BY <1>3
<1> QED
  BY <1>1, <1>2, <1>3

(* checkWinFromCell: a line through the cell is found, in whichever of its cells the *)
(* disc has fallen.                                                                  *)
LEMMA LineWins ==
  ASSUME BoardAssumption, NEW b, NEW cell \in Cells, NEW c \in Cells, NEW v \in Directions,
         NEW k \in 0..3, cell = <<c[1] + k * v[1], c[2] + k * v[2]>>,
         \A i \in 0..3 : /\ <<c[1] + i * v[1], c[2] + i * v[2]>> \in Cells
                         /\ b[<<c[1] + i * v[1], c[2] + i * v[2]>>] = b[cell]
  PROVE  checkWinFromCell(b, cell)
<1> DEFINE L(i) == <<c[1] + i * v[1], c[2] + i * v[2]>>
           At(u, i) == <<cell[1] + i * u[1], cell[2] + i * u[2]>>
           w == <<-v[1], -v[2]>>
           F == cellsInDirection(b, cell, v)
           B == cellsInDirection(b, cell, w)
<1>1. /\ c[1] \in Int /\ c[2] \in Int /\ v[1] \in {-1, 0, 1} /\ v[2] \in {-1, 0, 1}
      /\ cell[1] = c[1] + k * v[1] /\ cell[2] = c[2] + k * v[2]
      /\ w[1] = -v[1] /\ w[2] = -v[2] /\ k \in Int
  BY CellsFinite DEF Directions
<1>2. ASSUME NEW i \in 0..3
      PROVE  At(v, i - k) = L(i) /\ At(w, k - i) = L(i)
  <2>1. (c[1] + k * v[1]) + (i - k) * v[1] = c[1] + i * v[1] /\ (c[1] + k * v[1]) + (k - i) * (-v[1]) = c[1] + i * v[1]
    BY <1>1, Steps
  <2>2. (c[2] + k * v[2]) + (i - k) * v[2] = c[2] + i * v[2] /\ (c[2] + k * v[2]) + (k - i) * (-v[2]) = c[2] + i * v[2]
    BY <1>1, Steps
  <2> QED
    BY <1>1, <2>1, <2>2
<1>3. \A i, j \in 0..3 : i # j => L(i) # L(j)
  <2> SUFFICES ASSUME NEW i \in 0..3, NEW j \in 0..3, L(i) = L(j)
               PROVE  i = j
    OBVIOUS
  <2>1. c[1] + i * v[1] = c[1] + j * v[1] /\ c[2] + i * v[2] = c[2] + j * v[2]
    OBVIOUS
  <2>2. v[1] = 1 \/ v[2] = 1
    BY DEF Directions
  <2> QED
    BY <1>1, <2>1, <2>2
<1>4. \A i \in 0..3 : L(i) \in Cells /\ b[L(i)] = b[cell]
  OBVIOUS
<1> HIDE DEF L, w
<1>5. ASSUME NEW u, NEW n \in 0..3, \A i \in 1..n : At(u, i) \in Cells /\ b[At(u, i)] = b[cell]
      PROVE  \A i \in 1..n : At(u, i) \in cellsInDirection(b, cell, u)
  BY <1>5 DEF cellsInDirection, WinLength
<1>6. ASSUME NEW u
      PROVE  cellsInDirection(b, cell, u) \subseteq Cells
  BY DEF cellsInDirection
<1>7. \A i \in 0..3 : i > k => L(i) \in F
  <2>1. \A j \in 1..3-k : At(v, j) \in Cells /\ b[At(v, j)] = b[cell]
    <3> SUFFICES ASSUME NEW j \in 1..3-k PROVE At(v, j) = L(j + k) /\ j + k \in 0..3
      BY <1>4
    <3>1. j + k \in 0..3 /\ (j + k) - k = j
      OBVIOUS
    <3> QED
      BY <1>2, <3>1
  <2>2. \A j \in 1..3-k : At(v, j) \in F
    <3>1. 3 - k \in 0..3
      OBVIOUS
    <3> QED
      BY <1>5, <2>1, <3>1
  <2> SUFFICES ASSUME NEW i \in 0..3, i > k PROVE L(i) \in F
    OBVIOUS
  <2>3. i - k \in 1..3-k
    OBVIOUS
  <2> QED
    BY <1>2, <2>2, <2>3
<1>8. \A i \in 0..3 : i < k => L(i) \in B
  <2>1. \A j \in 1..k : At(w, j) \in Cells /\ b[At(w, j)] = b[cell]
    <3> SUFFICES ASSUME NEW j \in 1..k PROVE At(w, j) = L(k - j) /\ k - j \in 0..3
      BY <1>4
    <3>1. k - j \in 0..3 /\ k - (k - j) = j
      OBVIOUS
    <3> QED
      BY <1>2, <3>1
  <2>2. \A j \in 1..k : At(w, j) \in B
    BY <1>5, <2>1
  <2> SUFFICES ASSUME NEW i \in 0..3, i < k PROVE L(i) \in B
    OBVIOUS
  <2>3. k - i \in 1..k
    OBVIOUS
  <2> QED
    BY <1>2, <2>2, <2>3
<1>9. L(k) = cell
  BY DEF L
<1> DEFINE S == {cell} \cup F \cup B
<1>10. IsFiniteSet(S)
  <2>1. S \in SUBSET Cells
    BY <1>6
  <2> HIDE DEF S
  <2> QED
    BY <2>1, CellsFinite, FS_Subset
<1>11. \A i \in 0..3 : L(i) \in S
  BY <1>7, <1>8, <1>9
<1> HIDE DEF S
<1>12. Cardinality(S) >= 4
  <2>1. 0 \in 0..3 /\ 1 \in 0..3 /\ 2 \in 0..3 /\ 3 \in 0..3
    OBVIOUS
  <2>2. L(0) \in S /\ L(1) \in S /\ L(2) \in S /\ L(3) \in S
    BY <1>11, <2>1
  <2>3. L(0) # L(1) /\ L(0) # L(2) /\ L(0) # L(3) /\ L(1) # L(2) /\ L(1) # L(3) /\ L(2) # L(3)
    BY <1>3
  <2> QED
    BY <1>10, <2>2, <2>3, FourCells
<1> QED
  BY <1>12 DEF checkWinFromCell, WinLength, S, w
----------------------------------------------------------------------------
(* A match between x and y on board b: what DiscsDecide says, and whose turn it is. *)
Rests(b) == \A c \in Cells : b[c] = None => \A r \in 1..c[1] : b[<<r, c[2]>>] = None
Decides(b, x, y, status, winner, mover) ==
  /\ b \in [Cells -> {None, x, y}] /\ Rests(b)
  /\ Discs(b, x) - Discs(b, y) \in {0, 1}
  /\ \A p \in {x, y} : Line(b, p) =>
       /\ status = "finished" /\ winner = p
       /\ Discs(b, x) - Discs(b, y) = IF p = x THEN 1 ELSE 0
  /\ (\A c \in Cells : b[c] # None) => status = "finished"
  /\ status # "finished" =>
       /\ mover \in {x, y}
       /\ mover = x => Discs(b, x) - Discs(b, y) = 0
       /\ mover = y => Discs(b, x) - Discs(b, y) = 1

(* Board d is board b with a disc of p in an empty cell. *)
Dropped(b, d, cell, p) ==
  /\ DOMAIN b = Cells /\ cell \in Cells /\ b[cell] = None /\ p # None
  /\ d = [c \in Cells |-> IF c = cell THEN p ELSE b[c]]

(* The discs of a player are counted. *)
LEMMA DiscsCount ==
  ASSUME BoardAssumption, NEW b, NEW d, NEW cell, NEW p, Dropped(b, d, cell, p)
  PROVE  /\ Discs(d, p) = Discs(b, p) + 1
         /\ \A q : q # p /\ q # None => Discs(d, q) = Discs(b, q)
         /\ \A q : Discs(b, q) \in Nat
<1> DEFINE S(e, q) == {c \in Cells : e[c] = q}
<1>1. /\ DOMAIN b = Cells /\ DOMAIN d = Cells /\ cell \in Cells /\ b[cell] = None
      /\ p # None /\ d[cell] = p /\ \A c \in Cells : c # cell => d[c] = b[c]
  BY DEF Dropped
<1>2. \A e, q : IsFiniteSet(S(e, q))
  BY CellsFinite, FS_Subset
<1>3. S(d, p) = S(b, p) \cup {cell} /\ cell \notin S(b, p)
  BY <1>1
<1>4. \A q : q # p /\ q # None => S(d, q) = S(b, q)
  BY <1>1
<1>5. (\A q : Cardinality(S(b, q)) \in Nat) /\ Cardinality(S(d, p)) = Cardinality(S(b, p)) + 1
  <2>1. \A q : IsFiniteSet(S(b, q))
    BY <1>2
  <2> HIDE DEF S
  <2> QED
    BY <1>3, <2>1, FS_AddElement, FS_CardinalityType
<1>6. \A q : Discs(b, q) = Cardinality(S(b, q)) /\ Discs(d, q) = Cardinality(S(d, q))
  BY <1>1 DEF Discs
<1> HIDE DEF S
<1> QED
  BY <1>4, <1>5, <1>6

(* dropDisc: a disc falls on discs. *)
LEMMA DropRests ==
  ASSUME BoardAssumption, NEW b, DOMAIN b = Cells, Rests(b), NEW col \in 1..Cols,
         \E r \in 1..Rows : b[<<r, col>>] = None, NEW p, p # None
  PROVE  LET cell == <<findDropRow(b, col), col>>
         IN Dropped(b, [b EXCEPT ![cell] = p], cell, p) /\ Rests([b EXCEPT ![cell] = p])
<1> DEFINE low == findDropRow(b, col)
           cell == <<low, col>>
           d == [b EXCEPT ![cell] = p]
<1>1. low \in 1..Rows /\ b[<<low, col>>] = None /\ \A s \in low+1..Rows : b[<<s, col>>] # None
  BY LowestRow
<1> HIDE DEF low
<1>2. cell \in Cells /\ cell[1] = low /\ cell[2] = col
  BY <1>1 DEF Cells
<1>3. DOMAIN d = Cells /\ d[cell] = p /\ \A c \in Cells : c # cell => d[c] = b[c]
  BY <1>2
<1> HIDE DEF d
<1>4. ASSUME NEW c \in Cells, d[c] = None, NEW r \in 1..c[1]
      PROVE  d[<<r, c[2]>>] = None
  <2>1. c # cell /\ b[c] = None
    BY <1>3, <1>4
  <2>2. b[<<r, c[2]>>] = None /\ <<r, c[2]>> \in Cells
    BY <2>1, CellsFinite DEF Rests
  <2>3. <<r, c[2]>> # cell
    <3>1. SUFFICES ASSUME <<r, c[2]>> = cell PROVE FALSE
      OBVIOUS
    <3>2. r = low /\ c[2] = col
      BY <3>1
    <3>3. c = <<c[1], col>> /\ c[1] \in 1..Rows
      BY <3>2, CellsFinite
    <3>4. c[1] # low
      BY <2>1, <3>3
    <3>5. c[1] \in low+1..Rows
      BY <1>1, <3>2, <3>3, <3>4
    <3> QED
      BY <1>1, <2>1, <3>3, <3>5
  <2> QED
    BY <1>3, <2>2, <2>3
<1> QED
  BY <1>1, <1>2, <1>4 DEF Rests, Dropped, d, low

(* The line that a disc makes is its owner's, and is found. *)
LEMMA DropLine ==
  ASSUME BoardAssumption, NEW b, NEW d, NEW cell, NEW p, Dropped(b, d, cell, p),
         NEW q, q # None, Line(d, q)
  PROVE  \/ Line(b, q)
         \/ q = p /\ checkWinFromCell(d, cell)
<1> DEFINE at(c, v, i) == <<c[1] + i * v[1], c[2] + i * v[2]>>
<1>1. /\ DOMAIN b = Cells /\ DOMAIN d = Cells /\ cell \in Cells
      /\ d[cell] = p /\ \A c \in Cells : c # cell => d[c] = b[c]
  BY DEF Dropped
<1>2. Line(d, q)
  OBVIOUS
<1>3. PICK c \in Cells, v \in Directions : \A i \in 0..3 : at(c, v, i) \in Cells /\ d[at(c, v, i)] = q
  <2>1. \A i : i \in 0..WinLength-1 <=> i \in 0..3
    BY DEF WinLength
  <2>2. PICK c \in Cells, v \in Directions : \A i \in 0..WinLength-1 : at(c, v, i) \in Cells /\ d[at(c, v, i)] = q
    <3>1. DOMAIN d = Cells
      BY <1>1
    <3> QED
      BY <1>2, <3>1 DEF Line
  <2>3. \A i \in 0..3 : at(c, v, i) \in Cells /\ d[at(c, v, i)] = q
    BY <2>1, <2>2
  <2> HIDE DEF at
  <2> QED
    BY <2>3
<1>4. CASE \E k \in 0..3 : at(c, v, k) = cell
  <2>1. PICK k \in 0..3 : at(c, v, k) = cell
    BY <1>4
  <2>2. q = p
    BY <1>1, <1>3, <2>1
  <2>3. checkWinFromCell(d, cell)
    <3>1. \A i \in 0..3 : at(c, v, i) \in Cells /\ d[at(c, v, i)] = d[cell]
      BY <1>1, <1>3, <2>2
    <3>2. cell \in Cells /\ cell = at(c, v, k)
      BY <1>1, <2>1
    <3> QED
      BY <3>1, <3>2, LineWins
  <2> QED
    BY <2>2, <2>3
<1>5. CASE \A k \in 0..3 : at(c, v, k) # cell
  <2>1. \A i \in 0..3 : at(c, v, i) \in Cells /\ b[at(c, v, i)] = q
    BY <1>1, <1>3, <1>5
  <2>2. Line(b, q)
    <3>1. \A i : i \in 0..WinLength-1 <=> i \in 0..3
      BY DEF WinLength
    <3>2. DOMAIN b = Cells
      BY <1>1
    <3>3. \A i \in 0..WinLength-1 : at(c, v, i) \in Cells /\ b[at(c, v, i)] = q
      BY <2>1, <3>1
    <3> QED
      BY <3>2, <3>3 DEF Line
  <2> QED
    BY <2>2
<1> QED
  BY <1>4, <1>5

(* dropDisc as a whole: what a disc of the player to move makes of the match. *)
LEMMA DropDecides ==
  ASSUME BoardAssumption, NEW b, NEW x, NEW y, x # y, x # None, y # None,
         NEW status, status # "finished", NEW winner, NEW p, p \in {x, y},
         Decides(b, x, y, status, winner, p),
         NEW d, NEW cell, Dropped(b, d, cell, p), Rests(d)
  PROVE  \A m : /\ checkWinFromCell(d, cell) => Decides(d, x, y, "finished", p, m)
                /\ ~checkWinFromCell(d, cell) => Decides(d, x, y, "finished", None, m)
                /\ ~checkWinFromCell(d, cell) /\ ~isBoardFull(d) /\ m \in {x, y} /\ m # p =>
                     Decides(d, x, y, status, winner, m)
<1>1. d \in [Cells -> {None, x, y}]
  BY DEF Decides, Dropped
<1>2. /\ Discs(d, p) = Discs(b, p) + 1
      /\ \A q : q # p /\ q # None => Discs(d, q) = Discs(b, q)
      /\ \A q : Discs(b, q) \in Nat
  BY DiscsCount
<1>3. \A q \in {x, y} : ~Line(b, q)
  BY DEF Decides
<1>4. \A q \in {x, y} : Line(d, q) => q = p /\ checkWinFromCell(d, cell)
  BY <1>3, DropLine
<1>5. Discs(d, x) - Discs(d, y) = IF p = x THEN 1 ELSE 0
  <2>1. CASE p = x
    <3>1. Discs(b, x) - Discs(b, y) = 0
      BY <2>1 DEF Decides
    <3>2. Discs(d, x) = Discs(b, x) + 1 /\ Discs(d, y) = Discs(b, y)
      BY <1>2, <2>1
    <3> QED
      BY <1>2, <2>1, <3>1, <3>2
  <2>2. CASE p = y
    <3>1. Discs(b, x) - Discs(b, y) = 1
      BY <2>2 DEF Decides
    <3>2. Discs(d, x) = Discs(b, x) /\ Discs(d, y) = Discs(b, y) + 1
      BY <1>2, <2>2
    <3> QED
      BY <1>2, <2>2, <3>1, <3>2
  <2> QED
    BY <2>1, <2>2
<1>6. ASSUME NEW m, checkWinFromCell(d, cell)
      PROVE  Decides(d, x, y, "finished", p, m)
  BY <1>1, <1>4, <1>5 DEF Decides
<1>7. ASSUME NEW m, ~checkWinFromCell(d, cell)
      PROVE  Decides(d, x, y, "finished", None, m)
  BY <1>1, <1>4, <1>5, <1>7 DEF Decides
<1>8. ASSUME NEW m, ~checkWinFromCell(d, cell), ~isBoardFull(d), m \in {x, y}, m # p
       PROVE  Decides(d, x, y, status, winner, m)
  BY <1>1, <1>4, <1>5, <1>8 DEF Decides, isBoardFull
<1> QED
  BY <1>6, <1>7, <1>8

(* createEmptyBoard: the first player begins on a board without discs. *)
LEMMA EmptyDecides ==
  ASSUME BoardAssumption, NEW x, NEW y, x # y, x # None, y # None, NEW status, NEW winner
  PROVE  Decides(createEmptyBoard, x, y, status, winner, x)
<1> DEFINE b == createEmptyBoard
<1>1. DOMAIN b = Cells /\ \A c \in Cells : b[c] = None
  BY DEF createEmptyBoard
<1>2. b \in [Cells -> {None, x, y}]
  BY DEF createEmptyBoard
<1> HIDE DEF b
<1>3. Rests(b)
  BY <1>1, CellsFinite DEF Rests
<1>4. \A p \in {x, y} : Discs(b, p) = 0
  <2> SUFFICES ASSUME NEW p \in {x, y} PROVE Discs(b, p) = 0
    OBVIOUS
  <2>1. {c \in DOMAIN b : b[c] = p} = {}
    BY <1>1
  <2> QED
    BY <2>1, FS_EmptySet DEF Discs
<1>5. \A p \in {x, y} : ~Line(b, p)
  <2> SUFFICES ASSUME NEW p \in {x, y}, Line(b, p) PROVE FALSE
    OBVIOUS
  <2>1. 0 \in 0..WinLength-1
    BY DEF WinLength
  <2>2. \E c \in Cells : b[c] = p
    BY <1>1, <2>1 DEF Line
  <2> QED
    BY <1>1, <2>2
<1>6. ~\A c \in Cells : b[c] # None
  BY <1>1, CellsFinite
<1>7. Decides(b, x, y, status, winner, x)
  BY <1>2, <1>3, <1>4, <1>5, <1>6 DEF Decides
<1> QED
  BY <1>7 DEF b

----------------------------------------------------------------------------
(* The match of a room. *)
Match(d) ==
  /\ d.room.gameReady /\ IsConnectFour(d.game)
  /\ Len(d.room.players) = 2 /\ d.room.players[1] \in Players /\ d.room.players[2] \in Players
  /\ d.room.players[1] # d.room.players[2]
  /\ Decides(d.game.board, d.room.players[1], d.room.players[2], d.room.status, d.room.winner, d.game.mover)
DiscsInv(d) == Orderly(d.room.players) /\ (d.game = NoGame \/ Match(d))

(* What leaves the document alone, or deals, keeps the invariant. *)
LEMMA QuietDiscs ==
  ASSUME DiscsInv(db), Quiet(db, db')
  PROVE  DiscsInv(db')
<1>1. Orderly(db'.room.players) /\ db'.game = db.game
  BY DEF DiscsInv, Quiet, Result
<1>2. CASE Match(db)
  <2>1. /\ db'.room.gameReady /\ db'.room.players = db.room.players
        /\ db.room.status = "finished" => db'.room.status = "finished" /\ db'.room.winner = db.room.winner
    BY <1>2 DEF Match, Quiet, Result
  <2>2. ASSUME NEW b, NEW x, NEW y, NEW m, NEW s, NEW w, Decides(b, x, y, db.room.status, db.room.winner, m),
               db.room.status = "finished" => s = "finished" /\ w = db.room.winner
        PROVE  Decides(b, x, y, s, w, m)
    BY <2>2 DEF Decides
  <2>3. Match(db')
    BY <1>1, <1>2, <2>1, <2>2 DEF Match
  <2> QED
    BY <1>1, <2>3 DEF DiscsInv
<1>3. CASE db.game = NoGame
  BY <1>1, <1>3 DEF DiscsInv
<1> QED
  BY <1>2, <1>3 DEF DiscsInv

LEMMA DealsDiscs ==
  ASSUME BoardAssumption, DiscsInv(db), Dealt(db, db', {NewGame(db)})
  PROVE  DiscsInv(db')
<1> DEFINE s == db.room.players
<1>1. Orderly(s) /\ Len(s) > 1 /\ db'.room.players = s /\ db'.room.gameReady
      /\ db'.game = NewGame(db) /\ Seats = 2
  BY DEF DiscsInv, Dealt, BoardAssumption
<1>2. Len(s) = 2 /\ s[1] \in Players /\ s[2] \in Players /\ s[1] # s[2]
  <2>1. s \in Seq(Players) /\ Len(s) <= 2 /\ Len(s) > 1
    BY <1>1 DEF Orderly
  <2> HIDE DEF s
  <2>2. Len(s) \in Nat /\ DOMAIN s = 1..Len(s)
    BY <2>1
  <2>3. Len(s) = 2
    BY <2>1, <2>2
  <2>4. 1 \in DOMAIN s /\ 2 \in DOMAIN s
    BY <2>2, <2>3
  <2>5. s[1] = s[2] => 1 = 2
    BY <1>1, <2>4 DEF Orderly
  <2> QED
    BY <2>1, <2>3, <2>4, <2>5
<1>3. s[1] # None /\ s[2] # None
  BY <1>2, RoomsAssumption
<1>4. IsConnectFour(db'.game) /\ db'.game.board = createEmptyBoard /\ db'.game.mover = s[1]
  BY <1>1 DEF NewGame, IsConnectFour
<1>5. Decides(createEmptyBoard, s[1], s[2], db'.room.status, db'.room.winner, s[1])
  BY <1>2, <1>3, EmptyDecides
<1> QED
  BY <1>1, <1>2, <1>4, <1>5 DEF DiscsInv, Match

(* Two players are each other's opponents. *)
LEMMA OtherPlayer ==
  ASSUME NEW d, Len(d.room.players) = 2, Orderly(d.room.players), NEW p \in ToSet(d.room.players)
  PROVE  /\ Opponent(d, p) \in {d.room.players[1], d.room.players[2]} /\ Opponent(d, p) # p
         /\ p \in {d.room.players[1], d.room.players[2]}
<1> DEFINE s == d.room.players
           Next2(i) == s[i] # p /\ \A j \in 1..i-1 : s[j] = p
<1>1. DOMAIN s = {1, 2} /\ s[1] # s[2] /\ p \in {s[1], s[2]}
  BY DEF Orderly, ToSet
<1>2. \E i \in DOMAIN s : Next2(i)
  <2>1. CASE p = s[1]
    <3>1. Next2(2)
      BY <1>1, <2>1
    <3> QED
      BY <1>1, <3>1
  <2>2. CASE p = s[2]
    <3>1. Next2(1)
      BY <1>1, <2>2
    <3> QED
      BY <1>1, <3>1
  <2> QED
    BY <1>1, <2>1, <2>2
<1>3. Opponent(d, p) = s[CHOOSE i \in DOMAIN s : Next2(i)]
  BY DEF Opponent
<1>4. Opponent(d, p) \in {s[1], s[2]} /\ Opponent(d, p) # p
  BY <1>1, <1>2, <1>3
<1> QED
  BY <1>1, <1>4

(* handleDropDisc: the disc falls, and the match ends or the turn passes. *)
LEMMA DropDiscs ==
  ASSUME BoardAssumption, Good(db, sweep), DiscsInv(db), NEW p \in Players, NEW col \in 1..Cols,
         handleDropDisc(p, col)
  PROVE  DiscsInv(db')
<1> DEFINE b == db.game.board
           x == db.room.players[1]
           y == db.room.players[2]
           cell == <<findDropRow(b, col), col>>
           d == [b EXCEPT ![cell] = p]
           dropped == [db EXCEPT !.game.board[cell] = p]
           foe == Opponent(db, p)
<1>1. /\ db.game.mover = p /\ db.room.status = "started" /\ p \in ToSet(db.room.players)
      /\ \E r \in 1..Rows : b[<<r, col>>] = None
  BY DEF handleDropDisc, InPlay, Seated
<1>2. Match(db) /\ Orderly(db.room.players) /\ Fields(db)
  <2>1. db.game # NoGame
    BY <1>1, RoomsAssumption DEF NoGame
  <2> QED
    BY <2>1, GoodShape DEF DiscsInv, Fields, Shape
<1>3. /\ x \in Players /\ y \in Players /\ x # y /\ x # None /\ y # None
      /\ Decides(b, x, y, db.room.status, db.room.winner, p)
  BY <1>1, <1>2, RoomsAssumption DEF Match
<1>4. p \in {x, y} /\ foe \in {x, y} /\ foe # p
  BY <1>1, <1>2, OtherPlayer DEF Match
<1>5. \A m : /\ checkWinFromCell(d, cell) => Decides(d, x, y, "finished", p, m)
             /\ ~checkWinFromCell(d, cell) => Decides(d, x, y, "finished", None, m)
             /\ ~checkWinFromCell(d, cell) /\ ~isBoardFull(d) /\ m \in {x, y} /\ m # p =>
                  Decides(d, x, y, db.room.status, db.room.winner, m)
  <2>1. db.room.status # "finished"
    BY <1>1
  <2>2. \E r \in 1..Rows : b[<<r, col>>] = None
    BY <1>1
  <2>3. x # y /\ x # None /\ y # None /\ p \in {x, y} /\ Decides(b, x, y, db.room.status, db.room.winner, p)
    BY <1>3, <1>4
  <2>4. Dropped(b, d, cell, p) /\ Rests(d)
    <3>1. DOMAIN b = Cells /\ Rests(b) /\ p # None
      BY <1>3, <1>4 DEF Decides
    <3> HIDE DEF b
    <3> QED
      BY <2>2, <3>1, DropRests
  <2> HIDE DEF b, x, y, cell, d
  <2> QED
    BY <2>1, <2>3, <2>4, DropDecides
<1>6. /\ Fields(dropped) /\ dropped.room = db.room /\ IsConnectFour(dropped.game) /\ dropped.game.board = d
  BY <1>2 DEF Fields, Match, IsConnectFour
<1>7. Commit(IF checkWinFromCell(d, cell) THEN NewTurn(Finish(dropped, p))
             ELSE IF isBoardFull(d) THEN NewTurn(Finish(dropped, None))
             ELSE PassTurn(dropped, foe))
  <2>1. Commit(IF checkWinFromCell(dropped.game.board, cell) THEN NewTurn(Finish(dropped, p))
               ELSE IF isBoardFull(dropped.game.board) THEN NewTurn(Finish(dropped, None))
               ELSE PassTurn(dropped, foe))
    BY DEF handleDropDisc
  <2> QED
    BY <1>6, <2>1
<1> HIDE DEF dropped, d, cell, foe, b, x, y
<1>8. ASSUME NEW e, Commit(e), Fields(e), IsConnectFour(e.game), e.game.board = d,
             e.room.players = db.room.players, e.room.gameReady = db.room.gameReady,
             Decides(d, x, y, e.room.status, e.room.winner, e.game.mover)
      PROVE  DiscsInv(db')
  <2>1. /\ db'.game = e.game /\ db'.room.status = e.room.status /\ db'.room.winner = e.room.winner
        /\ db'.room.players = db.room.players /\ db'.room.gameReady = db.room.gameReady
    BY <1>8, SettleQuiet DEF Commit
  <2>2. Match(db')
    BY <1>2, <1>8, <2>1 DEF Match, x, y
  <2> QED
    BY <1>2, <2>1, <2>2 DEF DiscsInv
<1>9. ASSUME NEW w
      PROVE  LET e == NewTurn(Finish(dropped, w))
             IN /\ Fields(e) /\ IsConnectFour(e.game) /\ e.game.board = d
                /\ e.room.players = db.room.players /\ e.room.gameReady = db.room.gameReady
                /\ e.room.status = "finished" /\ e.room.winner = w
  <2> DEFINE f == Finish(dropped, w)
  <2>1. /\ Fields(f) /\ f.game = dropped.game
        /\ f.room.players = db.room.players /\ f.room.gameReady = db.room.gameReady
        /\ f.room.status = "finished" /\ f.room.winner = w
    BY <1>6 DEF Finish, Fields
  <2> HIDE DEF f
  <2>2. Fields(NewTurn(f)) /\ NewTurn(f).game = f.game /\ NewTurn(f).room = f.room
    BY <2>1 DEF NewTurn, Fields
  <2> QED
    BY <1>6, <2>1, <2>2 DEF f
<1>10. LET e == PassTurn(dropped, foe)
       IN Fields(e) /\ IsConnectFour(e.game) /\ e.game.board = d /\ e.game.mover = foe /\ e.room = db.room
  BY <1>6 DEF PassTurn, NewTurn, Schedule, Fields, IsConnectFour
<1>11. CASE checkWinFromCell(d, cell)
  BY <1>5, <1>7, <1>8, <1>9, <1>11
<1>12. CASE ~checkWinFromCell(d, cell) /\ isBoardFull(d)
  BY <1>5, <1>7, <1>8, <1>9, <1>12
<1>13. CASE ~checkWinFromCell(d, cell) /\ ~isBoardFull(d)
  BY <1>4, <1>5, <1>7, <1>8, <1>10, <1>13
<1> QED
  BY <1>11, <1>12, <1>13

(* All steps. *)
LEMMA NextDiscs ==
  ASSUME BoardAssumption, Good(db, sweep), DiscsInv(db), [ConnectFourNext]_vars
  PROVE  DiscsInv(db')
<1>1. CASE UNCHANGED vars
  BY <1>1 DEF vars
<1>2. CASE RoomStep \/ \E p \in Players : markReady(p)
  BY <1>2, RoomStepQuiet, markReadyQuiet, QuietDiscs
<1>3. CASE \E p \in Players : handleJoin(p)
  <2>1. PICK p \in Players : Join(p, 2, {NewGame(db)}, TRUE)
    BY <1>3 DEF handleJoin
  <2>2. 2 \in Nat \ {0, 1}
    OBVIOUS
  <2>3. Quiet(db, db') \/ Dealt(db, db', {NewGame(db)})
    BY <2>1, <2>2, JoinSeen
  <2> QED
    BY <2>3, QuietDiscs, DealsDiscs
<1>4. CASE tryStartConnectFourGame
  BY <1>4, tryStartSeen, DealsDiscs DEF tryStartConnectFourGame
<1>5. CASE \E p \in Players : handleDisconnect(p)
  BY <1>5, AbsenceQuiet, QuietDiscs DEF handleDisconnect
<1>6. Open(db) => \A p, q : Quiet(db, Resign(db, p)) /\ Quiet(db, Timeout(db, q))
  <2> SUFFICES ASSUME Open(db), NEW p, NEW q PROVE Quiet(db, Resign(db, p)) /\ Quiet(db, Timeout(db, q))
    OBVIOUS
  <2> DEFINE e == Finish(db, Opponent(db, db.game.mover))
  <2>1. Quiet(db, e) /\ Quiet(db, Resign(db, p))
    BY GoodShape, FinishQuiet DEF Open, Fields, Shape, Resign
  <2> HIDE DEF e
  <2>2. Quiet(e, Unschedule(e))
    BY <2>1, FieldsSteps DEF Quiet
  <2> QED
    BY <2>1, <2>2, QuietAgain DEF Timeout, e
<1>7. InPlay(db) => Open(db)
  BY DEF InPlay, Open
<1>8. CASE \E p \in Players : LeaveRoom(p)
  BY <1>6, <1>8, LeaveQuiet, QuietDiscs DEF LeaveRoom
<1>9. CASE executeForfeit \/ executeConnectFourTurnTimeout
  BY <1>6, <1>7, <1>9, HandlerQuiet, QuietDiscs DEF executeForfeit, executeConnectFourTurnTimeout, Sweepers
<1>10. CASE \E p \in Players, col \in 1..Cols : handleDropDisc(p, col)
  BY <1>10, DropDiscs
<1> QED
  BY <1>1, <1>2, <1>3, <1>4, <1>5, <1>8, <1>9, <1>10 DEF ConnectFourNext

(* dropDisc, isBoardFull and checkWinFromCell, on every board: discs rest on discs, the   *)
(* players alternate, a line has ended the match for the player whose disc came last, and *)
(* a full board has ended it too.                                                         *)
THEOREM ConnectFourDiscsDecide == ASSUME BoardAssumption PROVE ConnectFourSpec => []DiscsDecide
<1>1. Init => DiscsInv(db)
  <2> SUFFICES ASSUME Init PROVE DiscsInv(db)
    OBVIOUS
  <2>1. db.room.players = <<>> /\ db.game = NoGame
    BY DEF Init, NoRoom
  <2> QED
    BY <2>1, RoomsAssumption DEF DiscsInv, Orderly
<1>2. Good(db, sweep) /\ DiscsInv(db) /\ [ConnectFourNext]_vars => DiscsInv(db)'
  BY NextDiscs
<1>3. DiscsInv(db) => DiscsDecide
  <2> SUFFICES ASSUME DiscsInv(db), IsConnectFour(db.game)
               PROVE  DiscsDecide
    BY DEF DiscsDecide
  <2>1. db.game # NoGame
    BY DEF IsConnectFour, NoGame
  <2>2. Match(db)
    BY <2>1 DEF DiscsInv
  <2> DEFINE b == db.game.board
             x == db.room.players[1]
             y == db.room.players[2]
  <2>3. /\ Decides(b, x, y, db.room.status, db.room.winner, db.game.mover) /\ DOMAIN b = Cells /\ x # y
    BY <2>2 DEF Match, Decides
  <2> HIDE DEF b, x, y
  <2>4. InPlay(db) => db.room.status # "finished"
    BY DEF InPlay
  <2>5. InPlay(db) => (db.game.mover = x <=> Discs(b, x) - Discs(b, y) = 0)
    BY <2>3, <2>4 DEF Decides
  <2>6. /\ \A c \in Cells : b[c] = None => \A r \in 1..c[1] : b[<<r, c[2]>>] = None
        /\ Discs(b, x) - Discs(b, y) \in {0, 1}
        /\ \A p \in {x, y} : Line(b, p) =>
             /\ db.room.status = "finished" /\ db.room.winner = p
             /\ Discs(b, x) - Discs(b, y) = IF p = x THEN 1 ELSE 0
        /\ (\A c \in Cells : b[c] # None) => db.room.status = "finished"
    BY <2>3 DEF Decides, Rests
  <2> QED
    BY <2>3, <2>5, <2>6 DEF DiscsDecide, b, x, y
<1> QED
  BY <1>1, <1>2, <1>3, ConnectFourGood, PTL DEF ConnectFourSpec

----------------------------------------------------------------------------
(* Halma. *)

(* handleMove: the player moves again, or is about to. *)
LEMMA handleMoveKept ==
  ASSUME Good(db, sweep), NEW p \in Players, NEW a \in Dark, NEW b \in Dark, handleMove(p, a, b)
  PROVE  Kept
<1>1. InPlay(db) /\ OpenBooks(db) /\ Shape(db)
  BY InPlayGood DEF handleMove, InPlay
<1> DEFINE board == db.game.board
           n == Num(db, p)
           jump == isValidJump(board, a, b)
           piece == IF board[a] = n /\ b[1] = (IF n = 1 THEN N - 1 ELSE 0) THEN n + 2 ELSE board[a]
           moved == [board EXCEPT ![a] = 0, ![b] = piece]
           taken == {c \in Jumped(board, a, b) : jump /\ isOwner(board[c], 3 - n)}
           after == [db EXCEPT !.game.board = moved,
                               !.game.pending = (@ \ taken) \cup (taken \ @)]
           turned == IF jump /\ canJumpFurther(moved, b) THEN NewTurn(after) ELSE after
<1>2. Commit(Schedule(turned, p))
  BY DEF handleMove
<1> HIDE DEF moved, taken
<1>3. Turned(db, after)
  BY <1>1 DEF Turned, Shape
<1> HIDE DEF after
<1>4. Turned(db, turned)
  BY <1>1, <1>3, TurnedSteps
<1> HIDE DEF turned
<1>5. Plays(db, Schedule(turned, p))
  BY <1>1, <1>4, TurnedSteps, TurnedPlays
<1> QED
  BY <1>1, <1>2, <1>5, MoveKept

(* handleEndTurn: the captures come off the board, and a side that has no piece loses; *)
(* a king against a king is a draw, and the stakes go back at once.                    *)
LEMMA handleEndTurnKept ==
  ASSUME Good(db, sweep), NEW p \in Players, handleEndTurn(p)
  PROVE  Kept
<1>1. InPlay(db) /\ OpenBooks(db) /\ Shape(db)
  BY InPlayGood DEF handleEndTurn, InPlay
<1> DEFINE board == [c \in Dark |-> IF c \in db.game.pending THEN 0 ELSE db.game.board[c]]
           turned == PassTurn(db, Opponent(db, p))
           after == [turned EXCEPT !.game.board = board, !.game.pending = {}]
<1>2. Turned(db, turned)
  BY <1>1, TurnedSelf, TurnedSteps
<1>3. PICK e : Commit(e) /\ (\/ e = db \/ e = after \/ \E w : e = Finish(after, w)
                             \/ e = Refund(Finish(after, None), Seated(db)))
  BY DEF handleEndTurn
<1> HIDE DEF turned, board
<1>4. Turned(db, after)
  BY <1>1, <1>2 DEF Turned, Shape
<1> HIDE DEF after
<1>5. Held(after)
  BY <1>1, <1>4, TurnedPlays DEF Plays
<1>6. Plays(db, Refund(Finish(after, None), Seated(db)))
  BY <1>1, <1>4, <1>5, RefundPlays
<1>7. Plays(db, e)
  BY <1>1, <1>3, <1>4, <1>6, TurnedSelf, TurnedPlays
<1> QED
  BY <1>1, <1>3, <1>7, MoveKept

(* Every step keeps the books, the countdowns and the promise about the stakes. *)
LEMMA HalmaNextKept ==
  ASSUME Good(db, sweep), [HalmaNext]_vars
  PROVE  Kept
<1>1. CASE UNCHANGED vars
  BY <1>1, UnchangedKept
<1>2. CASE RoomStep
  BY <1>2, RoomStepKept
<1>3. CASE \E p \in Players : markReady(p)
  BY <1>3, markReadyKept
<1>4. CASE \E p \in Players : handleHalmaJoin(p)
  BY <1>4, JoinKept DEF handleHalmaJoin
<1>5. CASE tryStartHalmaGame
  BY <1>5, tryStartKept DEF tryStartHalmaGame
<1>6. CASE \E p \in Players : handleHalmaDisconnect(p)
  BY <1>6, AbsenceKept DEF handleHalmaDisconnect
<1>7. CASE \E p \in Players : LeaveHalma(p)
  BY <1>7, LeavingKept, ResignPlays DEF LeaveHalma
<1>8. CASE executeHalmaForfeit
  BY <1>8, HandlerKept, ResignPlays DEF executeHalmaForfeit, Sweepers
<1>9. CASE executeHalmaTurnTimeout
  BY <1>9, HandlerKept, ResignPlays DEF executeHalmaTurnTimeout, HalmaTimeout, Sweepers
<1>10. CASE \E p \in Players : \E a, b \in Dark : handleMove(p, a, b)
  BY <1>10, handleMoveKept
<1>11. CASE \E p \in Players : handleEndTurn(p)
  BY <1>11, handleEndTurnKept
<1> QED
  BY <1>1, <1>2, <1>3, <1>4, <1>5, <1>6, <1>7, <1>8, <1>9, <1>10, <1>11 DEF HalmaNext

(* Every reachable state of a room of halma has its books in order. *)
THEOREM HalmaGood == HalmaSpec => []Good(db, sweep)
<1>1. Init => Good(db, sweep)
  BY InitGood
<1>2. Good(db, sweep) /\ [HalmaNext]_vars => Good(db, sweep)'
  BY HalmaNextKept DEF Kept
<1> QED
  BY <1>1, <1>2, PTL DEF HalmaSpec

(* settleGameRoom and everything before it: in every state of every room of halma, *)
(* the escrow has the stakes that came in and did not go back, until the winner of *)
(* the match takes them.                                                           *)
THEOREM HalmaStakesBalance == HalmaSpec => []StakesBalance
<1>1. Good(db, sweep) => StakesBalance
  BY GoodBalance
<1> QED
  BY <1>1, HalmaGood, PTL

(* grace-period.service.ts sweep: the sweeper that finishes with an earlier absence *)
(* leaves the countdown of a player who is away again alone.                        *)
THEOREM HalmaRefreshedRowSurvives == HalmaSpec => RefreshedRowSurvives
<1>1. Good(db, sweep) /\ [HalmaNext]_vars => [GraceStep]_vars
  BY HalmaNextKept DEF Kept
<1>2. HalmaSpec => [][GraceStep]_vars
  BY <1>1, HalmaGood, PTL DEF HalmaSpec
<1> QED
  BY <1>2 DEF RefreshedRowSurvives, GraceStep

(* Every step of a room of halma is a step of RoomContract: the stakes come in *)
(* before the match, lie untouched until everyone has seen the board and while    *)
(* the match is played, and go out once, to a player who staked or back to all.   *)
THEOREM HalmaImplementsContract == HalmaSpec => Contract!Spec
<1>1. Init => Contract!Init
  BY InitContract
<1>2. Good(db, sweep) /\ [HalmaNext]_vars => [Contract!Next]_(Contract!contractVars)
  BY HalmaNextKept, PromiseContract DEF Kept
<1> QED
  BY <1>1, <1>2, HalmaGood, PTL DEF HalmaSpec, Contract!Spec

----------------------------------------------------------------------------
(* The pieces decide the match. *)
PiecesDecided(d) ==
  /\ ~HasPiece(d.game, 1) => d.room.status = "finished" /\ d.room.winner = d.room.players[2]
  /\ HasPiece(d.game, 1) /\ ~HasPiece(d.game, 2) =>
       d.room.status = "finished" /\ d.room.winner = d.room.players[1]
Document(g) == IsHalma(g) /\ DOMAIN g.board = Dark
PiecesInv(d) == d.game = NoGame \/ (d.room.gameReady /\ Document(d.game) /\ PiecesDecided(d))

(* createHalmaBoard: both sides begin with pieces. *)
LEMMA DealtPieces ==
  ASSUME HalmaAssumption, NEW d
  PROVE  Document(NewHalma(d)) /\ HasPiece(NewHalma(d), 1) /\ HasPiece(NewHalma(d), 2)
<1> DEFINE g == NewHalma(d)
<1>1. IsHalma(g) /\ g.board = createHalmaBoard /\ DOMAIN createHalmaBoard = Dark
  BY DEF NewHalma, IsHalma, createHalmaBoard
<1>2. N \in Nat /\ Depth \in Nat /\ N > 1 /\ N - 1 >= N - Depth /\ ~(N - 1 < Depth) /\ 0 < Depth
  BY DEF HalmaAssumption
<1>3. <<0, 1>> \in Dark /\ createHalmaBoard[<<0, 1>>] = 1
  <2>1. <<0, 1>> \in Dark
    BY <1>2 DEF Dark, isDarkSquare
  <2> QED
    BY <1>2, <2>1 DEF createHalmaBoard
<1>4. PICK k \in {0, 1} : (N - 1 + k) % 2 # 0
  BY <1>2
<1>5. <<N - 1, k>> \in Dark /\ createHalmaBoard[<<N - 1, k>>] = 2
  <2>1. <<N - 1, k>> \in Dark
    BY <1>2, <1>4 DEF Dark, isDarkSquare
  <2> QED
    BY <1>2, <2>1 DEF createHalmaBoard
<1> HIDE DEF g
<1>6. HasPiece(g, 1) /\ HasPiece(g, 2)
  BY <1>1, <1>3, <1>5 DEF HasPiece
<1> QED
  BY <1>1, <1>6 DEF Document, g

(* What leaves the document alone, or deals, keeps the invariant. *)
LEMMA QuietPieces ==
  ASSUME PiecesInv(db), Quiet(db, db')
  PROVE  PiecesInv(db')
BY DEF PiecesInv, Quiet, Result, PiecesDecided

LEMMA DealsPieces ==
  ASSUME HalmaAssumption, Dealt(db, db', {NewHalma(db)})
  PROVE  PiecesInv(db')
BY DealtPieces DEF Dealt, PiecesInv, PiecesDecided

(* A match that is played has pieces of both sides. *)
LEMMA PlayedPieces ==
  ASSUME Good(db, sweep), PiecesInv(db), InPlay(db), db.game.mover \in Seated(db)
  PROVE  Document(db.game) /\ HasPiece(db.game, 1) /\ HasPiece(db.game, 2) /\ Fields(db) /\ db.room.gameReady
<1>1. db.game # NoGame
  BY SeatsFinite, GoodShape, RoomsAssumption DEF InPlay, NoGame
<1> QED
  BY <1>1, GoodShape DEF PiecesInv, PiecesDecided, InPlay, Shape, Fields, Lawful

(* handleMove: the piece that moves is still there, as a man or a king of its side. *)
LEMMA MovePieces ==
  ASSUME Good(db, sweep), PiecesInv(db), NEW p \in Players, NEW a \in Dark, NEW b \in Dark,
         handleMove(p, a, b)
  PROVE  PiecesInv(db')
<1> DEFINE board == db.game.board
           n == Num(db, p)
           jump == isValidJump(board, a, b)
           piece == IF board[a] = n /\ b[1] = (IF n = 1 THEN N - 1 ELSE 0) THEN n + 2 ELSE board[a]
           moved == [board EXCEPT ![a] = 0, ![b] = piece]
           taken == {c \in Jumped(board, a, b) : jump /\ isOwner(board[c], 3 - n)}
           after == [db EXCEPT !.game.board = moved,
                               !.game.pending = (@ \ taken) \cup (taken \ @)]
           turned == IF jump /\ canJumpFurther(moved, b) THEN NewTurn(after) ELSE after
<1>1. /\ Document(db.game) /\ HasPiece(db.game, 1) /\ HasPiece(db.game, 2) /\ Fields(db)
      /\ db.room.gameReady
  BY PlayedPieces DEF handleMove
<1>2. board[b] = 0 /\ Commit(Schedule(turned, p)) /\ n \in {1, 2}
  BY DEF handleMove, isValidJump, isValidStep, Num
<1>3. /\ Fields(after) /\ after.room = db.room
      /\ IsHalma(after.game) /\ after.game.board = moved
  BY <1>1 DEF Fields, Document, IsHalma
<1>4. ASSUME NEW m \in {1, 2}
      PROVE  HasPiece(after.game, m)
  <2>1. PICK c \in Dark : board[c] \in {m, m + 2}
    BY <1>1 DEF HasPiece, Document
  <2>2. DOMAIN moved = Dark /\ moved[b] = piece /\ (c # a /\ c # b => moved[c] = board[c])
    BY <1>1 DEF Document
  <2>3. c # b
    BY <1>2, <2>1
  <2>4. c = a => piece \in {m, m + 2}
    BY <1>2, <2>1
  <2> HIDE DEF piece, moved, board
  <2>5. \E x \in Dark : moved[x] \in {m, m + 2}
    BY <2>1, <2>2, <2>3, <2>4
  <2> QED
    BY <1>3, <2>2, <2>5 DEF HasPiece
<1>5. DOMAIN moved = Dark
  BY <1>1 DEF Document
<1> HIDE DEF after, moved, piece, taken
<1>6. /\ Fields(turned) /\ turned.room = db.room /\ turned.game = after.game
  BY <1>3 DEF NewTurn, Fields
<1> DEFINE e == Schedule(turned, p)
<1>7. /\ Fields(e) /\ e.room = db.room /\ e.game = after.game
  BY <1>6 DEF Schedule, Fields
<1> HIDE DEF e
<1>8. db'.game = after.game /\ db'.room.gameReady
  BY <1>1, <1>2, <1>7, SettleQuiet DEF Commit, e
<1> QED
  BY <1>3, <1>4, <1>5, <1>8 DEF PiecesInv, Document, PiecesDecided

(* handleEndTurn: captures come off, and the side without a piece has lost. *)
LEMMA EndTurnPieces ==
  ASSUME Good(db, sweep), PiecesInv(db), NEW p \in Players, handleEndTurn(p)
  PROVE  PiecesInv(db')
<1>1. CASE db.game.mover # p
  <2>1. Commit(db)
    BY <1>1 DEF handleEndTurn
  <2> QED
    BY <2>1, FieldsSteps, GoodShape, CommitQuiet, QuietPieces DEF Commit, Fields, Shape
<1>2. CASE db.game.mover = p
  <2> DEFINE board == [c \in Dark |-> IF c \in db.game.pending THEN 0 ELSE db.game.board[c]]
             left == [n \in 1..2 |-> {board[c] : c \in Pieces(board, n)}]
             single == \A n \in 1..2 : Cardinality(Pieces(board, n)) = 1
             turned == PassTurn(db, Opponent(db, p))
             after == [turned EXCEPT !.game.board = board, !.game.pending = {}]
  <2>1. Document(db.game) /\ Fields(db) /\ db.room.gameReady /\ InPlay(db)
    BY <1>2, PlayedPieces DEF handleEndTurn
  <2>2. Fields(turned) /\ turned.room = db.room /\ IsHalma(turned.game)
    BY <2>1 DEF PassTurn, NewTurn, Schedule, Fields, IsHalma, Document
  <2>3. Commit(IF left[1] = {} THEN Finish(after, db.room.players[2])
               ELSE IF left[2] = {} THEN Finish(after, db.room.players[1])
               ELSE IF single /\ left[1] = {3} /\ left[2] = {4}
               THEN Refund(Finish(after, None), Seated(db))
               ELSE after)
    BY <1>2 DEF handleEndTurn
  <2> HIDE DEF turned
  <2>4. /\ Fields(after) /\ after.room = db.room /\ IsHalma(after.game) /\ after.game.board = board
    BY <2>2 DEF Fields, IsHalma
  <2> HIDE DEF after
  <2>5. ASSUME NEW n \in 1..2
        PROVE  left[n] = {} <=> ~HasPiece(after.game, n)
    <3>1. left[n] = {board[c] : c \in Pieces(board, n)} /\ DOMAIN board = Dark
      OBVIOUS
    <3> HIDE DEF left, board
    <3>2. left[n] = {} <=> Pieces(board, n) = {}
      BY <3>1
    <3> QED
      BY <2>4, <3>1, <3>2 DEF HasPiece, Pieces, isOwner
  <2> HIDE DEF board, left, single
  <2>6. \A w : /\ Fields(Finish(after, w)) /\ Finish(after, w).game = after.game
               /\ Finish(after, w).room.status = "finished" /\ Finish(after, w).room.winner = w
               /\ Finish(after, w).room.players = db.room.players
               /\ Finish(after, w).room.gameReady = db.room.gameReady
    BY <2>4 DEF Finish, Fields
  <2>7. Fields(Refund(Finish(after, None), Seated(db))) /\ Refund(Finish(after, None), Seated(db)).game = after.game
        /\ Refund(Finish(after, None), Seated(db)).room = Finish(after, None).room
    <3> DEFINE f == Finish(after, None)
    <3>1. f.room.status = "finished" /\ Fields(f)
      BY <2>6
    <3> HIDE DEF f
    <3>2. Fields(Refund(f, Seated(db))) /\ Refund(f, Seated(db)).game = f.game /\ Refund(f, Seated(db)).room = f.room
      BY <3>1 DEF Refund, Fields
    <3> QED
      BY <2>6, <3>2 DEF f
  <2>8. ASSUME NEW e, Commit(e), Fields(e), e.game = after.game, e.room.gameReady,
               \/ HasPiece(e.game, 1) /\ HasPiece(e.game, 2)
               \/ /\ e.room.status = "finished" /\ ~(HasPiece(e.game, 1) /\ HasPiece(e.game, 2))
                  /\ e.room.winner = IF HasPiece(e.game, 1) THEN e.room.players[1] ELSE e.room.players[2]
        PROVE  PiecesInv(db')
    <3>1. /\ db'.game = e.game /\ db'.room.status = e.room.status /\ db'.room.winner = e.room.winner
          /\ db'.room.players = e.room.players /\ db'.room.gameReady
      BY <2>8, SettleQuiet DEF Commit
    <3>2. Document(db'.game)
      BY <2>4, <2>8, <3>1 DEF Document, board
    <3> QED
      BY <2>8, <3>1, <3>2 DEF PiecesInv, PiecesDecided
  <2>9. CASE left[1] = {}
    <3> DEFINE e == Finish(after, db.room.players[2])
    <3>1. Commit(e) /\ ~HasPiece(after.game, 1)
      BY <2>3, <2>5, <2>9
    <3>2. /\ Fields(e) /\ e.game = after.game /\ e.room.gameReady /\ e.room.status = "finished"
          /\ e.room.winner = e.room.players[2]
      BY <2>1, <2>6
    <3> HIDE DEF e
    <3> QED
      BY <2>8, <3>1, <3>2
  <2>10. CASE left[1] # {} /\ left[2] = {}
    <3> DEFINE e == Finish(after, db.room.players[1])
    <3>1. Commit(e) /\ HasPiece(after.game, 1)
      BY <2>3, <2>5, <2>10
    <3>2. /\ Fields(e) /\ e.game = after.game /\ e.room.gameReady /\ e.room.status = "finished"
          /\ e.room.winner = e.room.players[1]
      BY <2>1, <2>6
    <3> HIDE DEF e
    <3> QED
      BY <2>8, <3>1, <3>2
  <2>11. CASE left[1] # {} /\ left[2] # {}
    <3>1. HasPiece(after.game, 1) /\ HasPiece(after.game, 2)
      BY <2>5, <2>11
    <3>2. PICK e : Commit(e) /\ (e = Refund(Finish(after, None), Seated(db)) \/ e = after)
      BY <2>3, <2>11
    <3>3. Finish(after, None).room.gameReady
      BY <2>1, <2>6
    <3>4. Fields(e) /\ e.game = after.game /\ e.room.gameReady
      BY <2>1, <2>4, <2>7, <3>2, <3>3
    <3> QED
      BY <2>8, <3>1, <3>2, <3>4
  <2> QED
    BY <2>9, <2>10, <2>11
<1> QED
  BY <1>1, <1>2

(* All steps. *)
LEMMA NextPieces ==
  ASSUME HalmaAssumption, Good(db, sweep), PiecesInv(db), [HalmaNext]_vars
  PROVE  PiecesInv(db')
<1>1. CASE UNCHANGED vars
  BY <1>1 DEF vars, PiecesInv
<1>2. CASE RoomStep \/ \E p \in Players : markReady(p)
  BY <1>2, RoomStepQuiet, markReadyQuiet, QuietPieces
<1>3. CASE \E p \in Players : handleHalmaJoin(p)
  <2>1. PICK p \in Players : Join(p, 2, {NewHalma(db)}, TRUE)
    BY <1>3 DEF handleHalmaJoin
  <2>2. 2 \in Nat \ {0, 1}
    OBVIOUS
  <2>3. Quiet(db, db') \/ Dealt(db, db', {NewHalma(db)})
    BY <2>1, <2>2, JoinSeen
  <2> QED
    BY <2>3, QuietPieces, DealsPieces
<1>4. CASE tryStartHalmaGame
  BY <1>4, tryStartSeen, DealsPieces DEF tryStartHalmaGame
<1>5. CASE \E p \in Players : handleHalmaDisconnect(p)
  BY <1>5, AbsenceQuiet, QuietPieces DEF handleHalmaDisconnect
<1>6. Open(db) => \A p, q : Quiet(db, Resign(db, p)) /\ Quiet(db, HalmaTimeout(db, q))
  <2> SUFFICES ASSUME Open(db), NEW p, NEW q PROVE Quiet(db, Resign(db, p)) /\ Quiet(db, HalmaTimeout(db, q))
    OBVIOUS
  <2> DEFINE e == Finish(db, Opponent(db, db.game.mover))
  <2>1. Quiet(db, e) /\ Quiet(db, Resign(db, p))
    BY GoodShape, FinishQuiet DEF Open, Fields, Shape, Resign
  <2> HIDE DEF e
  <2>2. Quiet(e, Unschedule(e))
    BY <2>1, FieldsSteps DEF Quiet
  <2> QED
    BY <2>1, <2>2, QuietAgain DEF HalmaTimeout, e
<1>7. InPlay(db) => Open(db)
  BY DEF InPlay, Open
<1>8. CASE \E p \in Players : LeaveHalma(p)
  BY <1>6, <1>8, LeaveQuiet, QuietPieces DEF LeaveHalma
<1>9. CASE executeHalmaForfeit \/ executeHalmaTurnTimeout
  BY <1>6, <1>7, <1>9, HandlerQuiet, QuietPieces DEF executeHalmaForfeit, executeHalmaTurnTimeout, Sweepers
<1>10. CASE \E p \in Players : \E a, b \in Dark : handleMove(p, a, b)
  BY <1>10, MovePieces
<1>11. CASE \E p \in Players : handleEndTurn(p)
  BY <1>11, EndTurnPieces
<1> QED
  BY <1>1, <1>2, <1>3, <1>4, <1>5, <1>8, <1>9, <1>10, <1>11 DEF HalmaNext

(* handleMove and handleEndTurn, on every board: while the match is played both sides have *)
(* a piece, and the side that has none left has lost it.                                  *)
THEOREM HalmaPiecesDecide == ASSUME HalmaAssumption PROVE HalmaSpec => []PiecesDecide
<1>1. Init => PiecesInv(db)
  BY DEF Init, PiecesInv
<1>2. Good(db, sweep) /\ PiecesInv(db) /\ [HalmaNext]_vars => PiecesInv(db)'
  BY NextPieces
<1>3. PiecesInv(db) => PiecesDecide
  <2> SUFFICES ASSUME PiecesInv(db), IsHalma(db.game)
               PROVE  PiecesDecided(db) /\ (InPlay(db) => HasPiece(db.game, 1) /\ HasPiece(db.game, 2))
    BY DEF PiecesDecide, PiecesDecided
  <2>1. db.game # NoGame
    BY DEF IsHalma, NoGame
  <2> QED
    BY <2>1 DEF PiecesInv, PiecesDecided, InPlay
<1> QED
  BY <1>1, <1>2, <1>3, HalmaGood, PTL DEF HalmaSpec

----------------------------------------------------------------------------
(* Naval battle. *)

(* The fleets of those who have placed: a shot falls only once both have. *)
Battle(d) ==
  LET g == d.game
  IN /\ g = [mover |-> None, ships |-> g.ships, shots |-> g.shots]
     /\ DOMAIN g.shots = DOMAIN g.ships /\ DOMAIN g.ships \subseteq Seated(d)
     /\ \A p \in DOMAIN g.ships : validateFleet(g.ships[p])
     /\ \A p \in DOMAIN g.ships : g.shots[p] # {} =>
          d.room.status \in {"started", "finished"} /\ Seated(d) \subseteq DOMAIN g.ships
     /\ \A p, q \in DOMAIN g.ships :
          q # p /\ (\A s \in ToSet(g.ships[p]) : Sunk(s, g.shots[q])) =>
            d.room.status = "finished" /\ d.room.winner = q
BattleInv(d) ==
  /\ Fields(d) /\ Orderly(d.room.players)
  /\ d.room.status = "none" => d.game = NoGame
  /\ d.room.status = "waiting" => Len(d.room.players) <= 1
  /\ d.room.status = "started" => Len(d.room.players) = 2
  /\ d.game = NoGame \/ Battle(d)

(* A step that leaves the players and the fleets alone, and may end the match. *)
Ends(d, e) ==
  /\ Fields(e) /\ e.game = d.game /\ e.room.players = d.room.players
  /\ \/ e.room.status = d.room.status /\ e.room.winner = d.room.winner
     \/ d.room.status # "finished" /\ e.room.status = "finished"

(* Such a step keeps the battle: nobody's fleet is sunk before the end. *)
LEMMA EndsBattle ==
  ASSUME NEW d, BattleInv(d), NEW e, Ends(d, e)
  PROVE  BattleInv(e)
<1>1. /\ e.game = d.game /\ Seated(e) = Seated(d)
      /\ e.room.status = d.room.status \/ e.room.status = "finished"
  BY DEF Ends, Seated
<1>2. ASSUME Battle(d)
      PROVE  Battle(e)
  BY <1>1, <1>2 DEF Battle, Ends
<1> QED
  BY <1>1, <1>2 DEF BattleInv, Ends

(* Commit settles a room that the command finished. *)
LEMMA CommitBattle ==
  ASSUME NEW e, BattleInv(e)
  PROVE  BattleInv(settleGameRoom(e))
<1>1. Fields(e)
  BY DEF BattleInv
<1> DEFINE f == settleGameRoom(e)
<1>2. Ends(e, f)
  BY <1>1, SettleQuiet DEF Ends
<1> HIDE DEF f
<1>3. BattleInv(f)
  BY <1>2, EndsBattle
<1> QED
  BY <1>3 DEF f

(* The rows of the sweepers, the seats that are ready, and the end of a match. *)
LEMMA EndsSteps ==
  ASSUME NEW d, Fields(d)
  PROVE  /\ Ends(d, d) /\ Ends(d, NewTurn(d)) /\ Ends(d, Unschedule(d))
         /\ \A p : /\ Ends(d, Schedule(d, p)) /\ Ends(d, StartGrace(d, p)) /\ Ends(d, CancelGrace(d, p))
                   /\ Ends(d, [d EXCEPT !.room.ready = @ \cup {p}])
                   /\ Ends(d, [d EXCEPT !.room.spectators = @ \ {p}])
         /\ d.room.status # "finished" =>
              Ends(d, Cancel(d)) /\ \A w : Ends(d, Finish(d, w)) /\ Ends(d, Unschedule(Finish(d, w)))
<1>1. /\ Ends(d, d) /\ Ends(d, NewTurn(d)) /\ Ends(d, Unschedule(d))
      /\ \A p : Ends(d, Schedule(d, p)) /\ Ends(d, StartGrace(d, p)) /\ Ends(d, CancelGrace(d, p))
  BY DEF Fields, Ends, NewTurn, Unschedule, Schedule, StartGrace, CancelGrace
<1>2. \A p : /\ Ends(d, [d EXCEPT !.room.ready = @ \cup {p}])
             /\ Ends(d, [d EXCEPT !.room.spectators = @ \ {p}])
  BY DEF Fields, Ends
<1>3. ASSUME d.room.status # "finished"
      PROVE  Ends(d, Cancel(d)) /\ \A w : Ends(d, Finish(d, w)) /\ Ends(d, Unschedule(Finish(d, w)))
  BY <1>3 DEF Fields, Ends, Finish, Cancel, Unschedule
<1> QED
  BY <1>1, <1>2, <1>3

(* The steps that all games share. *)
LEMMA RoomStepBattle ==
  ASSUME Seats = 2, BattleInv(db), RoomStep
  PROVE  BattleInv(db')
<1>1. Fields(db)
  BY DEF BattleInv
<1>2. ASSUME NEW p \in Players, createRoom(p)
      PROVE  BattleInv(db')
  <2>1. /\ db.game = NoGame
        /\ db' = [db EXCEPT !.room = [NoRoom EXCEPT !.status = "waiting", !.players = <<p>>]]
    BY <1>2 DEF createRoom, Save, BattleInv
  <2>2. db'.room = [NoRoom EXCEPT !.status = "waiting", !.players = <<p>>] /\ db'.game = NoGame
        /\ DOMAIN db' = DOMAIN db
    BY <1>1, <2>1 DEF Fields
  <2>3. db'.room.players = <<p>> /\ db'.room.status = "waiting" /\ Fields(db')
    BY <1>1, <2>2 DEF Fields, NoRoom
  <2>4. Orderly(<<p>>) /\ Len(<<p>>) = 1
    BY DEF Orderly
  <2> QED
    BY <2>2, <2>3, <2>4 DEF BattleInv
<1>3. ASSUME NEW p \in Players, joinRoom(p)
      PROVE  BattleInv(db')
  <2> DEFINE seated == Append(db.room.players, p)
  <2>1. /\ db.room.status = "waiting" /\ p \notin Seated(db) /\ Len(db.room.players) < 2
        /\ db' = [db EXCEPT !.room.players = seated,
                            !.room.status = IF Len(seated) = Seats THEN "started" ELSE @]
    BY <1>3 DEF joinRoom, Save
  <2>2. Orderly(db.room.players) /\ Orderly(seated)
    BY <2>1, OrderlySteps DEF Seated, BattleInv
  <2>3. Len(seated) = 1 \/ Len(seated) = 2
    BY <2>1, <2>2 DEF Orderly
  <2>4. ToSet(seated) = Seated(db) \cup {p}
    <3>1. /\ DOMAIN db.room.players = 1..Len(db.room.players) /\ Len(db.room.players) \in Nat
          /\ DOMAIN seated = 1..Len(db.room.players) + 1
          /\ \A i \in 1..Len(db.room.players) : seated[i] = db.room.players[i]
          /\ seated[Len(db.room.players) + 1] = p
      BY <2>2 DEF Orderly
    <3> HIDE DEF seated
    <3> DEFINE n == Len(db.room.players)
    <3>2. n \in Nat /\ 1..n + 1 = (1..n) \cup {n + 1}
      <4> HIDE DEF n
      <4>1. n \in Nat
        BY <3>1 DEF n
      <4> QED
        BY <4>1
    <3>3. ToSet(seated) = {seated[i] : i \in 1..n} \cup {p}
      BY <3>1, <3>2 DEF ToSet
    <3>4. {seated[i] : i \in 1..n} = Seated(db)
      BY <3>1 DEF ToSet, Seated
    <3> QED
      BY <3>3, <3>4
  <2> HIDE DEF seated
  <2>5. /\ Fields(db') /\ db'.game = db.game /\ db'.room.players = seated
        /\ db'.room.status = IF Len(seated) = 2 THEN "started" ELSE "waiting"
        /\ Seated(db') = Seated(db) \cup {p}
    BY <1>1, <2>1, <2>4 DEF Fields, Seated
  <2>6. ASSUME Battle(db)
        PROVE  Battle(db')
    BY <2>1, <2>5, <2>6 DEF Battle
  <2>7. db'.game = NoGame \/ Battle(db')
    BY <2>5, <2>6 DEF BattleInv
  <2>8. CASE Len(seated) = 1
    BY <2>2, <2>5, <2>7, <2>8 DEF BattleInv
  <2>9. CASE Len(seated) = 2
    BY <2>2, <2>5, <2>7, <2>9 DEF BattleInv
  <2> QED
    BY <2>3, <2>8, <2>9
<1>4. ASSUME NEW p \in Players, spectateRoom(p)
      PROVE  BattleInv(db')
  <2>1. Ends(db, db')
    BY <1>1, <1>4 DEF spectateRoom, Save, Ends, Fields
  <2> QED
    BY <2>1, EndsBattle
<1>5. ASSUME NEW p \in Players, acknowledgeInitialState(p)
      PROVE  BattleInv(db')
  <2> DEFINE acked == [db EXCEPT !.room.acked = @ \cup {p}]
             played == [acked EXCEPT !.room.played = TRUE, !.aged = FALSE]
  <2>1. Ends(db, acked)
    BY <1>1 DEF Ends, Fields
  <2>2. Ends(acked, played)
    BY <2>1 DEF Ends, Fields
  <2>3. \/ Save(acked)
        \/ \E q : Commit(Schedule(played, q))
    BY <1>5 DEF acknowledgeInitialState
  <2> HIDE DEF acked, played
  <2>4. ASSUME NEW q PROVE BattleInv(Schedule(played, q))
    <3>1. Fields(played)
      BY <2>2 DEF Ends
    <3>2. Ends(played, Schedule(played, q))
      BY <3>1, EndsSteps
    <3> QED
      BY <2>1, <2>2, <3>2, EndsBattle
  <2>5. BattleInv(acked)
    BY <2>1, EndsBattle
  <2> QED
    BY <2>3, <2>4, <2>5, CommitBattle DEF Commit, Save
<1>6. CASE cancelPreparedMatch
  <2>1. Ends(db, Cancel(db)) /\ db' = settleGameRoom(Cancel(db))
    BY <1>1, <1>6, EndsSteps DEF cancelPreparedMatch, isPreparing, Commit
  <2> QED
    BY <2>1, EndsBattle, CommitBattle
<1>7. ASSUME NEW p \in Players, Spend(p) \/ Resync(p) \/ DropSocket(p) \/ GraceRunsOut(p) \/ ClaimGrace(p)
      PROVE  BattleInv(db')
  <2>1. \/ db' = db
        \/ \E m : db' = [db EXCEPT !.money[p] = m]
        \/ \E g : db' = [db EXCEPT !.grace[p] = g]
    BY <1>7 DEF Spend, Resync, DropSocket, GraceRunsOut, ClaimGrace, Save, CancelGrace
  <2>2. Ends(db, db')
    BY <1>1, <2>1 DEF Ends, Fields
  <2> QED
    BY <2>2, EndsBattle
<1>8. CASE ClockRunsOut \/ TurnRunsOut \/ ClaimClock
  <2>1. \/ \E c, h : db' = [db EXCEPT !.clock.phase = c, !.aged = h]
        \/ \E h : db' = [db EXCEPT !.aged = h]
        \/ \E c : db' = [db EXCEPT !.clock.phase = c]
    BY <1>8 DEF ClockRunsOut, TurnRunsOut, ClaimClock, Save
  <2>2. Ends(db, db')
    BY <1>1, <2>1 DEF Ends, Fields
  <2> QED
    BY <2>2, EndsBattle
<1>9. ASSUME NEW k \in Sweepers, ReadVersion(k) \/ Refused(k) \/ HandlerFails(k)
      PROVE  BattleInv(db')
  BY <1>9 DEF ReadVersion, Refused, HandlerFails
<1>10. ASSUME NEW k \in Sweepers, Release(k) \/ SweeperDies(k)
       PROVE  BattleInv(db')
  <2>1. \/ db' = db \/ db' = Unschedule(db) \/ \E p : db' = CancelGrace(db, p) \/ db' = StartGrace(db, p)
        \/ \E c : db' = [db EXCEPT !.clock = c]
        \/ \E g : db' = [db EXCEPT !.grace = g]
    BY <1>10 DEF Release, SweeperDies
  <2>2. ASSUME NEW c PROVE Ends(db, [db EXCEPT !.clock = c]) /\ Ends(db, [db EXCEPT !.grace = c])
    BY <1>1 DEF Ends, Fields
  <2>3. /\ Ends(db, db) /\ Ends(db, Unschedule(db))
        /\ \A p : Ends(db, CancelGrace(db, p)) /\ Ends(db, StartGrace(db, p))
    BY <1>1, EndsSteps
  <2>4. Ends(db, db')
    BY <2>1, <2>2, <2>3
  <2> QED
    BY <2>4, EndsBattle
<1> QED
  BY <1>2, <1>3, <1>4, <1>5, <1>6, <1>7, <1>8, <1>9, <1>10 DEF RoomStep

(* $pull takes one seat. *)
LEMMA WithoutOne ==
  ASSUME NEW s \in Seq(Players), NEW p \in ToSet(s)
  PROVE  Len(Without(s, p)) = Len(s) - 1
<1> DEFINE i == CHOOSE k \in DOMAIN s : s[k] = p
<1>1. i \in 1..Len(s)
  BY DEF ToSet
<1>2. Without(s, p) = SubSeq(s, 1, i - 1) \o SubSeq(s, i + 1, Len(s))
  BY DEF Without, RemoveAt
<1> HIDE DEF i
<1> DEFINE before == SubSeq(s, 1, i - 1)
           after == SubSeq(s, i + 1, Len(s))
<1>3. /\ before \in Seq(Players) /\ Len(before) = i - 1
      /\ after \in Seq(Players) /\ Len(after) = Len(s) - i
  BY <1>1
<1> HIDE DEF before, after
<1>4. Len(before \o after) = Len(before) + Len(after)
  BY <1>3
<1>5. Without(s, p) = before \o after
  BY <1>2 DEF before, after
<1>6. Len(s) \in Nat /\ i \in Nat
  BY <1>1
<1> QED
  BY <1>3, <1>4, <1>5, <1>6

(* leaveRoom and a socket lost in the lobby: the last placement goes with it. *)
LEMMA LobbyBattle ==
  ASSUME Seats = 2, NEW d, BattleInv(d), NEW p \in Seated(d)
  PROVE  BattleInv(Lobby(d, p))
<1> DEFINE left == Depart(d, p)
           back == Refund(left, Placed(d))
           e == Lobby(d, p)
           s == d.room.players
<1>1. Fields(d) /\ Orderly(s) /\ p \in Players
  BY DEF BattleInv, Orderly, Seated, ToSet
<1>2. Orderly(Without(s, p)) /\ Len(Without(s, p)) <= 1
  <2>1. p \in ToSet(s)
    BY DEF Seated
  <2>2. Len(Without(s, p)) = Len(s) - 1 /\ Len(s) <= 2
    BY <1>1, <2>1, WithoutOne DEF Orderly
  <2> QED
    BY <1>1, <2>1, <2>2, OrderlySteps DEF Orderly
<1> HIDE DEF s
<1>3. Fields(left) /\ left.room.players = Without(s, p) /\ left.room.status = "waiting"
  BY <1>1 DEF Depart, Fields, s
<1> HIDE DEF left
<1>4. Fields(back) /\ back.room.players = Without(s, p) /\ back.room.status \in {"waiting", "finished"}
  BY <1>3 DEF Refund, Fields
<1>5. e = [back EXCEPT !.game = NoGame, !.room.ready = {}]
  BY DEF Lobby, left
<1> HIDE DEF back, e
<1>6. Fields(e) /\ e.game = NoGame /\ e.room.players = Without(s, p) /\ e.room.status \in {"waiting", "finished"}
  BY <1>4, <1>5 DEF Fields
<1>7. BattleInv(e)
  BY <1>2, <1>6 DEF BattleInv
<1> QED
  BY <1>7 DEF e

(* Place: the fleet of a player who had none, while no shot has been fired. *)
LEMMA PlaceBattle ==
  ASSUME FleetAssumption, NEW d, BattleInv(d), NEW p \in Seated(d) \ Placed(d), Open(d), NEW ships \in Fleets
  PROVE  LET e == Place(d, p, ships)
         IN BattleInv(e) /\ e.room = d.room /\ Placed(e) = Placed(d) \cup {p} /\ Placed(e) \subseteq Seated(d)
<1> DEFINE P == Placed(d)
           old == IF d.game = NoGame THEN [ships |-> <<>>, shots |-> <<>>] ELSE d.game
           S == [q \in P \cup {p} |-> IF q = p THEN ships ELSE old.ships[q]]
           H == [q \in P \cup {p} |-> IF q = p THEN {} ELSE old.shots[q]]
           g == [mover |-> None, ships |-> S, shots |-> H]
           e == Place(d, p, ships)
<1>1. Fields(d) /\ (d.game = NoGame \/ Battle(d)) /\ d.room.status \in {"waiting", "started"}
  BY DEF BattleInv, Open
<1>2. /\ P \subseteq Seated(d) /\ p \notin P
      /\ \A q \in P : /\ validateFleet(old.ships[q]) /\ old.shots[q] = {}
  BY <1>1 DEF Placed, Battle
<1>3. Fields(Charge(d, {p})) /\ Charge(d, {p}).room = d.room
  BY <1>1 DEF Charge, Fields
<1>4. Fields(e) /\ e.room = d.room /\ e.game = g
  BY <1>3 DEF Place, Fields
<1>5. validateFleet(ships)
  BY DEF Fleets
<1>6. ASSUME NEW f, validateFleet(f)
      PROVE  ~ \A s \in ToSet(f) : Sunk(s, {})
  <2>1. 1 \in DOMAIN Sizes /\ Sizes[1] \in Nat \ {0}
    BY DEF FleetAssumption
  <2>2. 1 \in DOMAIN f /\ Cardinality(f[1]) # 0
    BY <1>6, <2>1 DEF validateFleet
  <2>3. f[1] \in ToSet(f) /\ f[1] # {}
    BY <2>2, FS_EmptySet DEF ToSet
  <2> QED
    BY <2>3 DEF Sunk
<1> HIDE DEF P, old, e
<1>7. /\ DOMAIN g.ships = P \cup {p} /\ DOMAIN g.shots = P \cup {p}
      /\ g = [mover |-> None, ships |-> g.ships, shots |-> g.shots]
      /\ \A q \in P \cup {p} : validateFleet(g.ships[q]) /\ g.shots[q] = {}
  BY <1>2, <1>5
<1> HIDE DEF g
<1>8. Battle(e)
  <2>1. P \cup {p} \subseteq Seated(e)
    BY <1>2, <1>4 DEF Seated
  <2>2. ASSUME NEW x \in P \cup {p}, NEW q \in P \cup {p}
        PROVE  ~ \A s \in ToSet(g.ships[x]) : Sunk(s, g.shots[q])
    <3>1. g.shots[q] = {} /\ validateFleet(g.ships[x])
      BY <1>7
    <3> QED
      BY <1>6, <3>1
  <2> QED
    BY <1>4, <1>7, <2>1, <2>2 DEF Battle
<1>9. e.game # NoGame /\ Placed(e) = P \cup {p}
  <2>1. DOMAIN NoGame = {"mover"} /\ DOMAIN g = {"mover", "ships", "shots"}
    BY <1>7 DEF NoGame
  <2> QED
    BY <1>4, <1>7, <2>1 DEF Placed
<1>10. BattleInv(e)
  BY <1>1, <1>4, <1>8 DEF BattleInv
<1> QED
  BY <1>2, <1>4, <1>9, <1>10 DEF P, e

(* The battle begins between two players. *)
LEMMA StartsBattle ==
  ASSUME NEW d, BattleInv(d), Open(d), Len(d.room.players) = 2
  PROVE  BattleInv(Starts(d))
<1> DEFINE e == Starts(d)
<1>1. Fields(d) /\ d.room.status # "finished"
  BY DEF BattleInv, Open
<1>2. Fields(e) /\ e.game = d.game /\ e.room.players = d.room.players /\ e.room.status = "started"
  BY <1>1 DEF Starts, Fields
<1> HIDE DEF e
<1>3. Battle(d) => Battle(e)
  BY <1>1, <1>2 DEF Battle, Seated
<1>4. BattleInv(e)
  BY <1>2, <1>3 DEF BattleInv
<1> QED
  BY <1>4 DEF e

(* place_ships and saveBattleshipPlacement: the second fleet may begin the battle. *)
LEMMA PlacementBattle ==
  ASSUME Seats = 2, FleetAssumption, BattleInv(db), NEW p \in Players, NEW ships \in Fleets,
         handlePlaceShips(p, ships) \/ saveBattleshipPlacement(p, ships)
  PROVE  BattleInv(db')
<1> DEFINE placed == Place(db, p, ships)
           readied == [placed EXCEPT !.room.ready = @ \cup {p}]
           first == db.room.players[1]
<1>1. p \in Seated(db) \ Placed(db) /\ Open(db)
  BY DEF handlePlaceShips, saveBattleshipPlacement
<1>2. /\ BattleInv(placed) /\ placed.room = db.room
      /\ Placed(placed) = Placed(db) \cup {p} /\ Placed(placed) \subseteq Seated(db)
  BY <1>1, PlaceBattle
<1>3. \/ db' = settleGameRoom(placed)
      \/ Cardinality(Placed(placed)) = 2 /\ db' = settleGameRoom(Starts(placed))
      \/ db' = settleGameRoom(readied)
      \/ /\ Len(db.room.players) >= Seats
         /\ db' = settleGameRoom(Starts(readied)) \/ db' = settleGameRoom(Schedule(Starts(readied), first))
  BY DEF handlePlaceShips, saveBattleshipPlacement, Commit
<1> HIDE DEF placed, readied, first
<1>4. Fields(placed) /\ Orderly(db.room.players) /\ Len(db.room.players) \in Nat /\ Open(placed)
  BY <1>1, <1>2 DEF BattleInv, Orderly, Open
<1>5. BattleInv(readied) /\ readied.room.players = db.room.players /\ Open(readied)
  <2>1. Ends(placed, readied)
    BY <1>4, EndsSteps DEF readied
  <2>2. readied.room.players = db.room.players /\ readied.room.status = db.room.status
    BY <1>2, <1>4 DEF readied, Fields
  <2> QED
    BY <1>1, <1>2, <2>1, <2>2, EndsBattle DEF Open
<1> DEFINE n == Len(db.room.players)
<1>two. n \in Nat /\ n <= 2
  BY <1>4 DEF Orderly
<1> HIDE DEF n
<1>6. Cardinality(Placed(placed)) = 2 => n = 2
  <2>1. IsFiniteSet(Seated(db)) /\ Cardinality(Seated(db)) = n
    BY <1>4, OrderlyFinite DEF n
  <2>2. Cardinality(Placed(placed)) <= Cardinality(Seated(db))
    BY <1>2, <2>1, FS_Subset
  <2> QED
    BY <1>two, <2>1, <2>2
<1>7. n >= Seats => n = 2
  BY <1>two
<1>8. Cardinality(Placed(placed)) = 2 => BattleInv(Starts(placed))
  BY <1>2, <1>4, <1>6, StartsBattle DEF n
<1>9. Len(db.room.players) >= Seats => BattleInv(Starts(readied))
  BY <1>5, <1>7, StartsBattle DEF n
<1>10. Len(db.room.players) >= Seats => BattleInv(Schedule(Starts(readied), first))
  <2> DEFINE e == Starts(readied)
  <2> HIDE DEF e
  <2>1. BattleInv(e) => Ends(e, Schedule(e, first))
    BY EndsSteps DEF BattleInv
  <2>2. BattleInv(e) => BattleInv(Schedule(e, first))
    BY <2>1, EndsBattle
  <2> QED
    BY <1>9, <2>2 DEF e
<1> QED
  BY <1>2, <1>3, <1>5, <1>8, <1>9, <1>10, CommitBattle

(* handleFire: the shot ends the battle if it was the last one that the enemy could take. *)
LEMMA FireBattle ==
  ASSUME BattleInv(db), NEW p \in Players, NEW cell \in Sea, handleFire(p, cell)
  PROVE  BattleInv(db')
<1> DEFINE foe == Opponent(db, p)
           S == db.game.ships
           H == [db.game.shots EXCEPT ![p] = @ \cup {cell}]
           fired == [db EXCEPT !.game.shots[p] = @ \cup {cell}]
           fleet == ToSet(S[foe])
           shots == fired.game.shots[p]
           keeps == \E s \in fleet : cell \in s /\ ~Sunk(s, shots)
           next == IF keeps THEN p ELSE foe
           won == \A s \in fleet : Sunk(s, shots)
<1>1. /\ db.room.status = "started" /\ p \in Seated(db) /\ p \in Placed(db) /\ foe \in Placed(db)
      /\ Commit(IF won THEN Finish(fired, p)
                ELSE IF next \in online THEN Schedule(NewTurn(fired), next) ELSE NewTurn(fired))
  BY DEF handleFire, InPlay
<1>2. Fields(db) /\ Orderly(db.room.players) /\ Len(db.room.players) = 2 /\ Battle(db)
  BY <1>1 DEF BattleInv, Placed
<1>3. p # foe /\ Seated(db) = {p, foe}
  <2>1. /\ foe \in {db.room.players[1], db.room.players[2]} /\ foe # p
        /\ p \in {db.room.players[1], db.room.players[2]}
    BY <1>1, <1>2, OtherPlayer DEF Seated
  <2>2. Seated(db) = {db.room.players[1], db.room.players[2]}
    BY <1>2 DEF Seated, ToSet, Orderly
  <2> QED
    BY <2>1, <2>2
<1>4. DOMAIN S = {p, foe} /\ DOMAIN db.game.shots = {p, foe}
  <2>1. Placed(db) = DOMAIN S
    BY <1>1 DEF Placed
  <2> QED
    BY <1>1, <1>2, <1>3, <2>1 DEF Battle
<1>5. /\ fired.game = [mover |-> None, ships |-> S, shots |-> H] /\ fired.room = db.room /\ Fields(fired)
      /\ DOMAIN H = {p, foe} /\ H[p] = shots /\ H[foe] = db.game.shots[foe]
  <2>1. db.game = [mover |-> None, ships |-> S, shots |-> db.game.shots]
    BY <1>2 DEF Battle
  <2>2. fired.game = [db.game EXCEPT !.shots = H] /\ fired.room = db.room /\ Fields(fired)
    BY <1>2 DEF Fields
  <2>3. fired.game = [mover |-> None, ships |-> S, shots |-> H]
    BY <2>1, <2>2
  <2> QED
    BY <1>3, <1>4, <2>2, <2>3
<1>6. validateFleet(S[p]) /\ validateFleet(S[foe])
  BY <1>2, <1>4 DEF Battle
<1>7. ~ \A s \in ToSet(S[p]) : Sunk(s, H[foe])
  BY <1>1, <1>2, <1>3, <1>4, <1>5 DEF Battle
<1> HIDE DEF foe, S, H, fired, shots, keeps
(* What may be made of the room and the rows after the shot. *)
<1>8. ASSUME NEW e, Fields(e), e.game = fired.game, e.room.players = db.room.players,
             \/ e.room.status = "finished" /\ e.room.winner = p
             \/ e.room.status = "started" /\ ~won
      PROVE  BattleInv(e)
  <2>1. Seated(e) = {p, foe}
    BY <1>3, <1>8 DEF Seated
  <2>2. e.game.ships = S /\ e.game.shots = H /\ e.game = [mover |-> None, ships |-> S, shots |-> H]
    BY <1>5, <1>8
  <2>3. Battle(e)
    BY <1>3, <1>4, <1>5, <1>6, <1>7, <1>8, <2>1, <2>2 DEF Battle
  <2> QED
    BY <1>2, <1>8, <2>3 DEF BattleInv
<1>9. CASE won
  <2> DEFINE e == Finish(fired, p)
  <2>1. Fields(e) /\ e.game = fired.game /\ e.room.players = db.room.players
        /\ e.room.status = "finished" /\ e.room.winner = p
    BY <1>5 DEF Finish, Fields
  <2>2. db' = settleGameRoom(e)
    BY <1>1, <1>9 DEF Commit
  <2> HIDE DEF e
  <2> QED
    BY <1>8, <2>1, <2>2, CommitBattle
<1>10. CASE ~won
  <2> DEFINE e == NewTurn(fired)
  <2>1. Fields(e) /\ e.game = fired.game /\ e.room.players = db.room.players /\ e.room.status = "started"
    BY <1>1, <1>5 DEF NewTurn, Fields
  <2>2. db' = settleGameRoom(Schedule(e, next)) \/ db' = settleGameRoom(e)
    BY <1>1, <1>10 DEF Commit
  <2> HIDE DEF e, next
  <2>3. BattleInv(e)
    BY <1>8, <1>10, <2>1
  <2>4. BattleInv(Schedule(e, next))
    BY <2>1, <2>3, EndsSteps, EndsBattle
  <2> QED
    BY <2>2, <2>3, <2>4, CommitBattle
<1> QED
  BY <1>9, <1>10

(* A lobby of a room of two has one seat taken. *)
LEMMA AloneInLobby ==
  ASSUME NEW d, BattleInv(d), d.room.status = "waiting", NEW p \in Seated(d)
  PROVE  d.room.players = <<p>>
<1> DEFINE s == d.room.players
<1>1. Len(s) <= 1 /\ s \in Seq(Players) /\ p \in ToSet(s)
  BY DEF BattleInv, Orderly, Seated
<1> HIDE DEF s
<1>2. PICK i \in 1..Len(s) : s[i] = p
  BY <1>1 DEF ToSet
<1> DEFINE n == Len(s)
<1>3. n \in Nat /\ n <= 1 /\ i \in 1..n
  BY <1>1
<1> HIDE DEF n
<1>4. n = 1 /\ i = 1
  BY <1>3
<1>5. Len(s) = 1 /\ s[1] = p
  BY <1>2, <1>4 DEF n
<1>6. s = <<p>>
  BY <1>1, <1>5
<1> QED
  BY <1>6 DEF s

(* What a player who leaves does to the battle. *)
LEMMA LeaveBattle ==
  ASSUME Seats = 2, BattleInv(db), NEW p \in Players, LeaveNaval(p) \/ handleNavalDisconnect(p)
  PROVE  BattleInv(db')
<1>1. Fields(db)
  BY DEF BattleInv
<1>2. /\ Ends(db, db) /\ Ends(db, StartGrace(db, p)) /\ Ends(db, [db EXCEPT !.room.spectators = @ \ {p}])
      /\ db.room.status # "finished" => Ends(db, Cancel(db)) /\ \A w : Ends(db, Finish(db, w))
  BY <1>1, EndsSteps
<1>3. CASE LeaveNaval(p)
  <2>1. p \in Seated(db) /\ db.room.status # "finished"
    BY <1>3 DEF LeaveNaval, Leave, Open
  <2>2. \/ db' = settleGameRoom(Cancel(db)) \/ \E w : db' = settleGameRoom(Finish(db, w))
        \/ db' = settleGameRoom([db EXCEPT !.room.spectators = @ \ {p}])
        \/ db' = settleGameRoom(Lobby(db, p))
    BY <1>3 DEF LeaveNaval, Leave, Commit, Resign
  <2>3. BattleInv(Lobby(db, p))
    BY <2>1, LobbyBattle
  <2> QED
    BY <1>2, <2>1, <2>2, <2>3, EndsBattle, CommitBattle
<1>4. CASE handleNavalDisconnect(p)
  <2>1. CASE ~Open(db)
    BY <1>4, <2>1 DEF handleNavalDisconnect, Disconnect, Save
  <2>2. CASE Open(db)
    <3>1. db.room.status # "finished" /\ ~(db.room.status = "started" /\ Pregame(db))
      BY <1>4, <2>2 DEF handleNavalDisconnect, Disconnect, Open
    <3>2. \/ db' = settleGameRoom(db) \/ db' = settleGameRoom(Finish(db, None))
          \/ db' = settleGameRoom([db EXCEPT !.room.spectators = @ \ {p}])
          \/ /\ p \in Seated(db) /\ ~(db.room.status = "waiting" /\ db.room.players = <<p>>)
             /\ \E d \in processForfeit(db, p) : db' = settleGameRoom(d)
      BY <1>4, <2>2 DEF handleNavalDisconnect, Disconnect, Commit
    <3>3. p \in Seated(db) /\ ~(db.room.status = "waiting" /\ db.room.players = <<p>>) => ~Pregame(db)
      BY <3>1, AloneInLobby DEF Pregame, Open
    <3>4. ~Pregame(db) => processForfeit(db, p) = {db, StartGrace(db, p)}
      BY DEF processForfeit
    <3> QED
      BY <1>2, <3>1, <3>2, <3>3, <3>4, EndsBattle, CommitBattle
  <2> QED
    BY <2>1, <2>2
<1> QED
  BY <1>3, <1>4

(* A step of the room, the gateway or the sweepers. *)
LEMMA NavalNextBattle ==
  ASSUME Seats = 2, FleetAssumption, BattleInv(db), [NavalNext]_vars
  PROVE  BattleInv(db')
<1>1. Fields(db)
  BY DEF BattleInv
<1>2. CASE UNCHANGED vars
  BY <1>2 DEF vars
<1>3. CASE RoomStep
  BY <1>3, RoomStepBattle
<1>4. ASSUME NEW p \in Players, markReady(p)
      PROVE  BattleInv(db')
  BY <1>1, <1>4, EndsSteps, EndsBattle, CommitBattle DEF markReady, Commit
<1>5. ASSUME NEW p \in Players, handleNavalJoin(p)
      PROVE  BattleInv(db')
  <2> DEFINE e == IF p \in Seated(db) THEN syncPlayerState(db, p) ELSE db
  <2>1. Ends(db, e)
    BY <1>1, EndsSteps DEF syncPlayerState
  <2>2. db' = CancelGrace(e, p)
    BY <1>5 DEF handleNavalJoin, Save
  <2> HIDE DEF e
  <2>3. Fields(e)
    BY <2>1 DEF Ends
  <2>4. Ends(e, CancelGrace(e, p))
    BY <2>3, EndsSteps
  <2> QED
    BY <2>1, <2>2, <2>4, EndsBattle
<1>6. ASSUME NEW k \in Sweepers, NEW shouts, NEW handled, Handler(k, shouts, handled),
             db.room.status = "started" => Ends(db, handled)
      PROVE  BattleInv(db')
  <2>1. \/ db' = db \/ db' = settleGameRoom(db)
        \/ db.room.status # "finished" /\ db' = settleGameRoom(Cancel(db))
        \/ db.room.status = "started" /\ db' = settleGameRoom(handled)
    BY <1>6 DEF Handler, isPreparing
  <2>2. db.room.status # "finished" => Ends(db, Cancel(db))
    BY <1>1, EndsSteps
  <2> QED
    BY <1>6, <2>1, <2>2, EndsBattle, CommitBattle
<1>7. db.room.status = "started" =>
        \A w : Ends(db, Finish(db, w)) /\ Ends(db, Unschedule(Finish(db, w)))
  BY <1>1, EndsSteps
<1>8. CASE executeNavalForfeit
  BY <1>6, <1>7, <1>8 DEF executeNavalForfeit, Resign, Sweepers
<1>9. CASE executeNavalTurnTimeout
  BY <1>6, <1>7, <1>9 DEF executeNavalTurnTimeout, NavalTimeout, Sweepers
<1> QED
  BY <1>2, <1>3, <1>4, <1>5, <1>8, <1>9, PlacementBattle, FireBattle, LeaveBattle DEF NavalNext

(* In a room of two, the battle keeps to its rules. *)
THEOREM NavalBattles == ASSUME FleetAssumption, Seats = 2 PROVE NavalSpec => []BattleInv(db)
<1>1. Init => BattleInv(db)
  <2> SUFFICES ASSUME Init PROVE BattleInv(db)
    OBVIOUS
  <2>1. /\ db.game = NoGame /\ db.room = NoRoom
        /\ DOMAIN db = {"room", "game", "clock", "aged", "grace", "paid", "back", "money"}
    BY DEF Init
  <2>2. Orderly(<<>>)
    BY DEF Orderly
  <2> QED
    BY <2>1, <2>2 DEF BattleInv, Fields, NoRoom
<1>2. BattleInv(db) /\ [NavalNext]_vars => BattleInv(db)'
  BY NavalNextBattle
<1> QED
  BY <1>1, <1>2, PTL DEF NavalSpec

(* handleFire, place_ships, saveBattleshipPlacement and those who leave the lobby, on      *)
(* every sea and with every fleet: in a room of two, fleets are of players with a seat and *)
(* alike, none is placed once a shot was fired, and one is sunk only in a battle that its  *)
(* attacker has won.                                                                       *)
THEOREM NavalFleetsDecide ==
  ASSUME FleetAssumption, Seats = 2 PROVE NavalSpec => []FleetsDecide
<1>1. BattleInv(db) => FleetsDecide
  <2> SUFFICES ASSUME BattleInv(db), IsNavalBattle(db.game)
               PROVE  FleetsDecide
    BY DEF FleetsDecide
  <2>1. Battle(db)
    BY DEF BattleInv, IsNavalBattle, NoGame
  <2>2. \A p \in DOMAIN db.game.ships :
          LET s == db.game.ships[p]
          IN /\ DOMAIN s = DOMAIN Sizes /\ \A i \in DOMAIN s : Cardinality(s[i]) = Sizes[i]
             /\ \A i, j \in DOMAIN s : i # j => s[i] \cap s[j] = {}
    BY <2>1 DEF Battle, validateFleet
  <2> QED
    BY <2>1, <2>2 DEF Battle, FleetsDecide, Sunk
<1> QED
  BY <1>1, NavalBattles, PTL

----------------------------------------------------------------------------
(* The money of a naval battle of two, which may begin before both have paid. *)

(* What RoomContract sees of a room where a stake may be late. *)
Late == INSTANCE RoomContract WITH
  stage <- Stage(db), staked <- db.paid, escrow <- db.money[Escrow], house <- db.money[House],
  late <- TRUE, winner <- Taker(db)

(* Before the battle a turn may be timed, between two fleets one of which came over HTTP and *)
(* one over the socket, but no timer finds that it is over, and nobody counts down.         *)
Moored(d) ==
  /\ d.aged = FALSE /\ d.game.mover = None /\ \A p \in Players : d.grace[p] = "none"
  /\ DOMAIN d.clock = {"player", "phase"} /\ (d.clock.phase = "none" \/ d.clock.player \in Players)
Calm(s) ==
  /\ DOMAIN s = Sweepers /\ s["grace"] = Idle
  /\ DOMAIN s["clock"] = DOMAIN Idle /\ s["clock"].step # "read"
Afloat(d) ==
  /\ d.room.gameReady \in BOOLEAN /\ d.room.played \in BOOLEAN
  /\ d.room.played => d.room.gameReady
  /\ d.room.gameReady => d.room.status = "started"
  /\ ~d.room.gameReady => Moored(d)
NavalGood(d, s) ==
  /\ Books(d)
  /\ d.room.status # "finished" => Afloat(d) /\ (~d.room.gameReady => Calm(s))

(* The steps of RoomContract where a stake may be late. *)
GathersLate(d, e) ==
  /\ Stage(d) # "closed" /\ (Stage(e) = Stage(d) \/ (Stage(d) = "lobby" /\ Stage(e) = "held"))
  /\ Taker(e) = Taker(d) /\ d.paid \subseteq e.paid /\ e.paid \subseteq Players
  /\ e.money[Escrow] = Stake * Cardinality(e.paid) /\ e.money[House] = d.money[House]
AwardsLate(d, e) ==
  /\ Stage(d) = "live" /\ Stage(e) = "closed" /\ Taker(e) \in Players /\ e.paid = d.paid
  /\ e.money[Escrow] = 0 /\ e.money[House] = (d.money[Escrow] * Fee + 99) \div 100
PromiseLate(d, e) ==
  Still(d, e) \/ GathersLate(d, e) \/ Confirms(d, e) \/ AwardsLate(d, e) \/ Returns(d, e)

NavalKept == NavalGood(db', sweep') /\ GraceStep /\ PromiseLate(db, db')

(* What a command leaves of an open room before the settlement. *)
NavalLead(d, e) ==
  /\ Held(e)
  /\ e.room.status = "finished" =>
       e.paid = d.paid /\ (HasTaker(e.room) => /\ e.back = {} /\ Stage(d) = "live"
                                               /\ e.room.winner \in Players)
  /\ e.room.status # "finished" =>
       /\ e.back = {} /\ Afloat(e)
       /\ \/ d.paid \subseteq e.paid /\ Stage(e) = Stage(d)
          \/ d.paid \subseteq e.paid /\ Stage(d) = "lobby" /\ Stage(e) = "held"
          \/ e.paid = d.paid /\ Stage(d) = "held" /\ Stage(e) = "live"

(* A command does not disturb a sweeper that only holds the row of a turn. *)
LEMMA CalmConflicts ==
  ASSUME NEW s, Calm(s)
  PROVE  Calm(Conflicts(s))
<1>1. Conflicts(Resting)["grace"] = Idle
  BY RestingConflicts DEF Resting, Sweepers
<1>2. Conflicts(s)["grace"] = Conflicts(Resting)["grace"]
  BY DEF Conflicts, Resting, Calm, Sweepers
<1>3. /\ DOMAIN Conflicts(s) = Sweepers
      /\ Conflicts(s)["clock"] = [s["clock"] EXCEPT !.conflict = s["clock"].conflict \/ s["clock"].step = "read"]
  BY DEF Conflicts, Sweepers
<1>4. DOMAIN Idle = {"player", "step", "conflict"}
  BY DEF Idle
<1> HIDE DEF Idle
<1>5. DOMAIN Conflicts(s)["clock"] = DOMAIN Idle /\ Conflicts(s)["clock"].step = s["clock"].step
  BY <1>3, <1>4 DEF Calm
<1> QED
  BY <1>1, <1>2, <1>3, <1>5 DEF Calm

(* What NavalGood says of an open and of a finished room. *)
LEMMA NavalShape ==
  ASSUME NavalGood(db, sweep)
  PROVE  /\ Shape(db) /\ DOMAIN db.grace = Players /\ Users = Players
         /\ db.room.status # "finished" => Held(db) /\ db.back = {} /\ Afloat(db)
         /\ db.room.status = "finished" => db.room.settled = TRUE
BY DEF NavalGood, Books, OpenBooks, ClosedBooks, Closed, Held, Shape, Users

(* Waits, of the state that a step writes, is the step of RefreshedRowSurvives. *)
LEMMA NavalWaits ==
  ASSUME NavalGood(db, sweep), NEW e, Waits(e), db'.grace = e.grace
  PROVE  GraceStep
BY NavalShape DEF GraceStep, Waits

(* The stakes of a room that a command left open. *)
LEMMA NavalOpen ==
  ASSUME NavalGood(db, sweep), db.room.status # "finished", NEW e, NavalLead(db, e),
         e.room.status # "finished", Waits(e), db' = e,
         sweep' = sweep \/ sweep' = Conflicts(sweep) \/ db.room.gameReady
  PROVE  NavalKept
<1>1. Held(db) /\ Held(e) /\ db.back = {} /\ e.back = {} /\ Afloat(db) /\ Afloat(e)
  BY NavalShape DEF NavalLead
<1>2. ~e.room.gameReady => ~db.room.gameReady
  BY <1>1 DEF NavalLead, Stage, Afloat
<1>3. ~e.room.gameReady => Calm(sweep')
  BY <1>2, CalmConflicts DEF NavalGood
<1>4. NavalGood(e, sweep')
  BY <1>1, <1>3 DEF NavalGood, Books, OpenBooks
<1>5. Taker(db) = None /\ Taker(e) = None /\ Stage(db) # "closed"
  BY <1>1 DEF Taker, Held, Stage
<1>6. /\ db.money[House] = e.money[House] /\ db.paid \ db.back = db.paid /\ e.paid \ e.back = e.paid
      /\ db.money[Escrow] = Stake * Cardinality(db.paid \ db.back)
      /\ e.money[Escrow] = Stake * Cardinality(e.paid \ e.back) /\ e.paid \subseteq Players
  BY <1>1 DEF Held, Shape
<1>7. PromiseLate(db, e)
  BY <1>5, <1>6 DEF PromiseLate, GathersLate, Confirms, NavalLead
<1> QED
  BY <1>4, <1>7, NavalWaits DEF NavalKept

(* The stakes of a room that a command finished, after the settlement. *)
LEMMA NavalClosing ==
  ASSUME NavalGood(db, sweep), db.room.status # "finished", NEW c, NavalLead(db, c),
         c.room.status = "finished", CanSettle(c), Waits(c), db' = settleGameRoom(c)
  PROVE  NavalKept
<1>1. Held(db) /\ Held(c) /\ db.back = {} /\ Afloat(db) /\ c.paid = db.paid
  BY NavalShape DEF NavalLead
<1> DEFINE e == settleGameRoom(c)
<1>2. Books(e) /\ e.grace = c.grace /\ e.paid = c.paid /\ e.room = [c.room EXCEPT !.settled = TRUE]
  BY <1>1, SettleBooks DEF NavalLead
<1>0. db' = e
  OBVIOUS
<1> HIDE DEF e
<1>3. /\ e.room.status = "finished" /\ e.room.settled = TRUE
      /\ e.room.winner = c.room.winner /\ e.room.cancelled = c.room.cancelled
  BY <1>1, <1>2 DEF Held, Shape
<1>4. NavalGood(e, sweep') /\ GraceStep
  BY <1>0, <1>2, <1>3, NavalWaits DEF NavalGood
<1>5. Stage(e) = "closed" /\ Stage(db) # "closed" /\ Taker(db) = None
  BY <1>1, <1>3 DEF Stage, Taker, Held
<1>6. db.paid \ db.back = db.paid /\ db.money[Escrow] = Stake * Cardinality(db.paid) /\ db.money[House] = 0
  BY <1>1 DEF Held
<1>7. Closed(e.room, e.paid, e.back, e.money)
  BY <1>2, <1>3 DEF Books, ClosedBooks
<1>8. CASE HasTaker(c.room)
  <2>1. e.room.settled /\ e.room.winner # None /\ ~e.room.cancelled
    BY <1>3, <1>8 DEF HasTaker
  <2>2. e.back = {} /\ e.money[Escrow] = 0
        /\ e.money[House] = (Stake * Cardinality(e.paid \ e.back) * Fee + 99) \div 100
    BY <1>7, <2>1 DEF Closed
  <2>3. e.paid \ e.back = db.paid
    BY <1>1, <1>2, <2>2
  <2>4. e.money[House] = (db.money[Escrow] * Fee + 99) \div 100
    BY <1>6, <2>2, <2>3
  <2>5. Taker(e) = c.room.winner /\ c.room.winner \in Players /\ Stage(db) = "live"
    BY <1>3, <1>8, <2>1 DEF Taker, NavalLead
  <2> QED
    BY <1>0, <1>1, <1>2, <1>4, <1>5, <2>2, <2>4, <2>5 DEF NavalKept, PromiseLate, AwardsLate
<1>9. CASE ~HasTaker(c.room)
  <2>1. ~(e.room.settled /\ e.room.winner # None /\ ~e.room.cancelled)
    BY <1>3, <1>9 DEF HasTaker
  <2>2. e.back = e.paid /\ e.money[House] = 0
        /\ e.money[Escrow] = Stake * Cardinality(e.paid \ e.back)
    BY <1>7, <2>1 DEF Closed
  <2>3. e.paid \ e.back = {}
    BY <2>2
  <2>4. e.money[Escrow] = 0
    BY <2>2, <2>3, FS_EmptySet, Times
  <2>5. Taker(e) = None
    BY <2>1 DEF Taker
  <2> QED
    BY <1>0, <1>1, <1>2, <1>4, <1>5, <1>6, <2>2, <2>4, <2>5 DEF NavalKept, PromiseLate, Returns
<1> QED
  BY <1>8, <1>9

(* A transaction that ends with the settlement. *)
LEMMA NavalSettled ==
  ASSUME NavalGood(db, sweep), db.room.status # "finished", NEW e, NavalLead(db, e), Waits(e),
         CanSettle(e), db' = settleGameRoom(e), sweep' = Conflicts(sweep) \/ db.room.gameReady
  PROVE  NavalKept
<1>1. CASE e.room.status = "finished"
  BY <1>1, NavalClosing
<1>2. CASE e.room.status # "finished"
  <2>1. db' = e
    BY <1>2 DEF settleGameRoom
  <2> QED
    BY <1>2, <2>1, NavalOpen
<1> QED
  BY <1>1, <1>2

(* The rows of a room change, and nothing else of it that the money depends on. *)
LEMMA NavalRows ==
  ASSUME NavalGood(db, sweep), NEW e, Shape(e), db' = e, Waits(e),
         e.room = db.room, e.paid = db.paid, e.back = db.back, e.money = db.money,
         db.room.status = "finished" \/ db.room.gameReady \/ (Moored(e) /\ Calm(sweep'))
  PROVE  NavalKept
<1>1. Books(e)
  BY DEF NavalGood, Books, OpenBooks, ClosedBooks, Held, Own
<1>2. NavalGood(e, sweep')
  BY <1>1, NavalShape DEF NavalGood, Afloat
<1>3. PromiseLate(db, e)
  BY DEF PromiseLate, Still, Stage, Taker
<1> QED
  BY <1>2, <1>3, NavalWaits DEF NavalKept

(* A step that leaves the database as it is. *)
LEMMA NavalSame ==
  ASSUME NavalGood(db, sweep), db' = db,
         sweep' = sweep \/ db.room.status = "finished" \/ db.room.gameReady \/ Calm(sweep')
  PROVE  NavalKept
<1>1. NavalGood(db', sweep')
  BY DEF NavalGood
<1>2. PromiseLate(db, db')
  BY DEF PromiseLate, Still
<1>3. GraceStep
  BY DEF GraceStep
<1> QED
  BY <1>1, <1>2, <1>3 DEF NavalKept

----------------------------------------------------------------------------
(* The steps that all games share. *)

(* A step in the lobby that leaves the stakes and the rows alone. *)
LEMMA NavalLobbyLead ==
  ASSUME NavalGood(db, sweep), db.room.status # "finished", ~db.room.gameReady,
         NEW r, DOMAIN r = DOMAIN db.room, r.players \in Seq(Players), r.settled = FALSE,
         r.status # "finished", r.gameReady = FALSE, r.played = FALSE,
         NEW e, e = [db EXCEPT !.room = r]
  PROVE  NavalLead(db, e) /\ Waits(e) /\ e.room.status # "finished"
<1>1. Held(db) /\ db.back = {} /\ Afloat(db) /\ Shape(db)
  BY NavalShape
<1>2. /\ e.room = r /\ e.paid = db.paid /\ e.back = db.back /\ e.money = db.money /\ e.grace = db.grace
      /\ e.clock = db.clock /\ e.aged = db.aged /\ e.game = db.game /\ DOMAIN e = DOMAIN db
  BY <1>1 DEF Shape
<1>3. Shape(e)
  BY <1>1, <1>2 DEF Shape
<1>4. Held(e) /\ Stage(e) = Stage(db)
  BY <1>1, <1>2, <1>3 DEF Held, Own, Stage
<1>5. Afloat(e)
  BY <1>1, <1>2 DEF Afloat, Moored
<1> QED
  BY <1>1, <1>2, <1>4, <1>5 DEF NavalLead, Waits

(* createRoom and joinRoom. *)
LEMMA NavalRoomKept ==
  ASSUME NavalGood(db, sweep), NEW p \in Players, createRoom(p) \/ joinRoom(p)
  PROVE  NavalKept
<1>1. /\ db.room.status # "finished" /\ Held(db) /\ Afloat(db) /\ Shape(db)
      /\ db.room.status \in {"none", "waiting"}
  BY NavalShape DEF createRoom, joinRoom
<1>2. ~db.room.gameReady /\ ~db.room.played
  BY <1>1 DEF Afloat
<1>3. CASE createRoom(p)
  <2> DEFINE r == [NoRoom EXCEPT !.status = "waiting", !.players = <<p>>]
             e == [db EXCEPT !.room = r]
  <2>1. /\ DOMAIN r = DOMAIN db.room /\ r.players \in Seq(Players) /\ r.settled = FALSE
        /\ r.status # "finished" /\ r.gameReady = FALSE /\ r.played = FALSE
    BY <1>1 DEF NoRoom, Shape
  <2>2. Save(e)
    BY <1>3 DEF createRoom
  <2> HIDE DEF r
  <2>3. NavalLead(db, e) /\ Waits(e) /\ e.room.status # "finished"
    BY <1>1, <1>2, <2>1, NavalLobbyLead
  <2> HIDE DEF e
  <2> QED
    BY <1>1, <2>2, <2>3, NavalOpen DEF Save
<1>4. CASE joinRoom(p)
  <2> DEFINE seated == Append(db.room.players, p)
             r == [db.room EXCEPT !.players = seated,
                                  !.status = IF Len(seated) = Seats THEN "started" ELSE @]
             e == [db EXCEPT !.room = r]
  <2>1. seated \in Seq(Players)
    BY <1>1 DEF Shape
  <2>2. e = [db EXCEPT !.room.players = seated,
                       !.room.status = IF Len(seated) = Seats THEN "started" ELSE @]
    BY <1>1 DEF Shape
  <2>3. Save(e)
    BY <1>4, <2>2 DEF joinRoom
  <2> HIDE DEF seated
  <2>4. /\ DOMAIN r = DOMAIN db.room /\ r.players \in Seq(Players) /\ r.settled = FALSE
        /\ r.status # "finished" /\ r.gameReady = FALSE /\ r.played = FALSE
    BY <1>1, <1>2, <2>1, Zenon DEF Shape, Held, Afloat
  <2> HIDE DEF r
  <2>5. NavalLead(db, e) /\ Waits(e) /\ e.room.status # "finished"
    BY <1>1, <1>2, <2>4, NavalLobbyLead
  <2> HIDE DEF e
  <2> QED
    BY <1>1, <2>3, <2>5, NavalOpen DEF Save
<1> QED
  BY <1>3, <1>4

(* Who watches, and who is ready, does not matter to the stakes. *)
LEMMA NavalTable ==
  ASSUME NavalGood(db, sweep), db.room.status # "finished", NEW e, SameTable(db, e),
         e.aged = db.aged, e.game = db.game
  PROVE  NavalLead(db, e) /\ Waits(e) /\ e.room.status # "finished"
<1>1. Held(db) /\ db.back = {} /\ Afloat(db) /\ Shape(db)
  BY NavalShape
<1>2. /\ e.room.status = db.room.status /\ e.room.players = db.room.players
      /\ e.room.gameReady = db.room.gameReady /\ e.room.played = db.room.played
      /\ e.room.settled = db.room.settled
  BY <1>1 DEF SameTable, Shape
<1>3. Shape(e)
  BY <1>1, <1>2 DEF Shape, SameTable
<1>4. Held(e) /\ Stage(e) = Stage(db)
  BY <1>1, <1>2, <1>3 DEF Held, Own, Stage, SameTable
<1>5. Afloat(e)
  BY <1>1, <1>2 DEF Afloat, Moored, SameTable
<1> QED
  BY <1>1, <1>2, <1>4, <1>5 DEF NavalLead, Waits, SameTable

(* The changes of a room that only concern who watches, who is ready and who has seen it. *)
LEMMA NavalTables ==
  ASSUME Shape(db), NEW s
  PROVE  /\ SameTable(db, db)
         /\ \A e \in {[db EXCEPT !.room.spectators = s], [db EXCEPT !.room.ready = s],
                       [db EXCEPT !.room.acked = s]} :
              SameTable(db, e) /\ e.aged = db.aged /\ e.game = db.game
BY DEF SameTable, Shape

(* A room that ends without a winner, and a match that is called off. *)
LEMMA NavalFinish ==
  ASSUME NavalGood(db, sweep), db.room.status # "finished"
  PROVE  /\ NavalLead(db, Finish(db, None)) /\ Waits(Finish(db, None))
         /\ NavalLead(db, Cancel(db)) /\ Waits(Cancel(db))
<1>1. Held(db) /\ Shape(db)
  BY NavalShape
<1>2. ASSUME NEW e, e \in {Finish(db, None), Cancel(db)}
      PROVE  NavalLead(db, e) /\ Waits(e)
  <2>1. /\ DOMAIN e = DOMAIN db /\ DOMAIN e.room = DOMAIN db.room /\ e.room.status = "finished"
        /\ e.room.winner = None /\ e.room.players = db.room.players /\ e.room.settled = FALSE
        /\ e.paid = db.paid /\ e.back = db.back /\ e.money = db.money /\ e.grace = db.grace
    <3>1. CASE e = Finish(db, None)
      BY <1>1, <3>1 DEF Finish, Shape, Held
    <3>2. CASE e = Cancel(db)
      BY <1>1, <3>2 DEF Cancel, Shape, Held
    <3> QED
      BY <1>2, <3>1, <3>2
  <2>2. Shape(e)
    BY <1>1, <2>1 DEF Shape
  <2>3. Held(e)
    BY <1>1, <2>1, <2>2 DEF Held, Own
  <2> QED
    BY <2>1, <2>3 DEF NavalLead, Waits, HasTaker
<1> QED
  BY <1>2

(* spectateRoom, markReady, and a match that nobody has confirmed in time. *)
LEMMA NavalTableKept ==
  ASSUME NavalGood(db, sweep),
         cancelPreparedMatch \/ \E p \in Players : spectateRoom(p) \/ markReady(p)
  PROVE  NavalKept
<1>1. db.room.status # "finished" /\ Shape(db)
  BY NavalShape DEF spectateRoom, markReady, cancelPreparedMatch, Pregame, Open, isPreparing
<1>2. PICK e : /\ (db' = e /\ sweep' = sweep) \/ Commit(e)
               /\ \/ \E s : e = [db EXCEPT !.room.spectators = s]
                  \/ \E s : e = [db EXCEPT !.room.ready = s]
                  \/ e = Cancel(db) /\ Commit(e)
  BY DEF spectateRoom, markReady, cancelPreparedMatch, Save
<1>3. NavalLead(db, e) /\ Waits(e) /\ (e.room.status # "finished" \/ Commit(e))
  BY <1>1, <1>2, NavalTables, NavalTable, NavalFinish
<1> QED
  BY <1>1, <1>2, <1>3, NavalOpen, NavalSettled DEF Commit

(* acknowledgeInitialState: the last acknowledgement lets the battle begin. *)
LEMMA NavalAcknowledged ==
  ASSUME NavalGood(db, sweep), NEW p \in Players, acknowledgeInitialState(p)
  PROVE  NavalKept
<1> DEFINE acked == [db EXCEPT !.room.acked = @ \cup {p}]
           first == IF db.game.mover = None THEN db.room.players[1] ELSE db.game.mover
           on == [acked EXCEPT !.room.played = TRUE, !.aged = FALSE]
           e == Schedule(on, first)
<1>1. /\ db.room.status # "finished" /\ db.room.gameReady /\ ~db.room.played
      /\ Shape(db) /\ Held(db) /\ db.back = {} /\ Afloat(db)
  BY NavalShape DEF acknowledgeInitialState, isPreparing
<1>2. SameTable(db, acked) /\ acked.aged = db.aged /\ acked.game = db.game
  BY <1>1, NavalTables
<1>3. CASE Save(acked)
  BY <1>1, <1>2, <1>3, NavalTable, NavalOpen DEF Save
<1>4. CASE Commit(e)
  <2>1. /\ DOMAIN on = DOMAIN db /\ DOMAIN on.room = DOMAIN db.room
        /\ on.room.status = db.room.status /\ on.room.players = db.room.players
        /\ on.room.gameReady = db.room.gameReady /\ on.room.played = TRUE /\ on.room.settled = FALSE
        /\ on.paid = db.paid /\ on.back = {} /\ on.money = db.money /\ on.grace = db.grace
    BY <1>1 DEF Shape, Held
  <2> HIDE DEF on
  <2>2. /\ e.room = on.room /\ e.paid = on.paid /\ e.back = on.back /\ e.money = on.money
        /\ e.grace = on.grace /\ DOMAIN e = DOMAIN on
    BY <1>1, <2>1 DEF Schedule, Shape
  <2> HIDE DEF e
  <2>3. Shape(e)
    BY <1>1, <2>1, <2>2 DEF Shape
  <2>4. Held(e)
    BY <1>1, <2>1, <2>2, <2>3 DEF Held, Own
  <2>5. Afloat(e) /\ Stage(db) = "held" /\ Stage(e) = "live"
    BY <1>1, <2>1, <2>2 DEF Afloat, Stage
  <2>6. NavalLead(db, e) /\ Waits(e)
    BY <1>1, <2>1, <2>2, <2>4, <2>5 DEF NavalLead, Waits
  <2> QED
    BY <1>1, <1>4, <2>6, NavalSettled DEF Commit
<1> QED
  BY <1>3, <1>4 DEF acknowledgeInitialState

(* Spend: money spent elsewhere is not the money of the room. *)
LEMMA NavalSpend ==
  ASSUME NavalGood(db, sweep), NEW p \in Players, Spend(p)
  PROVE  NavalKept
<1> DEFINE m == [db.money EXCEPT ![p] = 0]
           e == [db EXCEPT !.money = m]
<1>1. /\ db.room.status # "finished" /\ ~db.room.gameReady
      /\ Shape(db) /\ Held(db) /\ db.back = {} /\ Afloat(db)
  BY NavalShape DEF Spend, Pregame, Open
<1>2. Save(e)
  BY <1>1 DEF Spend
<1>3. /\ m \in [Accounts -> Int] /\ m[p] = 0 /\ m[Escrow] = db.money[Escrow] /\ m[House] = db.money[House]
      /\ \A q \in Players \ {p} : m[q] = db.money[q]
  BY <1>1, AccountsDiffer DEF Shape, Accounts
<1> HIDE DEF m
<1>4. /\ e.room = db.room /\ e.paid = db.paid /\ e.back = db.back /\ e.money = m /\ e.grace = db.grace
      /\ e.clock = db.clock /\ e.aged = db.aged /\ e.game = db.game /\ DOMAIN e = DOMAIN db
  BY <1>1 DEF Shape
<1> HIDE DEF e
<1>5. p \in Spenders \ db.paid
  BY DEF Spend
<1>6. Own(e)
  BY <1>1, <1>3, <1>4, <1>5 DEF Held, Own
<1>7. Held(e)
  BY <1>1, <1>3, <1>4, <1>6 DEF Held, Shape
<1>8. Afloat(e) /\ Stage(e) = Stage(db) /\ Waits(e)
  BY <1>1, <1>4 DEF Afloat, Moored, Stage, Waits
<1>9. NavalLead(db, e)
  BY <1>1, <1>4, <1>7, <1>8 DEF NavalLead
<1> QED
  BY <1>1, <1>2, <1>4, <1>8, <1>9, NavalOpen DEF Save

----------------------------------------------------------------------------
(* The rows and the sweepers. *)

(* A sweeper that reads, and a countdown, are of a battle that is set up. *)
LEMMA NavalRowsExist ==
  ASSUME NavalGood(db, sweep), db.room.status # "finished", ~db.room.gameReady
  PROVE  Moored(db) /\ Calm(sweep) /\ sweep["grace"].step = "idle"
BY DEF NavalGood, Afloat, Calm, Idle

(* Resync and DropSocket. *)
LEMMA NavalSocketKept ==
  ASSUME NavalGood(db, sweep), NEW p \in Players, Resync(p) \/ DropSocket(p)
  PROVE  NavalKept
<1>1. CASE Resync(p)
  <2> DEFINE e == CancelGrace(db, p)
  <2>1. db.room.status = "finished" /\ Shape(db) /\ db' = e
    BY <1>1, NavalShape DEF Resync, Save
  <2>2. /\ Shape(e) /\ e.room = db.room /\ e.paid = db.paid /\ e.back = db.back /\ e.money = db.money
        /\ Waits(e)
    BY <2>1 DEF CancelGrace, Shape, Waits, Open
  <2> HIDE DEF e
  <2> QED
    BY <2>1, <2>2, NavalRows
<1>2. CASE DropSocket(p)
  BY <1>2, NavalSame DEF DropSocket
<1> QED
  BY <1>1, <1>2

(* Time runs out for a turn or for a player who is away, and a sweeper takes the row. *)
LEMMA NavalExpiryKept ==
  ASSUME NavalGood(db, sweep),
         ClockRunsOut \/ TurnRunsOut \/ ClaimClock \/ \E p \in Players : GraceRunsOut(p) \/ ClaimGrace(p)
  PROVE  NavalKept
<1> DEFINE live == db.room.status = "finished" \/ db.room.gameReady
<1>1. Shape(db) /\ (~live => Moored(db) /\ Calm(sweep) /\ sweep["grace"].step = "idle")
  BY NavalShape, NavalRowsExist
<1>2. CASE ClockRunsOut
  <2> DEFINE e == [db EXCEPT !.clock.phase = "due", !.aged = @ \/ db.clock.player = db.game.mover]
  <2>1. db' = e /\ sweep' = sweep /\ db.clock.phase = "running"
    BY <1>2 DEF ClockRunsOut, Save
  <2>2. /\ Shape(e) /\ e.room = db.room /\ e.paid = db.paid /\ e.back = db.back /\ e.money = db.money
        /\ e.grace = db.grace /\ e.game = db.game /\ e.clock = [db.clock EXCEPT !.phase = "due"]
        /\ e.aged = (db.aged \/ db.clock.player = db.game.mover)
    BY <1>1 DEF Shape
  <2> HIDE DEF e
  <2>3. ~live => Moored(e)
    BY <1>1, <2>1, <2>2, RoomsAssumption DEF Moored
  <2>4. Waits(e)
    BY <2>2 DEF Waits
  <2> QED
    BY <1>1, <2>1, <2>2, <2>3, <2>4, NavalRows
<1>3. CASE TurnRunsOut
  <2> DEFINE e == [db EXCEPT !.aged = TRUE]
  <2>1. db' = e /\ (db.room.status # "finished" => live)
    BY <1>3, NavalShape DEF TurnRunsOut, Save, InPlay, Afloat
  <2>2. /\ Shape(e) /\ e.room = db.room /\ e.paid = db.paid /\ e.back = db.back /\ e.money = db.money
        /\ e.grace = db.grace
    BY <1>1 DEF Shape
  <2> HIDE DEF e
  <2>3. Waits(e)
    BY <2>2 DEF Waits
  <2> QED
    BY <2>1, <2>2, <2>3, NavalRows
<1>4. CASE ClaimClock
  <2> DEFINE e == [db EXCEPT !.clock.phase = "claimed"]
  <2>1. /\ db' = e /\ db.clock.phase = "due"
        /\ sweep' = [sweep EXCEPT !["clock"].player = db.clock.player, !["clock"].step = "claimed"]
    BY <1>4 DEF ClaimClock
  <2>2. /\ Shape(e) /\ e.room = db.room /\ e.paid = db.paid /\ e.back = db.back /\ e.money = db.money
        /\ e.grace = db.grace /\ e.game = db.game /\ e.aged = db.aged
        /\ e.clock = [db.clock EXCEPT !.phase = "claimed"]
    BY <1>1 DEF Shape
  <2> HIDE DEF e
  <2>3. ~live => Moored(e)
    BY <1>1, <2>1, <2>2 DEF Moored
  <2>4. ~live => Calm(sweep')
    BY <1>1, <2>1 DEF Calm, Sweepers, Idle
  <2>5. Waits(e)
    BY <2>2 DEF Waits
  <2> QED
    BY <1>1, <2>1, <2>2, <2>3, <2>4, <2>5, NavalRows
<1>5. ASSUME NEW p \in Players, GraceRunsOut(p) \/ ClaimGrace(p)
      PROVE  NavalKept
  <2>1. PICK x : /\ db' = [db EXCEPT !.grace[p] = x] /\ db.grace[p] # "none"
                 /\ db.grace[p] = "running" => x = "due"
    BY <1>5 DEF GraceRunsOut, ClaimGrace, Save
  <2> DEFINE e == [db EXCEPT !.grace[p] = x]
  <2>2. /\ Shape(e) /\ e.room = db.room /\ e.paid = db.paid /\ e.back = db.back /\ e.money = db.money
        /\ e.grace = [db.grace EXCEPT ![p] = x]
    BY <1>1 DEF Shape
  <2>0. db' = e
    BY <2>1
  <2> HIDE DEF e
  <2>3. Waits(e)
    BY <1>1, <2>1, <2>2 DEF Waits, Shape
  <2>4. live
    BY <1>1, <2>1 DEF Moored
  <2> QED
    BY <2>0, <2>2, <2>3, <2>4, NavalRows
<1> QED
  BY <1>2, <1>3, <1>4, <1>5

(* The steps of a sweeper that only read: before the battle no turn has run out. *)
LEMMA NavalSweeperStep ==
  ASSUME NavalGood(db, sweep), NEW k \in Sweepers, ReadVersion(k) \/ Refused(k) \/ HandlerFails(k)
  PROVE  NavalKept
<1>1. db' = db /\ sweep[k].step \in {"claimed", "read"}
  BY DEF ReadVersion, Refused, HandlerFails
<1>2. CASE db.room.status = "finished" \/ db.room.gameReady
  BY <1>1, <1>2, NavalSame
<1>3. CASE ~(db.room.status = "finished" \/ db.room.gameReady)
  <2>1. Moored(db) /\ Calm(sweep) /\ sweep["grace"].step = "idle"
    BY <1>3, NavalRowsExist
  <2>2. k = "clock" /\ sweep[k].step = "claimed"
    BY <1>1, <2>1 DEF Sweepers, Calm
  <2>3. sweep' = [sweep EXCEPT !["clock"].step = "succeeded"]
    BY <2>1, <2>2 DEF ReadVersion, Refused, HandlerFails, Moored
  <2>4. Calm(sweep')
    BY <2>1, <2>3 DEF Calm, Sweepers
  <2> QED
    BY <1>1, <2>4, NavalSame
<1> QED
  BY <1>2, <1>3

(* Release: the sweeper deletes or gives back the row it claimed, never one that runs again. *)
LEMMA NavalRelease ==
  ASSUME NavalGood(db, sweep), NEW k \in Sweepers, Release(k)
  PROVE  NavalKept
<1> DEFINE p == sweep[k].player
           live == db.room.status = "finished" \/ db.room.gameReady
<1>1. /\ Shape(db) /\ sweep' = [sweep EXCEPT ![k] = Idle]
      /\ ~live => Moored(db) /\ Calm(sweep) /\ k = "clock"
  BY NavalShape, NavalRowsExist DEF Release, Sweepers
<1>2. ~live => Calm(sweep')
  BY <1>1 DEF Calm, Sweepers, Idle
<1>3. CASE k = "clock" /\ db.clock.phase = "claimed"
  <2>1. PICK row : /\ db' = [db EXCEPT !.clock = row]
                   /\ row = NoRow \/ row = [db.clock EXCEPT !.phase = "running"]
    <3>1. CASE sweep[k].step = "succeeded"
      BY <1>3, <3>1 DEF Release, Unschedule
    <3>2. CASE sweep[k].step # "succeeded"
      <4>1. db' = [db EXCEPT !.clock = [@ EXCEPT !.phase = "running"]]
        BY <1>3, <3>2 DEF Release
      <4> QED
        BY <4>1
    <3> QED
      BY <3>1, <3>2
  <2> DEFINE e == [db EXCEPT !.clock = row]
  <2>2. /\ Shape(e) /\ e.room = db.room /\ e.paid = db.paid /\ e.back = db.back /\ e.money = db.money
        /\ e.grace = db.grace /\ e.game = db.game /\ e.aged = db.aged /\ e.clock = row
    BY <1>1 DEF Shape
  <2> HIDE DEF e
  <2>3. Waits(e)
    BY <2>2 DEF Waits
  <2>4. ASSUME ~live
        PROVE  Moored(e)
    <3>1. row = NoRow => DOMAIN row = {"player", "phase"} /\ row.phase = "none"
      BY DEF NoRow
    <3>2. row # NoRow => DOMAIN row = {"player", "phase"} /\ row.player \in Players
      BY <1>1, <1>3, <2>1, <2>4 DEF Moored
    <3> QED
      BY <1>1, <2>2, <2>4, <3>1, <3>2 DEF Moored
  <2> QED
    BY <1>2, <2>1, <2>2, <2>3, <2>4, NavalRows DEF e
<1>4. CASE k = "grace" /\ db.grace[p] = "claimed"
  <2>1. PICK x : db' = [db EXCEPT !.grace[p] = x]
    BY <1>4 DEF Release, CancelGrace, StartGrace
  <2> DEFINE e == [db EXCEPT !.grace[p] = x]
  <2>2. /\ Shape(e) /\ e.room = db.room /\ e.paid = db.paid /\ e.back = db.back /\ e.money = db.money
        /\ e.grace = [db.grace EXCEPT ![p] = x]
    BY <1>1 DEF Shape
  <2>3. db' = e
    BY <2>1
  <2> HIDE DEF e, p
  <2>4. Waits(e)
    BY <1>1, <1>4, <2>2 DEF Waits, Shape
  <2> QED
    BY <1>1, <1>4, <2>2, <2>3, <2>4, NavalRows
<1>5. CASE ~(k = "clock" /\ db.clock.phase = "claimed") /\ ~(k = "grace" /\ db.grace[p] = "claimed")
  <2>1. db' = db
    BY <1>5 DEF Release
  <2> QED
    BY <1>2, <2>1, NavalSame
<1> QED
  BY <1>3, <1>4, <1>5

(* SweeperDies: its claims lapse, and no running countdown is one. *)
LEMMA NavalSweeperDies ==
  ASSUME NavalGood(db, sweep), NEW k \in Sweepers, SweeperDies(k)
  PROVE  NavalKept
<1> DEFINE live == db.room.status = "finished" \/ db.room.gameReady
           g == [p \in Players |-> IF db.grace[p] = "claimed" THEN "due" ELSE db.grace[p]]
           c == IF db.clock.phase = "claimed" THEN "due" ELSE db.clock.phase
           e == IF k = "clock" THEN [db EXCEPT !.clock.phase = c] ELSE [db EXCEPT !.grace = g]
<1>1. /\ Shape(db) /\ sweep' = [sweep EXCEPT ![k] = Idle] /\ sweep[k] # Idle
      /\ ~live => Moored(db) /\ Calm(sweep) /\ k = "clock"
  BY NavalShape, NavalRowsExist DEF SweeperDies, Sweepers, Calm
<1>2. ~live => Calm(sweep')
  BY <1>1 DEF Calm, Sweepers, Idle
<1>3. db' = e
  BY DEF SweeperDies
<1>4. /\ Shape(e) /\ e.room = db.room /\ e.paid = db.paid /\ e.back = db.back /\ e.money = db.money
      /\ e.grace \in {db.grace, g} /\ e.game = db.game /\ e.aged = db.aged
      /\ k = "clock" => e.grace = db.grace /\ e.clock = [db.clock EXCEPT !.phase = c]
  <2>1. CASE k = "clock"
    BY <1>1, <2>1 DEF Shape
  <2>2. CASE k # "clock"
    BY <1>1, <2>2 DEF Shape
  <2> QED
    BY <2>1, <2>2
<1> HIDE DEF e
<1>5. Waits(e)
  BY <1>4 DEF Waits
<1>6. ~live => Moored(e)
  BY <1>1, <1>4 DEF Moored
<1> QED
  BY <1>2, <1>3, <1>4, <1>5, <1>6, NavalRows

(* All steps that are the same in every game. *)
LEMMA NavalRoomStep ==
  ASSUME NavalGood(db, sweep), RoomStep
  PROVE  NavalKept
BY NavalRoomKept, NavalTableKept, NavalAcknowledged, NavalSpend, NavalSocketKept, NavalExpiryKept,
   NavalSweeperStep, NavalRelease, NavalSweeperDies DEF RoomStep

----------------------------------------------------------------------------
(* The gateway. *)

(* An open room that stays as it is. *)
LEMMA NavalSelf ==
  ASSUME NavalGood(db, sweep), db.room.status # "finished"
  PROVE  NavalLead(db, db) /\ Waits(db)
BY NavalShape, NavalTable, NavalTables

(* Neither the rows nor the seats that are ready matter to the stakes. *)
LEMMA NavalFrame ==
  ASSUME NEW d, NEW e, NavalLead(d, e), e.room.status # "finished",
         NEW f, DOMAIN f = DOMAIN e, DOMAIN f.room = DOMAIN e.room,
         \A x \in DOMAIN e.room \ {"ready"} : f.room[x] = e.room[x],
         f.paid = e.paid, f.back = e.back, f.money = e.money, DOMAIN f.grace = DOMAIN e.grace, Afloat(f)
  PROVE  NavalLead(d, f)
<1>1. Held(e) /\ Shape(e) /\ e.back = {} /\ Afloat(e)
  BY DEF NavalLead, Held
<1>2. /\ f.room.status = e.room.status /\ f.room.players = e.room.players /\ f.room.settled = e.room.settled
      /\ f.room.gameReady = e.room.gameReady /\ f.room.played = e.room.played
  BY <1>1 DEF Shape
<1>3. Shape(f) /\ Stage(f) = Stage(e)
  BY <1>1, <1>2 DEF Shape, Stage
<1>4. Held(f)
  BY <1>1, <1>2, <1>3 DEF Held, Own
<1> QED
  BY <1>1, <1>2, <1>3, <1>4 DEF NavalLead

(* The row of a turn. *)
LEMMA NavalTimed ==
  ASSUME NEW d, NEW e, NavalLead(d, e), e.room.status # "finished", NEW p \in Players
  PROVE  NavalLead(d, Schedule(e, p)) /\ Schedule(e, p).grace = e.grace /\ Schedule(e, p).room = e.room
<1> DEFINE f == Schedule(e, p)
<1>1. Shape(e) /\ Afloat(e)
  BY DEF NavalLead, Held
<1>2. /\ DOMAIN f = DOMAIN e /\ f.room = e.room /\ f.grace = e.grace /\ f.aged = e.aged /\ f.game = e.game
      /\ f.paid = e.paid /\ f.back = e.back /\ f.money = e.money
      /\ f.clock = e.clock \/ f.clock = [player |-> p, phase |-> "running"]
  BY <1>1 DEF Schedule, Shape
<1> HIDE DEF f
<1>3. Afloat(f)
  BY <1>1, <1>2 DEF Afloat, Moored
<1>4. NavalLead(d, f)
  BY <1>2, <1>3, NavalFrame
<1> QED
  BY <1>2, <1>4 DEF f

(* The countdowns, which begin in the battle only. *)
LEMMA NavalCounted ==
  ASSUME NEW d, NEW e, NavalLead(d, e), e.room.status # "finished", NEW p \in Players,
         NEW x, x = "none" \/ e.room.gameReady
  PROVE  NavalLead(d, [e EXCEPT !.grace[p] = x])
<1> DEFINE f == [e EXCEPT !.grace[p] = x]
<1>1. Shape(e) /\ Afloat(e)
  BY DEF NavalLead, Held
<1>2. /\ DOMAIN f = DOMAIN e /\ f.room = e.room /\ f.grace = [e.grace EXCEPT ![p] = x] /\ f.aged = e.aged
      /\ f.game = e.game /\ f.clock = e.clock /\ f.paid = e.paid /\ f.back = e.back /\ f.money = e.money
  BY <1>1 DEF Shape
<1> HIDE DEF f
<1>3. Afloat(f) /\ DOMAIN f.grace = DOMAIN e.grace
  BY <1>1, <1>2 DEF Afloat, Moored, Shape
<1>4. NavalLead(d, f)
  BY <1>2, <1>3, NavalFrame
<1> QED
  BY <1>4 DEF f

(* join, get_state, and the connection itself. *)
LEMMA NavalJoinKept ==
  ASSUME NavalGood(db, sweep), NEW p \in Players, handleNavalJoin(p)
  PROVE  NavalKept
<1> DEFINE e == IF p \in Seated(db) THEN syncPlayerState(db, p) ELSE db
           f == CancelGrace(e, p)
<1>1. db.room.status # "finished" /\ Shape(db)
  BY NavalShape DEF handleNavalJoin, Open
<1>2. NavalLead(db, e) /\ e.grace = db.grace /\ e.room = db.room
  BY <1>1, NavalSelf, NavalTimed DEF syncPlayerState
<1>3. db' = f /\ sweep' = sweep /\ online' = online \cup {p}
  BY DEF handleNavalJoin, Save
<1> HIDE DEF e
<1>4. NavalLead(db, f) /\ f.grace = [e.grace EXCEPT ![p] = "none"] /\ f.room = e.room
  <2>1. f = [e EXCEPT !.grace[p] = "none"] /\ Shape(e)
    BY <1>2 DEF CancelGrace, NavalLead, Held
  <2>2. NavalLead(db, f)
    BY <1>1, <1>2, <2>1, NavalCounted
  <2> QED
    BY <2>1, <2>2 DEF Shape
<1> HIDE DEF f
<1>5. Waits(f) /\ f.room.status # "finished"
  BY <1>1, <1>2, <1>3, <1>4 DEF Waits, Shape
<1> QED
  BY <1>1, <1>3, <1>4, <1>5, NavalOpen

(* Place: the stake of one player, in the lobby or late. *)
LEMMA NavalPlace ==
  ASSUME NavalGood(db, sweep), Open(db), NEW p \in Players, CanCharge(db, p), NEW ships
  PROVE  LET e == Place(db, p, ships)
         IN NavalLead(db, e) /\ e.grace = db.grace /\ e.room = db.room
<1> DEFINE ps == {p} \ db.paid
           c == Charge(db, {p})
           e == Place(db, p, ships)
<1>1. /\ db.room.status # "finished" /\ Shape(db) /\ Held(db) /\ db.back = {} /\ Afloat(db)
  BY NavalShape DEF Open
<1>2. /\ c.room = db.room /\ c.grace = db.grace /\ c.back = db.back /\ c.paid = db.paid \cup {p}
      /\ c.clock = db.clock /\ c.aged = db.aged /\ c.money = Pay(db.money, ps, Stake) /\ DOMAIN c = DOMAIN db
  BY <1>1 DEF Charge, Shape
<1>3. /\ ps \subseteq Players \ db.paid /\ IsFiniteSet(ps) /\ Cardinality(ps) \in Nat
      /\ IsFiniteSet(db.paid \cup {p}) /\ db.paid \cup {p} = db.paid \cup ps
  <2>1. IsFiniteSet({p}) /\ IsFiniteSet(ps)
    BY FS_Singleton, FS_Difference
  <2> QED
    BY <1>1, <2>1, FS_Union, FS_CardinalityType DEF Shape
<1>4. \A q \in ps : db.money[q] = Stake
  BY <1>1, RoomsAssumption DEF Held, Own, CanCharge
<1>5. c.money \in [Accounts -> Int]
  <2> HIDE DEF ps, c
  <2>1. Stake * Cardinality(ps) \in Int
    BY <1>3, Times
  <2> QED
    BY <1>1, <1>2, <2>1, AccountsDiffer, RoomsAssumption DEF Pay, Shape, Accounts
<1>6. Shape(c)
  BY <1>1, <1>2, <1>3, <1>5 DEF Shape
<1>7. \E S, H : e = [c EXCEPT !.game = [mover |-> None, ships |-> S, shots |-> H]]
  BY DEF Place
<1> HIDE DEF c, ps, e
<1>8. Held(c)
  BY <1>1, <1>2, <1>3, <1>4, <1>6, PayIn
<1>9. /\ e.room = db.room /\ e.grace = db.grace /\ e.clock = db.clock /\ e.aged = db.aged
      /\ e.paid = c.paid /\ e.back = {} /\ e.money = c.money /\ DOMAIN e = DOMAIN c /\ e.game.mover = None
  BY <1>1, <1>2, <1>6, <1>7 DEF Shape
<1>10. Held(e)
  BY <1>1, <1>2, <1>8, <1>9 DEF Held, Own, Shape
<1>11. Afloat(e) /\ Stage(e) = Stage(db)
  BY <1>1, <1>9 DEF Afloat, Moored, Stage
<1>12. NavalLead(db, e)
  BY <1>1, <1>2, <1>9, <1>10, <1>11 DEF NavalLead
<1> QED
  BY <1>9, <1>12 DEF e

(* Starts: the battle is set up, or already is. *)
LEMMA NavalStarts ==
  ASSUME NEW d, NEW e, NavalLead(d, e), e.room.status # "finished"
  PROVE  LET f == Starts(e) IN NavalLead(d, f) /\ f.grace = e.grace /\ f.room.status # "finished"
<1> DEFINE f == Starts(e)
<1>1. Held(e) /\ Shape(e) /\ e.back = {} /\ Afloat(e)
  BY DEF NavalLead, Held
<1>2. /\ f.room = [e.room EXCEPT !.status = "started", !.gameReady = TRUE] /\ DOMAIN f = DOMAIN e
      /\ f.paid = e.paid /\ f.back = e.back /\ f.money = e.money /\ f.grace = e.grace
  BY <1>1 DEF Starts, Shape
<1> HIDE DEF f
<1>3. /\ DOMAIN f.room = DOMAIN e.room /\ f.room.status = "started" /\ f.room.gameReady = TRUE
      /\ f.room.played = e.room.played /\ f.room.players = e.room.players /\ f.room.settled = e.room.settled
  BY <1>1, <1>2 DEF Shape
<1>4. Shape(f)
  BY <1>1, <1>2, <1>3 DEF Shape
<1>5. Held(f)
  BY <1>1, <1>2, <1>3, <1>4 DEF Held, Own
<1>6. Afloat(f) /\ Stage(f) = IF Stage(e) = "lobby" THEN "held" ELSE Stage(e)
  BY <1>1, <1>3 DEF Afloat, Stage
<1>7. NavalLead(d, f)
  BY <1>1, <1>2, <1>3, <1>5, <1>6 DEF NavalLead
<1> QED
  BY <1>2, <1>3, <1>7 DEF f

(* place_ships and saveBattleshipPlacement. *)
LEMMA NavalPlacement ==
  ASSUME BattleInv(db), NavalGood(db, sweep), NEW p \in Players, NEW ships \in Fleets,
         handlePlaceShips(p, ships) \/ saveBattleshipPlacement(p, ships)
  PROVE  NavalKept
<1> DEFINE placed == Place(db, p, ships)
           readied == [placed EXCEPT !.room.ready = @ \cup {p}]
           first == db.room.players[1]
<1>1. Open(db) /\ db.room.status # "finished" /\ CanCharge(db, p) /\ Shape(db) /\ p \in Seated(db)
  BY NavalShape DEF handlePlaceShips, saveBattleshipPlacement, Open
<1>2. NavalLead(db, placed) /\ placed.grace = db.grace /\ placed.room = db.room
  BY <1>1, NavalPlace
<1>3. PICK e : Commit(e) /\ e \in {placed, Starts(placed), readied, Starts(readied), Schedule(Starts(readied), first)}
  BY DEF handlePlaceShips, saveBattleshipPlacement
<1>4. first \in Players
  <2>1. 1 \in DOMAIN db.room.players
    BY <1>1 DEF Seated, ToSet, Shape
  <2> QED
    BY <1>1, <2>1 DEF Shape
<1> HIDE DEF placed, first
<1>5. Shape(placed) /\ Afloat(placed)
  BY <1>1, <1>2 DEF NavalLead, Held
<1>6. NavalLead(db, readied) /\ readied.grace = db.grace /\ readied.room.status # "finished"
  <2>1. /\ DOMAIN readied = DOMAIN placed /\ readied.room = [placed.room EXCEPT !.ready = @ \cup {p}]
        /\ readied.grace = placed.grace /\ readied.aged = placed.aged /\ readied.game = placed.game
        /\ readied.paid = placed.paid /\ readied.back = placed.back /\ readied.money = placed.money
        /\ readied.clock = placed.clock
    BY <1>5 DEF Shape
  <2> HIDE DEF readied
  <2>2. /\ DOMAIN readied.room = DOMAIN placed.room
        /\ \A x \in DOMAIN placed.room \ {"ready"} : readied.room[x] = placed.room[x]
        /\ readied.room.status = placed.room.status /\ readied.room.gameReady = placed.room.gameReady
        /\ readied.room.played = placed.room.played
    BY <1>5, <2>1 DEF Shape
  <2>3. Afloat(readied)
    BY <1>5, <2>1, <2>2 DEF Afloat, Moored
  <2>4. NavalLead(db, readied)
    BY <1>1, <1>2, <2>1, <2>2, <2>3, NavalFrame
  <2> QED
    BY <1>1, <1>2, <2>1, <2>2, <2>4
<1> HIDE DEF readied
<1>7. /\ NavalLead(db, Starts(placed)) /\ Starts(placed).grace = db.grace
      /\ NavalLead(db, Starts(readied)) /\ Starts(readied).grace = db.grace
      /\ Starts(readied).room.status # "finished"
  BY <1>1, <1>2, <1>6, NavalStarts
<1> DEFINE s == Starts(readied)
<1> HIDE DEF s
<1>8. NavalLead(db, Schedule(s, first)) /\ Schedule(s, first).grace = s.grace
  BY <1>4, <1>7, NavalTimed DEF s
<1>9. NavalLead(db, e) /\ e.grace = db.grace
  BY <1>2, <1>3, <1>6, <1>7, <1>8 DEF s
<1> QED
  BY <1>1, <1>3, <1>9, NavalSettled DEF Commit, Waits

(* What a battle that is being fought may become. *)
LEMMA NavalPlays ==
  ASSUME NavalGood(db, sweep), InPlay(db), NEW e, Plays(db, e),
         e.room.status = "finished" => e.room.winner \in Players
  PROVE  NavalLead(db, e) /\ Waits(e)
<1>1. /\ db.room.status = "started" /\ db.room.played /\ Held(db) /\ Shape(db) /\ Afloat(db)
      /\ Stage(db) = "live" /\ db.room.gameReady
  BY NavalShape DEF InPlay, Afloat, Stage
<1>2. CASE e.room = db.room /\ e.back = {}
  <2>1. Afloat(e) /\ Stage(e) = Stage(db)
    BY <1>1, <1>2 DEF Afloat, Stage
  <2> QED
    BY <1>1, <1>2, <2>1 DEF Plays, NavalLead, Waits
<1>3. CASE \E w : /\ e.room = [db.room EXCEPT !.status = "finished", !.winner = w]
                  /\ w # None => e.back = {}
  <2>1. PICK w : e.room = [db.room EXCEPT !.status = "finished", !.winner = w] /\ (w # None => e.back = {})
    BY <1>3
  <2>2. e.room.status = "finished" /\ e.room.winner = w
    BY <1>1, <2>1 DEF Shape
  <2> QED
    BY <1>1, <2>1, <2>2 DEF Plays, NavalLead, Waits, HasTaker
<1> QED
  BY <1>2, <1>3 DEF Plays

(* In a room of two there always is someone who wins when the other one gives up. *)
LEMMA NavalOpponent ==
  ASSUME BattleInv(db), db.room.status = "started", NEW p
  PROVE  Opponent(db, p) \in Players
<1> DEFINE s == db.room.players
           First(i) == s[i] # p /\ \A j \in 1..i-1 : s[j] = p
<1>1. s \in Seq(Players) /\ DOMAIN s = {1, 2} /\ s[1] # s[2]
  BY DEF BattleInv, Orderly
<1>2. \E i \in DOMAIN s : First(i)
  <2>1. CASE s[1] # p
    <3>1. First(1)
      BY <2>1
    <3> QED
      BY <1>1, <3>1
  <2>2. CASE s[1] = p
    <3>1. First(2)
      BY <1>1, <2>2
    <3> QED
      BY <1>1, <3>1
  <2> QED
    BY <2>1, <2>2
<1> DEFINE k == CHOOSE i \in DOMAIN s : First(i)
<1>3. Opponent(db, p) = s[k]
  BY DEF Opponent
<1> HIDE DEF First, s
<1>4. k \in DOMAIN s
  BY <1>2
<1> HIDE DEF k
<1> QED
  BY <1>1, <1>3, <1>4

(* A player gives up, or the player of the row of the turn loses. *)
LEMMA NavalResign ==
  ASSUME NavalGood(db, sweep), BattleInv(db), InPlay(db), NEW p
  PROVE  /\ NavalLead(db, Resign(db, p)) /\ Waits(Resign(db, p))
         /\ NavalLead(db, NavalTimeout(db, p)) /\ Waits(NavalTimeout(db, p))
<1> DEFINE w == Opponent(db, p)
           e == Finish(db, w)
           f == Unschedule(e)
<1>1. OpenBooks(db) /\ Shape(db) /\ w \in Players
  BY NavalShape, NavalOpponent DEF InPlay, OpenBooks
<1> HIDE DEF w
<1>2. Plays(db, e) /\ e.room.winner = w
  BY <1>1, TurnedSelf, TurnedPlays DEF Finish, Shape
<1> HIDE DEF e
<1>3. Turned(e, f)
  BY <1>2, TurnedSelf, TurnedSteps DEF Plays, Held
<1>4. Plays(db, f)
  BY <1>2, <1>3, PlaysTurned
<1> HIDE DEF f
<1>5. NavalLead(db, e) /\ Waits(e) /\ NavalLead(db, f) /\ Waits(f)
  BY <1>1, <1>2, <1>3, <1>4, NavalPlays DEF Turned
<1> QED
  BY <1>5 DEF Resign, NavalTimeout, e, f, w

(* handleFire: the shot ends the battle, or someone is timed. *)
LEMMA NavalFire ==
  ASSUME NavalGood(db, sweep), NEW p \in Players, NEW cell \in Sea, handleFire(p, cell)
  PROVE  NavalKept
<1> DEFINE fired == [db EXCEPT !.game.shots[p] = @ \cup {cell}]
           g == [db.game EXCEPT !.shots[p] = @ \cup {cell}]
<1>1. InPlay(db) /\ db.room.status # "finished" /\ OpenBooks(db) /\ Shape(db)
  BY NavalShape DEF handleFire, InPlay, OpenBooks
<1>2. PICK e : /\ Commit(e)
               /\ e = Finish(fired, p) \/ e = NewTurn(fired) \/ \E x : e = Schedule(NewTurn(fired), x)
  BY DEF handleFire
<1>3. fired = [db EXCEPT !.game = g]
  BY <1>1 DEF Shape
<1> HIDE DEF g, fired
<1>4. Turned(db, fired) /\ fired.room = db.room
  BY <1>1, <1>3, TurnedSelf, TurnedSteps DEF Turned
<1>5. Turned(db, NewTurn(fired)) /\ \A x : Turned(db, Schedule(NewTurn(fired), x))
  BY <1>1, <1>4, TurnedSteps
<1>6. Finish(fired, p).room.winner = p
  BY <1>1, <1>4 DEF Finish, Turned, Shape
<1>7. Plays(db, e) /\ (e.room.status = "finished" => e.room.winner \in Players)
  BY <1>1, <1>2, <1>4, <1>5, <1>6, TurnedPlays DEF Turned
<1> QED
  BY <1>1, <1>2, <1>7, NavalPlays, NavalSettled DEF Commit

(* Someone leaves the lobby: the placements go back, which ends a room that had any. *)
LEMMA NavalLobby ==
  ASSUME NavalGood(db, sweep), Pregame(db), NEW p \in Seated(db)
  PROVE  NavalLead(db, Lobby(db, p)) /\ Waits(Lobby(db, p))
<1>1. /\ db.room.status # "finished" /\ ~db.room.gameReady /\ ~db.room.played
      /\ Held(db) /\ Shape(db) /\ Afloat(db) /\ Stage(db) = "lobby"
  BY NavalShape DEF Pregame, Open, Afloat, Stage
<1> DEFINE r == [db.room EXCEPT !.players = Without(@, p), !.status = "waiting", !.gameReady = FALSE,
                                !.ready = @ \ {p}]
           left == Depart(db, p)
           ps == Placed(db)
           back == Refund(left, ps)
           e == Lobby(db, p)
<1>2. /\ NavalLead(db, left) /\ left.room.status # "finished"
      /\ left.room.gameReady = FALSE /\ left.paid = db.paid /\ left.grace = db.grace
  <2>1. Without(db.room.players, p) \in Seq(Players)
    BY <1>1, WithoutSeats DEF Shape, Seated
  <2>2. left = [db EXCEPT !.room = r]
    BY <1>1 DEF Depart, Shape
  <2>3. /\ DOMAIN r = DOMAIN db.room /\ r.players \in Seq(Players) /\ r.settled = FALSE
        /\ r.status # "finished" /\ r.gameReady = FALSE /\ r.played = FALSE
    BY <1>1, <2>1 DEF Shape, Held
  <2> HIDE DEF r, left
  <2>4. NavalLead(db, left)
    BY <1>1, <2>2, <2>3, NavalLobbyLead
  <2> QED
    BY <1>1, <2>2, <2>3, <2>4 DEF Shape
<1> HIDE DEF r, left, ps
<1>3. Held(left) /\ Shape(left) /\ left.back = {} /\ Afloat(left) /\ Stage(left) = "lobby"
  BY <1>1, <1>2 DEF NavalLead, Held, Stage
<1>4. /\ Held(back) /\ back.grace = db.grace /\ back.paid = db.paid /\ back.back = ps \cap db.paid
      /\ back.clock = left.clock /\ back.aged = left.aged
      /\ ps = {} => back.room = left.room
      /\ ps # {} => back.room.status = "finished" /\ back.room.cancelled = TRUE
  <2>1. Held(back) /\ back.grace = left.grace /\ back.paid = left.paid /\ back.back = left.back \cup (ps \cap left.paid)
    BY <1>3, RefundHeld
  <2>2. /\ back.clock = left.clock /\ back.aged = left.aged
        /\ ps = {} => back.room = left.room
        /\ ps # {} => back.room.status = "finished" /\ back.room.cancelled = TRUE
    BY <1>2, <1>3 DEF Refund, Shape
  <2> HIDE DEF back
  <2> QED
    BY <1>2, <1>3, <2>1, <2>2
<1>5. e = [back EXCEPT !.game = NoGame, !.room.ready = {}]
  BY DEF Lobby, left, ps
<1> HIDE DEF e, back
<1>6. /\ DOMAIN e = DOMAIN back /\ e.room = [back.room EXCEPT !.ready = {}] /\ e.game = NoGame
      /\ e.paid = back.paid /\ e.back = back.back /\ e.money = back.money /\ e.grace = back.grace
      /\ e.clock = back.clock /\ e.aged = back.aged
  BY <1>4, <1>5 DEF Held, Shape
<1>7. /\ DOMAIN e.room = DOMAIN back.room
      /\ \A x \in DOMAIN back.room \ {"ready"} : e.room[x] = back.room[x]
      /\ e.room.status = back.room.status /\ e.room.gameReady = back.room.gameReady
      /\ e.room.played = back.room.played /\ e.room.cancelled = back.room.cancelled
  BY <1>4, <1>6 DEF Held, Shape
<1>8. Held(e)
  BY <1>4, <1>6, <1>7 DEF Held, Own, Shape
<1>9. Waits(e)
  BY <1>4, <1>6 DEF Waits
<1>10. ASSUME ps = {}
       PROVE  NavalLead(db, e)
  <2>1. e.back = {} /\ e.room.status # "finished" /\ NoGame.mover = None
    BY <1>2, <1>4, <1>6, <1>7, <1>10 DEF NoGame
  <2>2. Afloat(e) /\ Stage(e) = "lobby"
    BY <1>3, <1>4, <1>2, <1>6, <1>7, <1>10, <2>1 DEF Afloat, Moored, Stage
  <2> QED
    BY <1>1, <1>4, <1>6, <1>8, <1>9, <2>1, <2>2 DEF NavalLead
<1>11. ASSUME ps # {}
       PROVE  NavalLead(db, e)
  <2>1. e.room.status = "finished" /\ ~HasTaker(e.room)
    BY <1>4, <1>7, <1>11 DEF HasTaker
  <2> QED
    BY <1>4, <1>6, <1>8, <1>9, <2>1 DEF NavalLead
<1> QED
  BY <1>9, <1>10, <1>11 DEF e

(* leaveRoom. *)
LEMMA NavalLeave ==
  ASSUME NavalGood(db, sweep), BattleInv(db), NEW p \in Players, LeaveNaval(p)
  PROVE  NavalKept
<1>1. /\ db.room.status # "finished" /\ Shape(db) /\ Afloat(db) /\ p \in Seated(db)
      /\ db.room.status \in {"waiting", "started"}
  BY NavalShape DEF LeaveNaval, Leave, Open
<1>2. PICK e : /\ Commit(e)
               /\ \/ e = Finish(db, None) \/ e = [db EXCEPT !.room.spectators = @ \ {p}]
                  \/ e = Cancel(db) \/ (Pregame(db) /\ e = Lobby(db, p))
                  \/ ~isPreparing(db) /\ ~Pregame(db) /\ e = Resign(db, p)
  BY DEF LeaveNaval, Leave
<1>3. ~isPreparing(db) /\ ~Pregame(db) => InPlay(db)
  BY <1>1 DEF isPreparing, Pregame, Open, InPlay, Afloat
<1>4. NavalLead(db, e) /\ Waits(e)
  <2>1. CASE e = [db EXCEPT !.room.spectators = @ \ {p}]
    BY <1>1, <2>1, NavalTables, NavalTable
  <2>2. CASE e = Finish(db, None) \/ e = Cancel(db)
    BY <1>1, <2>2, NavalFinish
  <2>3. CASE Pregame(db) /\ e = Lobby(db, p)
    BY <1>1, <2>3, NavalLobby
  <2>4. CASE ~isPreparing(db) /\ ~Pregame(db) /\ e = Resign(db, p)
    BY <1>3, <2>4, NavalResign
  <2> QED
    BY <1>2, <2>1, <2>2, <2>3, <2>4
<1> QED
  BY <1>1, <1>2, <1>4, NavalSettled DEF Commit

(* A socket that is lost: in the lobby a seat of a room of two was the only one. *)
LEMMA NavalDisconnect ==
  ASSUME Seats = 2, NavalGood(db, sweep), BattleInv(db), NEW p \in Players, handleNavalDisconnect(p)
  PROVE  NavalKept
<1>1. CASE ~Open(db)
  BY <1>1, NavalSame DEF handleNavalDisconnect, Disconnect, Save
<1>2. CASE Open(db)
  <2>1. /\ db.room.status # "finished" /\ Shape(db) /\ Afloat(db)
        /\ ~(db.room.status = "started" /\ Pregame(db))
    BY <1>2, NavalShape DEF Open, handleNavalDisconnect, Disconnect
  <2>2. PICK e : /\ Commit(e)
                 /\ \/ e = db \/ e = Finish(db, None) \/ e = [db EXCEPT !.room.spectators = @ \ {p}]
                    \/ /\ p \in Seated(db) /\ ~(db.room.status = "waiting" /\ db.room.players = <<p>>)
                       /\ e \in processForfeit(db, p)
    BY <1>2 DEF handleNavalDisconnect, Disconnect
  <2>3. p \in Seated(db) /\ ~(db.room.status = "waiting" /\ db.room.players = <<p>>) => ~Pregame(db)
    BY <2>1, AloneInLobby DEF Pregame, Open
  <2>4. CASE e \in {db, Finish(db, None), [db EXCEPT !.room.spectators = @ \ {p}]}
    <3>1. NavalLead(db, e) /\ Waits(e)
      BY <2>1, <2>4, NavalSelf, NavalFinish, NavalTables, NavalTable
    <3> QED
      BY <2>1, <2>2, <3>1, NavalSettled DEF Commit
  <2>5. CASE e = StartGrace(db, p) /\ ~Pregame(db)
    <3>1. e = [db EXCEPT !.grace[p] = "running"] /\ db.room.gameReady /\ NavalLead(db, db)
      BY <1>2, <2>1, <2>5, NavalSelf DEF StartGrace, Pregame, Afloat
    <3>2. NavalLead(db, e)
      BY <2>1, <3>1, NavalCounted
    <3>3. Waits(e)
      BY <2>1, <3>1 DEF Waits, Shape
    <3> QED
      BY <2>1, <2>2, <3>2, <3>3, NavalSettled DEF Commit
  <2> QED
    BY <2>2, <2>3, <2>4, <2>5 DEF processForfeit
<1> QED
  BY <1>1, <1>2

(* ReliableInternalAction around a handler. *)
LEMMA NavalHandler ==
  ASSUME NavalGood(db, sweep), NEW k \in Sweepers, NEW shouts \in BOOLEAN, NEW handled, Handler(k, shouts, handled),
         InPlay(db) => NavalLead(db, handled) /\ Waits(handled)
  PROVE  NavalKept
<1>1. db.room.status = "finished" \/ db.room.gameReady
  BY NavalRowsExist DEF Handler, Calm, Sweepers
<1>2. CASE db' = db
  BY <1>1, <1>2, NavalSame
<1>3. CASE db' # db
  <2> DEFINE cancels == k = "grace" /\ isPreparing(db)
             runs == /\ canPlay(db) /\ db.room.status = "started"
                     /\ k = "clock" => db.clock.phase \in {"due", "claimed"}
             after == IF cancels THEN Cancel(db) ELSE IF runs THEN handled ELSE db
  <2>1. CanSettle(after) /\ db' = settleGameRoom(after)
    BY <1>3 DEF Handler
  <2>2. CASE db.room.status = "finished"
    <3>1. after = db /\ db.room.settled = TRUE
      BY <2>2, NavalShape DEF isPreparing
    <3> HIDE DEF after
    <3> QED
      BY <1>3, <2>1, <2>2, <3>1 DEF settleGameRoom
  <2>3. CASE db.room.status # "finished"
    <3>1. db.room.gameReady /\ db.room.played \in BOOLEAN
      BY <1>1, <2>3, NavalShape DEF Afloat
    <3>2. runs => InPlay(db)
      BY <3>1 DEF canPlay, InPlay
    <3>3. NavalLead(db, after) /\ Waits(after)
      BY <2>3, <3>1, <3>2, NavalFinish, NavalSelf
    <3> HIDE DEF after
    <3> QED
      BY <2>1, <2>3, <3>1, <3>3, NavalSettled
  <2> QED
    BY <2>2, <2>3
<1> QED
  BY <1>2, <1>3

(* A step of the room, the gateway or the sweepers. *)
LEMMA NavalNextKept ==
  ASSUME Seats = 2, NavalGood(db, sweep), BattleInv(db), [NavalNext]_vars
  PROVE  NavalKept
<1>1. CASE UNCHANGED vars
  BY <1>1, NavalSame DEF vars
<1>2. CASE RoomStep
  BY <1>2, NavalRoomStep
<1>3. CASE executeNavalForfeit
  <2>1. Handler("grace", TRUE, Resign(db, sweep["grace"].player))
    BY <1>3 DEF executeNavalForfeit
  <2> QED
    BY <2>1, NavalResign, NavalHandler DEF Sweepers
<1>4. CASE executeNavalTurnTimeout
  <2>1. Handler("clock", FALSE, NavalTimeout(db, sweep["clock"].player))
    BY <1>4 DEF executeNavalTurnTimeout
  <2> QED
    BY <2>1, NavalResign, NavalHandler DEF Sweepers
<1>5. ASSUME NEW p \in Players, markReady(p)
      PROVE  NavalKept
  BY <1>5, NavalTableKept
<1> QED
  BY <1>1, <1>2, <1>3, <1>4, <1>5, NavalJoinKept, NavalPlacement, NavalFire, NavalLeave, NavalDisconnect
     DEF NavalNext

(* The empty database is in order. *)
LEMMA NavalInit ==
  ASSUME Init
  PROVE  NavalGood(db, sweep) /\ Late!Init
<1>1. /\ Good(db, sweep) /\ db.room = NoRoom /\ db.paid = {} /\ db.money[Escrow] = 0 /\ db.money[House] = 0
      /\ db.aged = FALSE /\ db.game = NoGame /\ db.clock = NoRow /\ sweep = Resting
      /\ \A p \in Players : db.grace[p] = "none"
  BY InitGood, AccountsDiffer DEF Init, Resting
<1>2. /\ NoRoom.status = "none" /\ NoRoom.gameReady = FALSE /\ NoRoom.played = FALSE /\ NoRoom.settled = FALSE
      /\ NoGame.mover = None /\ DOMAIN NoRow = {"player", "phase"} /\ NoRow.phase = "none"
  BY DEF NoRoom, NoGame, NoRow
<1>3. Calm(Resting)
  BY DEF Calm, Resting, Sweepers, Idle
<1>4. NavalGood(db, sweep)
  BY <1>1, <1>2, <1>3 DEF Good, NavalGood, Afloat, Moored
<1> QED
  BY <1>1, <1>2, <1>4 DEF Late!Init, Stage, Taker

(* The cases of PromiseLate are the steps of RoomContract where a stake may be late. *)
LEMMA PromiseLateContract ==
  ASSUME PromiseLate(db, db')
  PROVE  [Late!Next]_Late!contractVars
<1>1. CASE Still(db, db')
  BY <1>1 DEF Still, Late!contractVars
<1>2. CASE GathersLate(db, db')
  BY <1>2 DEF GathersLate, Late!Next, Late!Gather, Late!Cardinality, Cardinality
<1>3. CASE Confirms(db, db')
  BY <1>3 DEF Confirms, Late!Next, Late!Confirm
<1>4. CASE AwardsLate(db, db')
  BY <1>4 DEF AwardsLate, Late!Next, Late!Award
<1>5. CASE Returns(db, db')
  BY <1>5 DEF Returns, Late!Next, Late!Return
<1> QED
  BY <1>1, <1>2, <1>3, <1>4, <1>5 DEF PromiseLate

(* The books of a naval battle are in order in every state. *)
THEOREM NavalBooks == ASSUME FleetAssumption, Seats = 2 PROVE NavalSpec => []NavalGood(db, sweep)
<1>1. Init => NavalGood(db, sweep)
  BY NavalInit
<1>2. BattleInv(db) /\ NavalGood(db, sweep) /\ [NavalNext]_vars => NavalGood(db, sweep)'
  BY NavalNextKept DEF NavalKept
<1> QED
  BY <1>1, <1>2, NavalBattles, PTL DEF NavalSpec

(* settleGameRoom and everything before it: in a room of two, also when a battle began before *)
(* both had paid, the escrow has the stakes that came in and did not go back, until the       *)
(* winner takes them.                                                                         *)
THEOREM NavalStakesBalance == ASSUME FleetAssumption, Seats = 2 PROVE NavalSpec => []StakesBalance
<1>1. NavalGood(db, sweep) => StakesBalance
  BY BooksBalance DEF NavalGood
<1> QED
  BY <1>1, NavalBooks, PTL

(* grace-period.service.ts sweep: the sweeper that finishes with an earlier absence *)
(* leaves the countdown of a player who is away again alone.                        *)
THEOREM NavalRefreshedRowSurvives ==
  ASSUME FleetAssumption, Seats = 2 PROVE NavalSpec => RefreshedRowSurvives
<1>1. BattleInv(db) /\ NavalGood(db, sweep) /\ [NavalNext]_vars => [GraceStep]_vars
  BY NavalNextKept DEF NavalKept
<1>2. NavalSpec => [][GraceStep]_vars
  BY <1>1, NavalBattles, NavalBooks, PTL DEF NavalSpec
<1> QED
  BY <1>2 DEF RefreshedRowSurvives, GraceStep

(* Every step of a naval battle of two is a step of RoomContract where a stake may be late: *)
(* a battle that is placed over HTTP may begin before both have paid, but what the escrow   *)
(* has lies there until the end, and goes out once, to one of the players or back to all.   *)
THEOREM NavalImplementsContract == ASSUME FleetAssumption, Seats = 2 PROVE NavalSpec => Late!Spec
<1>1. Init => Late!Init
  BY NavalInit
<1>2. BattleInv(db) /\ NavalGood(db, sweep) /\ [NavalNext]_vars => [Late!Next]_(Late!contractVars)
  BY NavalNextKept, PromiseLateContract DEF NavalKept
<1> QED
  BY <1>1, <1>2, NavalBattles, NavalBooks, PTL DEF NavalSpec, Late!Spec
=============================================================================
