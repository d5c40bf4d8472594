--------------------------- MODULE GameRoomsProofs ---------------------------
(* What the steps that all games share do to the money of a room and to the     *)
(* countdowns of the players who are away. Every game's own proof cites these   *)
(* lemmas for its room and adds what its gateway does.                         *)
EXTENDS GameRooms, FiniteSetTheorems, WellFoundedInduction, TLAPS

(* What RoomContract sees of a room that takes no late stakes. *)
Contract == INSTANCE RoomContract WITH
  stage <- Stage(db), staked <- db.paid, escrow <- db.money[Escrow], house <- db.money[House],
  late <- FALSE, winner <- Taker(db)

Accounts == Players \cup {House, Escrow}

(* The parts of a database state that the steps rely on. *)
Shape(d) ==
  /\ DOMAIN d = {"room", "game", "clock", "aged", "grace", "paid", "back", "money"}
  /\ DOMAIN d.room = {"status", "players", "ready", "spectators", "gameReady", "acked", "played",
                      "winner", "cancelled", "settled"}
  /\ d.room.players \in Seq(Players) /\ d.room.settled \in BOOLEAN
  /\ DOMAIN d.grace = Players
  /\ d.paid \subseteq Players /\ IsFiniteSet(d.paid)
  /\ d.money \in [Accounts -> Int]

(* Before the settlement: the escrow has the stakes that came in and did not go back. *)
Own(d) ==
  \A p \in Players : \/ d.money[p] = IF p \in d.paid \ d.back THEN 0 ELSE Stake
                     \/ p \in Spenders \ d.paid /\ d.money[p] = 0
Held(d) ==
  /\ Shape(d) /\ d.room.settled = FALSE /\ d.back \subseteq d.paid
  /\ d.money[Escrow] = Stake * Cardinality(d.paid \ d.back) /\ d.money[House] = 0
  /\ Own(d)
OpenBooks(d) == Held(d) /\ d.back = {}

(* After it. *)
HasTaker(r) == r.winner # None /\ ~r.cancelled
Closed(r, paid, back, money) ==
  LET pot == Stake * Cardinality(paid \ back)
      won == r.settled /\ r.winner # None /\ ~r.cancelled
      fee == (pot * Fee + 99) \div 100
  IN /\ back \subseteq paid
     /\ won => back = {}
     /\ r.settled /\ (won \/ back = paid)
     /\ money[Escrow] = IF won THEN 0 ELSE pot
     /\ money[House] = IF won THEN fee ELSE 0
     /\ \A p \in Players :
          LET due == Stake - (IF p \in paid \ back THEN Stake ELSE 0)
                           + (IF won /\ p = r.winner THEN pot - fee ELSE 0)
          IN money[p] = due \/ (p \in Spenders \ paid /\ money[p] = due - Stake)
ClosedBooks(d) == Shape(d) /\ Closed(d.room, d.paid, d.back, d.money)

Books(d) == IF d.room.status = "finished" THEN ClosedBooks(d) ELSE OpenBooks(d)

----------------------------------------------------------------------------
(* Arithmetic and finite sets. *)

(* The stake times a number of players. *)
LEMMA Times ==
  ASSUME NEW m \in Nat, NEW n \in Nat
  PROVE  /\ Stake * (m + n) = Stake * m + Stake * n
         /\ Stake * m \in Nat /\ (Stake * m = 0 => m = 0) /\ Stake * 0 = 0
BY RoomsAssumption

(* The fee is a natural number. *)
LEMMA FeeBounds ==
  ASSUME NEW pot \in Nat
  PROVE  ((pot * Fee + 99) \div 100) \in Nat
BY RoomsAssumption

(* The escrow and the house are no players. *)
LEMMA AccountsDiffer ==
  House \notin Players /\ Escrow \notin Players /\ House # Escrow
BY RoomsAssumption DEF House, Escrow

(* A room has finitely many seats. *)
LEMMA SeatsFinite ==
  ASSUME NEW d, Shape(d)
  PROVE  Seated(d) \subseteq Players /\ IsFiniteSet(Seated(d))
<1>1. Seated(d) = {d.room.players[i] : i \in 1..Len(d.room.players)}
  BY DEF Seated, ToSet, Shape
<1>2. IsFiniteSet(1..Len(d.room.players))
  BY FS_Interval DEF Shape
<1>3. d.room.players \in Surjection(1..Len(d.room.players), Seated(d))
  BY <1>1 DEF Surjection, Shape
<1> QED
  BY <1>1, <1>2, <1>3, FS_Surjection DEF Shape

(* Two disjoint finite sets of stakes. *)
LEMMA StakesAdd ==
  ASSUME NEW S, NEW T, IsFiniteSet(S), IsFiniteSet(T), S \cap T = {}
  PROVE  /\ IsFiniteSet(S \cup T) /\ Cardinality(S) \in Nat /\ Cardinality(T) \in Nat
         /\ Cardinality(S \cup T) = Cardinality(S) + Cardinality(T)
         /\ Stake * Cardinality(S \cup T) = Stake * Cardinality(S) + Stake * Cardinality(T)
<1>1. Cardinality(S) \in Nat /\ Cardinality(T) \in Nat /\ IsFiniteSet(S \cup T)
  BY FS_CardinalityType, FS_Union
<1>2. Cardinality(S \cup T) = Cardinality(S) + Cardinality(T) - Cardinality(S \cap T)
  BY FS_Union
<1>3. Cardinality(S \cap T) = 0
  BY FS_EmptySet
<1>4. Cardinality(S \cup T) = Cardinality(S) + Cardinality(T)
  BY <1>1, <1>2, <1>3
<1> QED
  BY <1>1, <1>4, Times

----------------------------------------------------------------------------
(* Money in and out. *)

(* The stakes of ps, none of whom has paid, come in. *)
LEMMA PayIn ==
  ASSUME NEW d, Held(d), NEW ps, ps \subseteq Players \ d.paid, IsFiniteSet(ps),
         \A p \in ps : d.money[p] = Stake,
         NEW e, Shape(e), e.room = d.room, e.paid = d.paid \cup ps, e.back = d.back,
         e.money = Pay(d.money, ps, Stake)
  PROVE  Held(e)
<1> DEFINE held == d.paid \ d.back
<1>1. IsFiniteSet(held) /\ held \cap ps = {} /\ e.paid \ e.back = held \cup ps
  BY FS_Difference DEF Held, Shape
<1>2. Stake * Cardinality(e.paid \ e.back) = Stake * Cardinality(held) + Stake * Cardinality(ps)
  <2> HIDE DEF held
  <2> QED
    BY <1>1, StakesAdd
<1>3. /\ \A p \in Players : e.money[p] = IF p \in ps THEN d.money[p] - Stake ELSE d.money[p]
      /\ e.money[House] = d.money[House]
      /\ e.money[Escrow] = d.money[Escrow] + Stake * Cardinality(ps)
  BY AccountsDiffer DEF Pay, Held, Shape, Accounts
<1>4. e.money[Escrow] = Stake * Cardinality(e.paid \ e.back)
  BY <1>2, <1>3 DEF Held
<1>5. Own(e)
  <2> SUFFICES ASSUME NEW p \in Players
               PROVE  \/ e.money[p] = IF p \in e.paid \ e.back THEN 0 ELSE Stake
                      \/ p \in Spenders \ e.paid /\ e.money[p] = 0
    BY DEF Own
  <2>1. CASE p \in ps
    <3>1. p \in e.paid \ e.back /\ e.money[p] = Stake - Stake
      BY <1>3, <2>1 DEF Held
    <3> QED
      BY <3>1, RoomsAssumption
  <2>2. CASE p \notin ps
    BY <1>3, <2>2 DEF Held, Own
  <2> QED
    BY <2>1, <2>2
<1> QED
  BY <1>3, <1>4, <1>5 DEF Held

(* The stakes of ps, who have paid, go back. *)
LEMMA PayBack ==
  ASSUME NEW d, Held(d), NEW ps, ps \subseteq d.paid \ d.back,
         NEW e, Shape(e), e.room.settled = d.room.settled, e.paid = d.paid, e.back = d.back \cup ps,
         e.money = Pay(d.money, ps, -Stake)
  PROVE  Held(e)
<1> DEFINE held == e.paid \ e.back
<1>1. IsFiniteSet(held) /\ IsFiniteSet(ps) /\ held \cap ps = {} /\ d.paid \ d.back = held \cup ps
  BY FS_Difference, FS_Subset DEF Held, Shape
<1>2. /\ Cardinality(held) \in Nat /\ Cardinality(ps) \in Nat
      /\ d.money[Escrow] = Stake * Cardinality(held) + Stake * Cardinality(ps)
  <2> HIDE DEF held
  <2>1. /\ Cardinality(held) \in Nat /\ Cardinality(ps) \in Nat
        /\ Stake * Cardinality(held \cup ps) = Stake * Cardinality(held) + Stake * Cardinality(ps)
    BY <1>1, StakesAdd
  <2> QED
    BY <1>1, <2>1 DEF Held
<1>3. /\ \A p \in Players : e.money[p] = IF p \in ps THEN d.money[p] - (-Stake) ELSE d.money[p]
      /\ e.money[House] = d.money[House]
      /\ e.money[Escrow] = d.money[Escrow] + (-Stake) * Cardinality(ps)
  BY AccountsDiffer DEF Pay, Held, Shape, Accounts
<1>4. e.money[Escrow] = Stake * Cardinality(held)
  <2> HIDE DEF held
  <2> QED
    BY <1>2, <1>3, RoomsAssumption
<1>5. Own(e)
  <2> SUFFICES ASSUME NEW p \in Players
               PROVE  \/ e.money[p] = IF p \in e.paid \ e.back THEN 0 ELSE Stake
                      \/ p \in Spenders \ e.paid /\ e.money[p] = 0
    BY DEF Own
  <2>1. CASE p \in ps
    <3>1. p \in d.paid \ d.back /\ p \in Players
      BY <2>1 DEF Held, Shape
    <3>2. d.money[p] = 0 /\ p \notin e.paid \ e.back /\ e.money[p] = d.money[p] - (-Stake)
      BY <1>3, <2>1, <3>1 DEF Held, Own
    <3> QED
      BY <3>2, RoomsAssumption
  <2>2. CASE p \notin ps
    BY <1>3, <2>2 DEF Held, Own
  <2> QED
    BY <2>1, <2>2
<1> QED
  BY <1>3, <1>4, <1>5 DEF Held

(* Charge: the stakes of those who have not paid yet. *)
LEMMA ChargeHeld ==
  ASSUME NEW d, OpenBooks(d), Funded(d)
  PROVE  LET e == Charge(d, Seated(d))
         IN /\ OpenBooks(e) /\ e.room = d.room /\ e.grace = d.grace /\ e.paid = d.paid \cup Seated(d)
<1> DEFINE ps == Seated(d) \ d.paid
           e == Charge(d, Seated(d))
<1>1. Shape(d) /\ Seated(d) \subseteq Players /\ IsFiniteSet(Seated(d))
  BY SeatsFinite DEF OpenBooks, Held
<1>2. /\ e.room = d.room /\ e.grace = d.grace /\ e.back = d.back /\ e.paid = d.paid \cup Seated(d)
      /\ e.money = Pay(d.money, ps, Stake) /\ DOMAIN e = DOMAIN d
  BY <1>1 DEF Charge, Shape
<1>3. ps \subseteq Players \ d.paid /\ IsFiniteSet(ps) /\ Cardinality(ps) \in Nat
      /\ IsFiniteSet(d.paid \cup Seated(d)) /\ d.paid \cup Seated(d) = d.paid \cup ps
  BY <1>1, FS_Difference, FS_Union, FS_CardinalityType DEF Shape
<1>4. \A p \in ps : d.money[p] = Stake
  BY <1>1, RoomsAssumption DEF OpenBooks, Held, Own, Funded, CanCharge
<1>5. e.money \in [Accounts -> Int]
  <2> HIDE DEF ps
  <2>1. Stake * Cardinality(ps) \in Int
    BY <1>3, Times
  <2> QED
    BY <1>1, <1>2, <2>1, AccountsDiffer, RoomsAssumption DEF Pay, Shape, Accounts
<1>6. Shape(e)
  BY <1>1, <1>2, <1>3, <1>5 DEF Shape
<1> HIDE DEF e, ps
<1>7. Held(e)
  BY <1>2, <1>3, <1>4, <1>6, PayIn DEF OpenBooks
<1> QED
  BY <1>2, <1>7 DEF OpenBooks, e

(* Refund: the stakes of those of ps that the escrow still has. *)
LEMMA RefundHeld ==
  ASSUME NEW d, Held(d), NEW ps
  PROVE  LET e == Refund(d, ps)
         IN /\ Held(e) /\ e.grace = d.grace /\ e.paid = d.paid /\ e.back = d.back \cup (ps \cap d.paid)
            /\ d.room.status = "finished" => e.room = d.room
<1> DEFINE due == (ps \cap d.paid) \ d.back
           m == Pay(d.money, due, -Stake)
           held == [d EXCEPT !.back = @ \cup due, !.money = m]
           e == Refund(d, ps)
<1>1. Shape(d) /\ due \subseteq d.paid \ d.back
  BY DEF Held
<1>2. m \in [Accounts -> Int]
  <2>1. IsFiniteSet(due) /\ Cardinality(due) \in Nat
    BY <1>1, FS_Subset, FS_CardinalityType DEF Shape
  <2> HIDE DEF due
  <2>2. (-Stake) * Cardinality(due) \in Int /\ -Stake \in Int
    BY <2>1, RoomsAssumption
  <2> QED
    BY <1>1, <2>2, AccountsDiffer DEF Pay, Shape, Accounts
<1>3. e = IF ps = {} \/ d.room.status = "finished" THEN held
          ELSE [held EXCEPT !.room.status = "finished", !.room.cancelled = TRUE]
  BY DEF Refund
<1> HIDE DEF e, m, due
<1>4. /\ Shape(e) /\ e.grace = d.grace /\ e.paid = d.paid /\ e.back = d.back \cup due
      /\ e.money = m /\ e.room.settled = d.room.settled
      /\ (d.room.status = "finished" => e.room = d.room)
  BY <1>1, <1>2, <1>3 DEF Shape
<1>5. Held(e)
  BY <1>1, <1>4, PayBack DEF m
<1> QED
  BY <1>1, <1>4, <1>5 DEF due, e, Held

(* The settlement of a room that has nothing more in the escrow. *)
LEMMA EmptyCloses ==
  ASSUME NEW d, Held(d), d.room.status = "finished", d.paid \ d.back = {},
         HasTaker(d.room) => d.back = {},
         NEW e, e = [d EXCEPT !.room.settled = TRUE]
  PROVE  ClosedBooks(e)
<1>1. /\ e.room = [d.room EXCEPT !.settled = TRUE] /\ DOMAIN e = DOMAIN d
      /\ e.paid = d.paid /\ e.back = d.back /\ e.money = d.money /\ e.grace = d.grace
  BY DEF Held, Shape
<1>2. Shape(e) /\ e.room.settled = TRUE /\ e.room.winner = d.room.winner /\ e.room.cancelled = d.room.cancelled
  BY <1>1 DEF Held, Shape
<1>3. e.paid \ e.back = {} /\ Stake * Cardinality(e.paid \ e.back) = 0 /\ e.back = e.paid
  <2>1. e.paid \ e.back = {}
    BY <1>1
  <2> QED
    BY <1>1, <2>1, FS_EmptySet, Times DEF Held
<1>4. ((0 * Fee + 99) \div 100) = 0
  BY RoomsAssumption
<1>5. e.money[Escrow] = 0 /\ e.money[House] = 0
  BY <1>1, <1>3 DEF Held
<1>6. \A p \in Players : e.money[p] = Stake \/ (p \in Spenders \ e.paid /\ e.money[p] = 0)
  BY <1>1 DEF Held, Own
<1> DEFINE pot == Stake * Cardinality(e.paid \ e.back)
           won == e.room.settled /\ e.room.winner # None /\ ~e.room.cancelled
           fee == (pot * Fee + 99) \div 100
<1>7. pot = 0 /\ fee = 0
  BY <1>3, <1>4
<1>8. won => e.back = {}
  BY <1>1, <1>2 DEF HasTaker
<1> HIDE DEF pot, fee, won
<1>9. ASSUME NEW p \in Players
      PROVE  LET due == Stake - (IF p \in e.paid \ e.back THEN Stake ELSE 0)
                              + (IF won /\ p = e.room.winner THEN pot - fee ELSE 0)
             IN e.money[p] = due \/ (p \in Spenders \ e.paid /\ e.money[p] = due - Stake)
  BY <1>3, <1>6, <1>7, RoomsAssumption
<1>10. Closed(e.room, e.paid, e.back, e.money)
  BY <1>2, <1>3, <1>5, <1>7, <1>8, <1>9 DEF Closed, pot, fee, won
<1> QED
  BY <1>2, <1>10 DEF ClosedBooks

(* settleGameRoom: a finished room whose winner can be paid closes its books. *)
LEMMA SettleBooks ==
  ASSUME NEW d, Held(d), CanSettle(d),
         d.room.status # "finished" \/ HasTaker(d.room) => d.back = {}
  PROVE  LET e == settleGameRoom(d)
         IN /\ Books(e) /\ e.grace = d.grace /\ e.paid = d.paid
            /\ e.room = IF d.room.status = "finished" THEN [d.room EXCEPT !.settled = TRUE] ELSE d.room
            /\ d.room.status # "finished" => e = d
<1>1. CASE d.room.status # "finished"
  BY <1>1 DEF settleGameRoom, Books, OpenBooks
<1>2. CASE d.room.status = "finished"
  <2> DEFINE pot == d.money[Escrow]
             fee == (pot * Fee + 99) \div 100
  <2> SUFFICES ASSUME NEW e, e = settleGameRoom(d)
               PROVE  /\ ClosedBooks(e) /\ e.grace = d.grace /\ e.paid = d.paid
                      /\ e.room = [d.room EXCEPT !.settled = TRUE]
    <3> DEFINE e == settleGameRoom(d)
    <3>1. ClosedBooks(e) /\ e.grace = d.grace /\ e.paid = d.paid
          /\ e.room = [d.room EXCEPT !.settled = TRUE]
      OBVIOUS
    <3> HIDE DEF e
    <3>2. e.room.status = "finished"
      BY <1>2, <3>1 DEF Held, Shape
    <3> QED
      BY <1>2, <3>1, <3>2 DEF Books, e
  <2>1. Shape(d) /\ pot = Stake * Cardinality(d.paid \ d.back) /\ IsFiniteSet(d.paid \ d.back)
    BY FS_Difference DEF Held, Shape
  <2>2. pot \in Nat /\ fee \in Nat /\ (pot = 0 => d.paid \ d.back = {})
    BY <2>1, FS_CardinalityType, FS_EmptySet, Times, FeeBounds
  <2>3. CASE pot = 0
    <3>1. e = [d EXCEPT !.room.settled = TRUE]
      BY <1>2, <2>3 DEF settleGameRoom, Held
    <3>2. ClosedBooks(e)
      BY <1>2, <2>2, <2>3, <3>1, EmptyCloses
    <3> HIDE DEF pot, fee
    <3> QED
      BY <2>1, <3>1, <3>2 DEF Shape
  <2>4. CASE pot # 0 /\ ~HasTaker(d.room)
    <3> DEFINE r == Refund(d, d.paid)
    <3>1. e = [r EXCEPT !.room.settled = TRUE]
      BY <1>2, <2>4 DEF settleGameRoom, Held, HasTaker
    <3>2. Held(r) /\ r.grace = d.grace /\ r.paid = d.paid /\ r.room = d.room /\ r.paid \ r.back = {}
      BY <1>2, RefundHeld
    <3> HIDE DEF r, pot, fee
    <3>3. ClosedBooks(e)
      BY <1>2, <2>4, <3>1, <3>2, EmptyCloses
    <3> QED
      BY <3>1, <3>2, <3>3 DEF Held, Shape
  <2>5. CASE pot # 0 /\ HasTaker(d.room)
    <3> DEFINE w == d.room.winner
    <3>1. w \in Players /\ d.back = {}
      BY <1>2, <2>1, <2>5, SeatsFinite DEF CanSettle, HasTaker, Held
    <3>2. /\ e.room = [d.room EXCEPT !.settled = TRUE] /\ e.paid = d.paid /\ e.back = {}
          /\ e.money = [d.money EXCEPT ![Escrow] = 0, ![w] = @ + pot - fee, ![House] = @ + fee]
          /\ DOMAIN e = DOMAIN d /\ e.grace = d.grace
      BY <1>2, <2>1, <2>5, <3>1 DEF settleGameRoom, HasTaker, Held, Shape
    <3>3. d.money \in [Accounts -> Int] /\ d.money[House] = 0 /\ fee \in Int /\ pot - fee \in Int
      BY <2>2 DEF Held, Shape
    <3>4. d.money[w] + pot - fee = d.money[w] + (pot - fee)
      BY <2>2, <3>1, <3>3 DEF Accounts
    <3>5. w # Escrow /\ w # House /\ Escrow # House
      BY <3>1, AccountsDiffer
    <3> HIDE DEF pot, fee, w
    <3>6. e.money \in [Accounts -> Int] /\ e.money[Escrow] = 0
      BY <3>1, <3>2, <3>3, <3>4, <3>5 DEF Accounts
    <3>7. e.money[House] = fee
      BY <3>1, <3>2, <3>3, <3>5 DEF Accounts
    <3>8. ASSUME NEW p \in Players
          PROVE  e.money[p] = d.money[p] + (IF p = w THEN pot - fee ELSE 0)
      <4>1. p # Escrow /\ p # House
        BY AccountsDiffer
      <4> QED
        BY <3>1, <3>2, <3>3, <3>4, <3>5, <4>1 DEF Accounts
    <3>9. /\ Shape(e) /\ e.room.settled = TRUE
          /\ e.room.winner = w /\ e.room.winner # None /\ ~e.room.cancelled
      BY <2>1, <2>5, <3>2, <3>6 DEF Shape, HasTaker, w
    <3>10. e.paid \ e.back = d.paid /\ pot = Stake * Cardinality(e.paid \ e.back)
      BY <2>1, <3>1, <3>2 DEF pot
    <3>11. \A p \in Players : \/ d.money[p] = Stake - (IF p \in d.paid THEN Stake ELSE 0)
                              \/ p \in Spenders \ d.paid /\ d.money[p] = 0
      BY <3>1, RoomsAssumption DEF Held, Own
    <3>12. ASSUME NEW p \in Players
           PROVE LET due == Stake - (IF p \in d.paid THEN Stake ELSE 0) + (IF p = w THEN pot - fee ELSE 0)
                 IN e.money[p] = due \/ (p \in Spenders \ d.paid /\ e.money[p] = due - Stake)
      BY <2>2, <3>8, <3>11, RoomsAssumption
    <3>13. Closed(e.room, d.paid, {}, e.money)
      <4> DEFINE all == Stake * Cardinality(d.paid \ {})
                 won == e.room.settled /\ e.room.winner # None /\ ~e.room.cancelled
                 cut == (all * Fee + 99) \div 100
      <4>1. all = pot /\ won /\ d.paid \ {} = d.paid
        BY <3>2, <3>9, <3>10
      <4>2. cut = fee
        BY <4>1 DEF fee
      <4> HIDE DEF all, won, cut, fee, pot, w
      <4>3. ASSUME NEW p \in Players
            PROVE  LET due == Stake - (IF p \in d.paid \ {} THEN Stake ELSE 0)
                                    + (IF won /\ p = e.room.winner THEN all - cut ELSE 0)
                   IN e.money[p] = due \/ (p \in Spenders \ d.paid /\ e.money[p] = due - Stake)
        BY <3>9, <3>12, <4>1, <4>2, Zenon
      <4> QED
        BY <3>6, <3>7, <3>9, <4>1, <4>2, <4>3 DEF Closed, all, won, cut
    <3>14. ClosedBooks(e)
      BY <3>2, <3>9, <3>13 DEF ClosedBooks
    <3> QED
      BY <3>2, <3>14
  <2> QED
    BY <2>3, <2>4, <2>5
<1> QED
  BY <1>1, <1>2

----------------------------------------------------------------------------
(* What holds in every reachable state, and what every step keeps. *)

(* A room before its end: the match is set up with every stake taken, and nothing of *)
(* it is there before.                                                               *)
Lawful(d) ==
  /\ d.room.gameReady \in BOOLEAN /\ d.room.played \in BOOLEAN
  /\ d.room.played => d.room.gameReady
  /\ d.room.gameReady => d.room.status = "started" /\ Seated(d) \subseteq d.paid /\ d.paid # {}
  /\ ~d.room.gameReady => d.clock = NoRow /\ \A p \in Players : d.grace[p] = "none"
Resting == [k \in Sweepers |-> Idle]
Good(d, s) ==
  /\ Books(d)
  /\ d.room.status # "finished" => Lawful(d) /\ (~d.room.gameReady => s = Resting)

(* The steps of RoomContract, of a database state d and the one after it. *)
Still(d, e) ==
  /\ Stage(e) = Stage(d) /\ Taker(e) = Taker(d) /\ e.paid = d.paid
  /\ e.money[Escrow] = d.money[Escrow] /\ e.money[House] = d.money[House]
Gathers(d, e) ==
  /\ Stage(d) = "lobby" /\ Stage(e) \in {"lobby", "held"} /\ Taker(e) = Taker(d)
  /\ d.paid \subseteq e.paid /\ e.paid \subseteq Players
  /\ e.money[Escrow] = Stake * Cardinality(e.paid) /\ e.money[House] = d.money[House]
Confirms(d, e) ==
  /\ Stage(d) = "held" /\ Stage(e) = "live" /\ Taker(e) = Taker(d) /\ e.paid = d.paid
  /\ e.money[Escrow] = d.money[Escrow] /\ e.money[House] = d.money[House]
Awards(d, e) ==
  /\ Stage(d) = "live" /\ Stage(e) = "closed" /\ Taker(e) \in d.paid /\ e.paid = d.paid
  /\ e.money[Escrow] = 0 /\ e.money[House] = (d.money[Escrow] * Fee + 99) \div 100
Returns(d, e) ==
  /\ Stage(d) # "closed" /\ Stage(e) = "closed" /\ Taker(e) = Taker(d) /\ e.paid = d.paid
  /\ e.money[Escrow] = 0 /\ e.money[House] = d.money[House]
Promise(d, e) == Still(d, e) \/ Gathers(d, e) \/ Confirms(d, e) \/ Awards(d, e) \/ Returns(d, e)

(* What a command leaves of an open room before the settlement. *)
Lead(d, e) ==
  /\ Held(e)
  /\ e.room.status = "finished" =>
       e.paid = d.paid /\ (HasTaker(e.room) => /\ e.back = {} /\ Stage(d) = "live"
                                               /\ e.room.players = d.room.players)
  /\ e.room.status # "finished" =>
       /\ e.back = {} /\ Lawful(e)
       /\ \/ e.paid = d.paid /\ Stage(e) = Stage(d)
          \/ e.paid = d.paid /\ Stage(d) = "held" /\ Stage(e) = "live"
          \/ d.paid \subseteq e.paid /\ Stage(d) = "lobby" /\ Stage(e) \in {"lobby", "held"}

(* A command does not disturb sweepers that rest. *)
LEMMA RestingConflicts ==
  Conflicts(Resting) = Resting
<1>1. (Idle.conflict \/ Idle.step = "read") = FALSE
  BY DEF Idle
<1>2. [Idle EXCEPT !.conflict = FALSE] = Idle
  <2>1. Idle = [x \in {"player", "step", "conflict"} |-> Idle[x]] /\ Idle.conflict = FALSE
    BY DEF Idle
  <2> HIDE DEF Idle
  <2> QED
    BY <2>1
<1>3. \A k \in Sweepers : [Resting[k] EXCEPT !.conflict = Resting[k].conflict \/ Resting[k].step = "read"] = Idle
  BY <1>1, <1>2 DEF Resting
<1> HIDE DEF Idle
<1> QED
  BY <1>3 DEF Conflicts, Resting

(* A room that a command left open. *)
LEMMA OpenLead ==
  ASSUME NEW d, NEW s, Good(d, s), d.room.status # "finished",
         NEW e, Lead(d, e), e.room.status # "finished"
  PROVE  /\ Good(e, s) /\ Good(e, Conflicts(s)) /\ Promise(d, e)
         /\ d.room.gameReady => \A t : Good(e, t)
<1>1. Held(d) /\ Held(e) /\ d.back = {} /\ e.back = {} /\ Lawful(d) /\ Lawful(e)
  BY DEF Good, Books, OpenBooks, Lead
<1>2. Stage(e) = "lobby" => Stage(d) = "lobby"
  BY DEF Lead
<1>3. (Stage(e) = "lobby" <=> ~e.room.gameReady) /\ (Stage(d) = "lobby" <=> ~d.room.gameReady)
  BY DEF Stage
<1>4. ~e.room.gameReady => s = Resting /\ Conflicts(s) = Resting
  BY <1>2, <1>3, RestingConflicts DEF Good
<1>5. /\ Good(e, s) /\ Good(e, Conflicts(s))
      /\ d.room.gameReady => \A t : Good(e, t)
  BY <1>1, <1>2, <1>3, <1>4 DEF Good, Books, OpenBooks
<1>6. Taker(d) = None /\ Taker(e) = None
  BY <1>1 DEF Taker, Held
<1>7. /\ d.money[House] = e.money[House] /\ d.paid \ d.back = d.paid /\ e.paid \ e.back = e.paid
      /\ d.money[Escrow] = Stake * Cardinality(d.paid \ d.back)
      /\ e.money[Escrow] = Stake * Cardinality(e.paid \ e.back) /\ e.paid \subseteq Players
  BY <1>1 DEF Held, Shape
<1>8. Promise(d, e)
  BY <1>6, <1>7 DEF Promise, Still, Gathers, Confirms, Lead
<1> QED
  BY <1>5, <1>8

(* A room that a command finished, after the settlement. *)
LEMMA ClosingLead ==
  ASSUME NEW d, NEW s, Good(d, s), d.room.status # "finished",
         NEW c, Lead(d, c), c.room.status = "finished", CanSettle(c)
  PROVE  /\ \A t : Good(settleGameRoom(c), t)
         /\ Promise(d, settleGameRoom(c))
         /\ settleGameRoom(c).grace = c.grace
<1>1. Held(d) /\ Held(c) /\ d.back = {} /\ Lawful(d) /\ c.paid = d.paid
  BY DEF Good, Books, OpenBooks, Lead
<1> SUFFICES ASSUME NEW e, e = settleGameRoom(c)
             PROVE  (\A t : Good(e, t)) /\ Promise(d, e) /\ e.grace = c.grace
  OBVIOUS
<1>2. Books(e) /\ e.grace = c.grace /\ e.paid = c.paid /\ e.room = [c.room EXCEPT !.settled = TRUE]
  BY <1>1, SettleBooks DEF Lead
<1>3. /\ e.room.status = "finished" /\ e.room.settled = TRUE
      /\ e.room.winner = c.room.winner /\ e.room.cancelled = c.room.cancelled
  BY <1>1, <1>2 DEF Held, Shape
<1>4. \A t : Good(e, t)
  BY <1>2, <1>3 DEF Good
<1>5. Stage(e) = "closed" /\ Stage(d) # "closed" /\ Taker(d) = None
  BY <1>1, <1>3 DEF Stage, Taker, Held
<1>6. d.paid \ d.back = d.paid /\ d.money[Escrow] = Stake * Cardinality(d.paid) /\ d.money[House] = 0
  BY <1>1 DEF Held
<1>7. Closed(e.room, e.paid, e.back, e.money)
  BY <1>2, <1>3 DEF Books, ClosedBooks
<1>8. CASE HasTaker(c.room)
  <2>1. e.room.settled /\ e.room.winner # None /\ ~e.room.cancelled
    BY <1>3, <1>8 DEF HasTaker
  <2>2. e.back = {} /\ e.money[Escrow] = 0
        /\ e.money[House] = (Stake * Cardinality(e.paid \ e.back) * Fee + 99) \div 100
    BY <1>7, <2>1 DEF Closed
  <2>3. e.paid \ e.back = d.paid
    BY <1>1, <1>2, <2>2
  <2>4. e.money[House] = (d.money[Escrow] * Fee + 99) \div 100
    BY <1>6, <2>2, <2>3
  <2>5. Taker(e) = c.room.winner
    BY <1>3, <2>1 DEF Taker
  <2>6. d.room.gameReady /\ Stage(d) = "live" /\ Seated(c) \subseteq d.paid /\ d.paid # {}
    BY <1>1, <1>8 DEF Lead, Stage, Lawful, Seated
  <2>7. c.money[Escrow] # 0
    <3>1. c.back = {} /\ c.paid \ c.back = d.paid /\ IsFiniteSet(d.paid)
      BY <1>1, <1>8 DEF Lead, Held, Shape
    <3>2. Cardinality(d.paid) \in Nat /\ Cardinality(d.paid) # 0
      BY <2>6, <3>1, FS_CardinalityType, FS_EmptySet
    <3>3. Stake * Cardinality(d.paid) # 0
      BY <3>2, Times
    <3> QED
      BY <1>1, <3>1, <3>3 DEF Held
  <2>8. c.room.winner \in Seated(c)
    BY <1>1, <1>8, <2>7 DEF CanSettle, HasTaker, Held
  <2> QED
    BY <1>2, <1>4, <1>5, <1>1, <2>2, <2>4, <2>5, <2>6, <2>8 DEF Promise, Awards
<1>9. CASE ~HasTaker(c.room)
  <2>1. ~(e.room.settled /\ e.room.winner # None /\ ~e.room.cancelled)
    BY <1>3, <1>9 DEF HasTaker
  <2>2. e.back = e.paid /\ e.money[House] = 0
        /\ e.money[Escrow] = Stake * Cardinality(e.paid \ e.back)
    BY <1>7, <2>1 DEF Closed
  <2>3. e.paid \ e.back = {}
    BY <2>2
  <2>4. e.money[Escrow] = 0
    BY <2>2, <2>3, FS_EmptySet, Times
  <2>5. Taker(e) = None
    BY <2>1 DEF Taker
  <2> QED
    BY <1>1, <1>2, <1>4, <1>5, <1>6, <2>2, <2>4, <2>5 DEF Promise, Returns
<1> QED
  BY <1>8, <1>9

----------------------------------------------------------------------------
(* Steps of the specification. *)

(* The step of RefreshedRowSurvives. *)
GraceStep ==
  \A p \in Users :
    db.grace[p] = "running" /\ db'.grace[p] \notin {"running", "due"} => p \in online' \/ ~Open(db)

(* No countdown of a player who stays away ends. *)
Waits(e) ==
  \A p \in Players :
    db.grace[p] = "running" => e.grace[p] \in {"running", "due"} \/ p \in online' \/ ~Open(db)

Kept == Good(db', sweep') /\ GraceStep /\ Promise(db, db')

(* What Good says of an open and of a finished room. *)
LEMMA GoodShape ==
  ASSUME Good(db, sweep)
  PROVE  /\ Shape(db) /\ DOMAIN db.grace = Players
         /\ db.room.status # "finished" => Held(db) /\ db.back = {} /\ Lawful(db)
         /\ db.room.status = "finished" => db.room.settled = TRUE
BY DEF Good, Books, OpenBooks, ClosedBooks, Closed, Held, Shape

(* Waits, of the state that a step writes, is the step of RefreshedRowSurvives. *)
LEMMA WaitsGrace ==
  ASSUME Good(db, sweep), NEW e, Waits(e), db'.grace = e.grace
  PROVE  GraceStep
BY GoodShape DEF GraceStep, Users, Waits

(* A transaction that ends with the settlement keeps everything. *)
LEMMA SettledKept ==
  ASSUME Good(db, sweep), db.room.status # "finished", NEW e, Lead(db, e), Waits(e),
         CanSettle(e), db' = settleGameRoom(e), sweep' = Conflicts(sweep) \/ db.room.gameReady
  PROVE  Kept
<1>1. CASE e.room.status = "finished"
  BY <1>1, ClosingLead, WaitsGrace DEF Kept
<1>2. CASE e.room.status # "finished"
  <2>1. db' = e
    BY <1>2 DEF settleGameRoom
  <2> QED
    BY <1>2, <2>1, OpenLead, WaitsGrace DEF Kept
<1> QED
  BY <1>1, <1>2

(* A command on an open room that leads the match on keeps everything. *)
LEMMA CommitKept ==
  ASSUME Good(db, sweep), db.room.status # "finished", NEW e, Lead(db, e), Waits(e), Commit(e)
  PROVE  Kept
BY SettledKept DEF Commit

(* A write without a settlement leads the match on as well. *)
LEMMA SaveKept ==
  ASSUME Good(db, sweep), db.room.status # "finished", NEW e, Lead(db, e), Waits(e), Save(e),
         e.room.status # "finished"
  PROVE  Kept
BY OpenLead, WaitsGrace DEF Kept, Save

(* A step that leaves the database as it is. *)
LEMMA SameKept ==
  ASSUME Good(db, sweep), db' = db,
         sweep' = sweep \/ db.room.status = "finished" \/ db.room.gameReady
  PROVE  Kept
<1>1. Good(db', sweep')
  BY DEF Good
<1>2. Promise(db, db')
  BY DEF Promise, Still
<1>3. GraceStep
  BY DEF GraceStep
<1> QED
  BY <1>1, <1>2, <1>3 DEF Kept

(* The rows of a room change, and nothing else of it that the money depends on. *)
LEMMA RowsKept ==
  ASSUME Good(db, sweep), NEW e, Shape(e), db' = e, Waits(e),
         e.room = db.room, e.paid = db.paid, e.back = db.back, e.money = db.money,
         \/ db.room.status = "finished" \/ db.room.gameReady
         \/ e.clock = db.clock /\ e.grace = db.grace /\ sweep' = sweep
  PROVE  Kept
<1>1. Books(e)
  BY DEF Good, Books, OpenBooks, ClosedBooks, Held, Own
<1>2. db.room.status # "finished" => Lawful(e) /\ (~e.room.gameReady => sweep' = Resting)
  BY GoodShape DEF Good, Lawful, Seated
<1>3. Good(e, sweep')
  BY <1>1, <1>2 DEF Good
<1>4. Promise(db, e)
  BY DEF Promise, Still, Stage, Taker
<1> QED
  BY <1>3, <1>4, WaitsGrace DEF Kept

----------------------------------------------------------------------------
(* room.service.ts. *)

(* createRoom: a lobby with one player. *)
LEMMA createRoomKept ==
  ASSUME Good(db, sweep), NEW p \in Players, createRoom(p)
  PROVE  Kept
<1>1. db.room.status # "finished" /\ Held(db) /\ db.back = {} /\ Lawful(db) /\ Shape(db)
  BY GoodShape DEF createRoom
<1> DEFINE room == [NoRoom EXCEPT !.status = "waiting", !.players = <<p>>]
           e == [db EXCEPT !.room = room]
<1>2. ~db.room.gameReady
  BY <1>1 DEF Lawful, createRoom
<1>3. /\ DOMAIN room = DOMAIN NoRoom /\ room.status = "waiting" /\ room.players = <<p>>
      /\ room.settled = FALSE /\ room.gameReady = FALSE /\ room.played = FALSE
  BY DEF NoRoom
<1>4. /\ DOMAIN NoRoom = {"status", "players", "ready", "spectators", "gameReady", "acked", "played",
                          "winner", "cancelled", "settled"}
      /\ <<p>> \in Seq(Players)
  BY DEF NoRoom
<1>5. Save(e)
  BY DEF createRoom
<1> HIDE DEF room
<1>6. /\ e.room = room /\ e.paid = db.paid /\ e.back = db.back /\ e.money = db.money
      /\ e.grace = db.grace /\ e.clock = db.clock /\ DOMAIN e = DOMAIN db
  BY <1>1 DEF Shape
<1> HIDE DEF e
<1>7. Shape(e)
  BY <1>1, <1>3, <1>4, <1>6 DEF Shape
<1>8. Held(e)
  BY <1>1, <1>3, <1>6, <1>7 DEF Held, Own
<1>9. Lawful(e) /\ Stage(e) = Stage(db)
  BY <1>1, <1>2, <1>3, <1>6 DEF Lawful, Stage
<1>10. Lead(db, e) /\ Waits(e) /\ e.room.status # "finished"
  BY <1>1, <1>3, <1>6, <1>8, <1>9 DEF Lead, Waits
<1> QED
  BY <1>1, <1>5, <1>10, SaveKept

(* A step in the lobby that leaves the match unprepared and the stakes alone. *)
LEMMA LobbyLead ==
  ASSUME Good(db, sweep), db.room.status # "finished", ~db.room.gameReady,
         NEW r, DOMAIN r = DOMAIN db.room, r.players \in Seq(Players), r.settled = FALSE,
         r.status # "finished", r.gameReady = FALSE, r.played = FALSE,
         NEW e, e = [db EXCEPT !.room = r]
  PROVE  Lead(db, e) /\ Waits(e) /\ e.room.status # "finished"
<1>1. Held(db) /\ db.back = {} /\ Lawful(db) /\ Shape(db)
  BY GoodShape
<1>2. /\ e.room = r /\ e.paid = db.paid /\ e.back = db.back /\ e.money = db.money
      /\ e.grace = db.grace /\ e.clock = db.clock /\ DOMAIN e = DOMAIN db
  BY <1>1 DEF Shape
<1>3. Shape(e)
  BY <1>1, <1>2 DEF Shape
<1>4. Held(e) /\ Lawful(e) /\ Stage(e) = Stage(db)
  BY <1>1, <1>2, <1>3 DEF Held, Own, Lawful, Stage
<1> QED
  BY <1>1, <1>2, <1>4 DEF Lead, Waits

(* joinRoom: a lobby with one player more. *)
LEMMA joinRoomKept ==
  ASSUME Good(db, sweep), NEW p \in Players, joinRoom(p)
  PROVE  Kept
<1> DEFINE seated == Append(db.room.players, p)
           r == [db.room EXCEPT !.players = seated,
                                !.status = IF Len(seated) = Seats THEN "started" ELSE @]
           e == [db EXCEPT !.room = r]
<1>1. db.room.status = "waiting" /\ Held(db) /\ Lawful(db) /\ Shape(db)
  BY GoodShape DEF joinRoom
<1>2. ~db.room.gameReady /\ ~db.room.played /\ db.room.played \in BOOLEAN /\ db.room.gameReady \in BOOLEAN
  BY <1>1 DEF Lawful
<1>3. seated \in Seq(Players)
  BY <1>1 DEF Shape
<1>4. e = [db EXCEPT !.room.players = seated,
                     !.room.status = IF Len(seated) = Seats THEN "started" ELSE @]
  BY <1>1 DEF Shape
<1>5. Save(e)
  BY <1>4 DEF joinRoom
<1> HIDE DEF seated
<1>6. /\ DOMAIN r = DOMAIN db.room /\ r.players \in Seq(Players) /\ r.settled = FALSE
      /\ r.status # "finished" /\ r.gameReady = FALSE /\ r.played = FALSE
  BY <1>1, <1>2, <1>3 DEF Shape, Held
<1> HIDE DEF r
<1>7. Lead(db, e) /\ Waits(e) /\ e.room.status # "finished"
  BY <1>1, <1>2, <1>6, LobbyLead
<1> HIDE DEF e
<1> QED
  BY <1>1, <1>5, <1>7, SaveKept

(* Who watches, and who is ready, does not matter to the stakes. *)
SameTable(d, e) ==
  /\ DOMAIN e = DOMAIN d /\ DOMAIN e.room = DOMAIN d.room
  /\ e.paid = d.paid /\ e.back = d.back /\ e.money = d.money /\ e.grace = d.grace /\ e.clock = d.clock
  /\ \A f \in DOMAIN d.room \ {"ready", "spectators", "acked"} : e.room[f] = d.room[f]

(* Such a change leads the match on. *)
LEMMA SameTableLead ==
  ASSUME Good(db, sweep), db.room.status # "finished", NEW e, SameTable(db, e)
  PROVE  Lead(db, e) /\ Waits(e) /\ e.room.status # "finished"
<1>1. Held(db) /\ db.back = {} /\ Lawful(db) /\ Shape(db)
  BY GoodShape
<1>2. /\ e.room.status = db.room.status /\ e.room.players = db.room.players
      /\ e.room.gameReady = db.room.gameReady /\ e.room.played = db.room.played
      /\ e.room.settled = db.room.settled
  BY <1>1 DEF SameTable, Shape
<1>3. Shape(e)
  BY <1>1, <1>2 DEF Shape, SameTable
<1>4. Held(e)
  BY <1>1, <1>2, <1>3 DEF Held, Own, SameTable
<1>5. Lawful(e) /\ Stage(e) = Stage(db)
  BY <1>1, <1>2 DEF Lawful, Stage, Seated, SameTable
<1> QED
  BY <1>1, <1>2, <1>4, <1>5 DEF Lead, Waits, SameTable

(* spectateRoom: somebody watches. *)
LEMMA spectateRoomKept ==
  ASSUME Good(db, sweep), NEW p \in Players, spectateRoom(p)
  PROVE  Kept
<1> DEFINE e == [db EXCEPT !.room.spectators = @ \cup {p}]
<1>1. db.room.status = "started" /\ Shape(db) /\ Save(e)
  BY GoodShape DEF spectateRoom
<1>2. SameTable(db, e)
  BY <1>1 DEF Shape, SameTable
<1> HIDE DEF e
<1> QED
  BY <1>1, <1>2, SameTableLead, SaveKept

(* markReady: a player of the lobby is ready. *)
LEMMA markReadyKept ==
  ASSUME Good(db, sweep), NEW p \in Players, markReady(p)
  PROVE  Kept
<1> DEFINE e == [db EXCEPT !.room.ready = @ \cup {p}]
<1>1. db.room.status # "finished" /\ Shape(db) /\ Commit(e)
  BY GoodShape DEF markReady, Pregame, Open
<1>2. SameTable(db, e)
  BY <1>1 DEF Shape, SameTable
<1> HIDE DEF e
<1> QED
  BY <1>1, <1>2, SameTableLead, CommitKept

(* An open room that stays as it is. *)
LEMMA SelfLead ==
  ASSUME Good(db, sweep), db.room.status # "finished"
  PROVE  Lead(db, db) /\ Waits(db)
BY SameTableLead DEF SameTable

(* A room that ends without a winner, and a match that is called off. *)
LEMMA FinishLead ==
  ASSUME Good(db, sweep), db.room.status # "finished"
  PROVE  /\ Lead(db, Finish(db, None)) /\ Waits(Finish(db, None))
         /\ Lead(db, Cancel(db)) /\ Waits(Cancel(db))
<1>1. Held(db) /\ Shape(db)
  BY GoodShape
<1>2. ASSUME NEW e, e \in {Finish(db, None), Cancel(db)}
      PROVE  Lead(db, e) /\ Waits(e)
  <2>1. /\ DOMAIN e = DOMAIN db /\ DOMAIN e.room = DOMAIN db.room /\ e.room.status = "finished"
        /\ e.room.winner = None /\ e.room.players = db.room.players /\ e.room.settled = FALSE
        /\ e.paid = db.paid /\ e.back = db.back /\ e.money = db.money /\ e.grace = db.grace
    <3>1. CASE e = Finish(db, None)
      BY <1>1, <3>1 DEF Finish, Shape, Held
    <3>2. CASE e = Cancel(db)
      BY <1>1, <3>2 DEF Cancel, Shape, Held
    <3> QED
      BY <1>2, <3>1, <3>2
  <2>2. Shape(e)
    BY <1>1, <2>1 DEF Shape
  <2>3. Held(e)
    BY <1>1, <2>1, <2>2 DEF Held, Own
  <2> QED
    BY <2>1, <2>3 DEF Lead, Waits, HasTaker
<1> QED
  BY <1>2

(* What a player leaves behind in the lobby. *)
LEMMA WithoutSeats ==
  ASSUME NEW s \in Seq(Players), NEW p \in ToSet(s)
  PROVE  Without(s, p) \in Seq(Players)
<1> DEFINE i == CHOOSE k \in DOMAIN s : s[k] = p
<1>1. i \in 1..Len(s)
  BY DEF ToSet
<1>2. Without(s, p) = RemoveAt(s, i)
  BY DEF Without
<1> HIDE DEF i
<1> QED
  BY <1>1, <1>2 DEF RemoveAt

(* Depart: the lobby without the player is a lobby. *)
LEMMA DepartLead ==
  ASSUME Good(db, sweep), Pregame(db), NEW p \in Seated(db)
  PROVE  LET e == Depart(db, p) IN Lead(db, e) /\ Waits(e)
<1>1. db.room.status # "finished" /\ ~db.room.gameReady
  BY DEF Pregame, Open
<1>2. Held(db) /\ Shape(db) /\ Lawful(db)
  BY <1>1, GoodShape
<1> DEFINE r == [db.room EXCEPT !.players = Without(@, p), !.status = "waiting", !.gameReady = FALSE,
                                !.ready = @ \ {p}]
           e == [db EXCEPT !.room = r]
<1>3. Without(db.room.players, p) \in Seq(Players)
  BY <1>2, WithoutSeats DEF Shape, Seated
<1>4. Depart(db, p) = e
  BY <1>2 DEF Depart, Shape
<1>5. /\ DOMAIN r = DOMAIN db.room /\ r.players \in Seq(Players) /\ r.settled = FALSE
      /\ r.status # "finished" /\ r.gameReady = FALSE /\ r.played = FALSE
  BY <1>1, <1>2, <1>3 DEF Shape, Held, Lawful
<1> HIDE DEF r
<1>6. Lead(db, e) /\ Waits(e)
  BY <1>1, <1>5, LobbyLead
<1> QED
  BY <1>4, <1>6

(* What a gateway may make of a match that is being played, before the settlement. *)
Plays(d, e) ==
  /\ Held(e) /\ e.paid = d.paid /\ e.grace = d.grace
  /\ \/ e.room = d.room /\ e.back = {}
     \/ \E w : /\ e.room = [d.room EXCEPT !.status = "finished", !.winner = w]
               /\ w # None => e.back = {}

(* What a gateway makes of a match that is being played leads it on. *)
LEMMA PlaysLead ==
  ASSUME Good(db, sweep), db.room.status # "finished", db.room.gameReady, db.room.played,
         NEW e, Plays(db, e)
  PROVE  Lead(db, e) /\ Waits(e)
<1>1. Held(db) /\ Shape(db) /\ Lawful(db) /\ Stage(db) = "live"
  BY GoodShape DEF Stage
<1>2. CASE e.room = db.room /\ e.back = {}
  <2>1. Lawful(e) /\ Stage(e) = Stage(db)
    BY <1>1, <1>2 DEF Plays, Lawful, Stage, Seated
  <2> QED
    BY <1>2, <2>1 DEF Plays, Lead, Waits
<1>3. CASE \E w : /\ e.room = [db.room EXCEPT !.status = "finished", !.winner = w]
                  /\ w # None => e.back = {}
  <2>1. PICK w : e.room = [db.room EXCEPT !.status = "finished", !.winner = w] /\ (w # None => e.back = {})
    BY <1>3
  <2>2. e.room.status = "finished" /\ e.room.winner = w /\ e.room.players = db.room.players
    BY <1>1, <2>1 DEF Shape
  <2> QED
    BY <1>1, <2>1, <2>2 DEF Plays, Lead, Waits, HasTaker
<1> QED
  BY <1>2, <1>3 DEF Plays

(* leaveRoom. *)
LEMMA LeaveKept ==
  ASSUME Good(db, sweep), NEW p \in Players, NEW departed, NEW quitted,
         Leave(p, departed, quitted),
         Pregame(db) => Lead(db, departed) /\ Waits(departed),
         ~Pregame(db) => Plays(db, quitted)
  PROVE  Kept
<1>1. db.room.status # "finished" /\ Shape(db) /\ Lawful(db)
  BY GoodShape DEF Leave, Open
<1>2. PICK e : /\ Commit(e)
               /\ e = IF db.room.status = "waiting" /\ Len(db.room.players) = 1 THEN Finish(db, None)
                      ELSE IF p \in db.room.spectators THEN [db EXCEPT !.room.spectators = @ \ {p}]
                      ELSE IF isPreparing(db) THEN Cancel(db)
                      ELSE IF Pregame(db) THEN departed ELSE quitted
  BY DEF Leave
<1>3. SameTable(db, [db EXCEPT !.room.spectators = @ \ {p}])
  BY <1>1 DEF SameTable, Shape
<1>4. ~isPreparing(db) /\ ~Pregame(db) => db.room.gameReady /\ db.room.played
  BY <1>1 DEF Leave, Open, isPreparing, Pregame, Lawful
<1>5. Lead(db, e) /\ Waits(e)
  BY <1>1, <1>2, <1>3, <1>4, FinishLead, SameTableLead, PlaysLead
<1> QED
  BY <1>1, <1>2, <1>5, CommitKept

----------------------------------------------------------------------------
(* match-start.ts. *)

(* acknowledgeInitialState: the last acknowledgement lets the match begin. *)
LEMMA acknowledgeInitialStateKept ==
  ASSUME Good(db, sweep), NEW p \in Players, acknowledgeInitialState(p)
  PROVE  Kept
<1> DEFINE acked == [db EXCEPT !.room.acked = @ \cup {p}]
           first == IF db.game.mover = None THEN db.room.players[1] ELSE db.game.mover
           on == [acked EXCEPT !.room.played = TRUE, !.aged = FALSE]
           e == Schedule(on, first)
<1>1. /\ db.room.status # "finished" /\ db.room.gameReady /\ ~db.room.played
      /\ Shape(db) /\ Held(db) /\ db.back = {} /\ Lawful(db)
  BY GoodShape DEF acknowledgeInitialState, isPreparing
<1>2. SameTable(db, acked)
  BY <1>1 DEF SameTable, Shape
<1>3. CASE Save(acked)
  BY <1>1, <1>2, <1>3, SameTableLead, SaveKept
<1>4. CASE Commit(e)
  <2>1. /\ DOMAIN on = DOMAIN db /\ DOMAIN on.room = DOMAIN db.room
        /\ on.room.status = db.room.status /\ on.room.players = db.room.players
        /\ on.room.gameReady = db.room.gameReady /\ on.room.played = TRUE /\ on.room.settled = FALSE
        /\ on.paid = db.paid /\ on.back = {} /\ on.money = db.money /\ on.grace = db.grace
    BY <1>1 DEF Shape, Held
  <2> HIDE DEF on
  <2>2. /\ e.room = on.room /\ e.paid = on.paid /\ e.back = on.back /\ e.money = on.money
        /\ e.grace = on.grace /\ DOMAIN e = DOMAIN on
    BY <1>1, <2>1 DEF Schedule, Shape
  <2> HIDE DEF e
  <2>3. Shape(e)
    BY <1>1, <2>1, <2>2 DEF Shape
  <2>4. Held(e)
    BY <1>1, <2>1, <2>2, <2>3 DEF Held, Own
  <2>5. Lawful(e) /\ Stage(db) = "held" /\ Stage(e) = "live"
    BY <1>1, <2>1, <2>2 DEF Lawful, Stage, Seated
  <2>6. Lead(db, e) /\ Waits(e)
    BY <1>1, <2>1, <2>2, <2>4, <2>5 DEF Lead, Waits
  <2> QED
    BY <1>1, <1>4, <2>6, CommitKept
<1> QED
  BY <1>3, <1>4 DEF acknowledgeInitialState

(* cancelPreparedMatch: nobody wins, and the stakes go back. *)
LEMMA cancelPreparedMatchKept ==
  ASSUME Good(db, sweep), cancelPreparedMatch
  PROVE  Kept
<1>1. db.room.status # "finished" /\ Commit(Cancel(db))
  BY DEF cancelPreparedMatch, isPreparing
<1> QED
  BY <1>1, FinishLead, CommitKept

(* Spend: money spent elsewhere is not the money of the room. *)
LEMMA SpendKept ==
  ASSUME Good(db, sweep), NEW p \in Players, Spend(p)
  PROVE  Kept
<1> DEFINE m == [db.money EXCEPT ![p] = 0]
           e == [db EXCEPT !.money = m]
<1>1. /\ db.room.status # "finished" /\ ~db.room.gameReady
      /\ Shape(db) /\ Held(db) /\ db.back = {} /\ Lawful(db)
  BY GoodShape DEF Spend, Pregame, Open
<1>2. Save(e)
  BY <1>1 DEF Spend
<1>3. /\ m \in [Accounts -> Int] /\ m[p] = 0 /\ m[Escrow] = db.money[Escrow] /\ m[House] = db.money[House]
      /\ \A q \in Players \ {p} : m[q] = db.money[q]
  BY <1>1, AccountsDiffer DEF Shape, Accounts
<1> HIDE DEF m
<1>4. /\ e.room = db.room /\ e.paid = db.paid /\ e.back = db.back /\ e.money = m
      /\ e.grace = db.grace /\ e.clock = db.clock /\ DOMAIN e = DOMAIN db
  BY <1>1 DEF Shape
<1> HIDE DEF e
<1>5. p \in Spenders \ db.paid
  BY DEF Spend
<1>6. Own(e)
  BY <1>1, <1>3, <1>4, <1>5 DEF Held, Own
<1>7. Held(e)
  BY <1>1, <1>3, <1>4, <1>6 DEF Held, Shape
<1>8. Lead(db, e) /\ Waits(e)
  BY <1>1, <1>4, <1>7 DEF Lead, Waits, Lawful, Stage, Seated
<1> QED
  BY <1>1, <1>2, <1>4, <1>8, SaveKept

----------------------------------------------------------------------------
(* What the gateways share. *)

(* Rows of a finished room may change in any way. *)
LEMMA FinishedKept ==
  ASSUME Good(db, sweep), db.room.status = "finished",
         NEW e, Shape(e), db' = e, e.room = db.room, e.paid = db.paid, e.back = db.back, e.money = db.money
  PROVE  Kept
<1>1. Waits(e)
  BY DEF Waits, Open
<1> QED
  BY <1>1, RowsKept

(* Resync: a player of a finished room comes back. *)
LEMMA ResyncKept ==
  ASSUME Good(db, sweep), NEW p \in Players, Resync(p)
  PROVE  Kept
<1> DEFINE e == CancelGrace(db, p)
<1>1. db.room.status = "finished" /\ Shape(db) /\ db' = e
  BY GoodShape DEF Resync, Save
<1>2. /\ Shape(e) /\ e.room = db.room /\ e.paid = db.paid /\ e.back = db.back /\ e.money = db.money
  BY <1>1 DEF CancelGrace, Shape
<1> HIDE DEF e
<1> QED
  BY <1>1, <1>2, FinishedKept

(* DropSocket: a lost socket changes nothing in the database. *)
LEMMA DropSocketKept ==
  ASSUME Good(db, sweep), NEW p \in Players, DropSocket(p)
  PROVE  Kept
BY SameKept DEF DropSocket

(* A match is set up: every seat has paid. d is the room as the command found it. *)
LEMMA StartLead ==
  ASSUME Good(db, sweep), db.room.status # "finished", ~db.room.gameReady,
         NEW d, OpenBooks(d), d.paid = db.paid, d.room.played = FALSE, Waits(d),
         NEW least \in {2, Seats}, CanStart(d, least), Funded(d), NEW g
  PROVE  Lead(db, Start(d, g)) /\ Waits(Start(d, g))
<1> DEFINE c == Charge(d, Seated(d))
           e == Start(d, g)
<1>1. Shape(d) /\ d.room.settled = FALSE
  BY DEF OpenBooks, Held
<1>2. OpenBooks(c) /\ c.room = d.room /\ c.grace = d.grace /\ c.paid = d.paid \cup Seated(d)
  BY ChargeHeld
<1> HIDE DEF c
<1>3. e = [c EXCEPT !.game = g, !.room.status = "started", !.room.gameReady = TRUE]
  BY DEF Start, c
<1> HIDE DEF e
<1>4. /\ DOMAIN e = DOMAIN c /\ DOMAIN e.room = DOMAIN d.room /\ e.room.players = d.room.players
      /\ e.room.status = "started" /\ e.room.gameReady = TRUE /\ e.room.played = FALSE
      /\ e.room.settled = FALSE /\ e.paid = c.paid /\ e.back = c.back /\ e.money = c.money
      /\ e.grace = d.grace
  BY <1>1, <1>2, <1>3 DEF Shape, OpenBooks, Held
<1>5. Held(e) /\ e.back = {}
  <2>1. Shape(e)
    BY <1>1, <1>2, <1>4 DEF OpenBooks, Held, Shape
  <2>2. Own(e)
    BY <1>2, <1>4 DEF OpenBooks, Held, Own
  <2> QED
    BY <1>2, <1>4, <2>1, <2>2 DEF OpenBooks, Held
<1>6. Seated(e) \subseteq e.paid /\ e.paid # {}
  <2>1. Len(d.room.players) > 0 /\ Seated(e) = Seated(d)
    BY <1>1, <1>4, RoomsAssumption DEF CanStart, Shape, Seated
  <2>2. d.room.players[1] \in Seated(d)
    BY <1>1, <2>1 DEF Seated, ToSet, Shape
  <2> QED
    BY <1>2, <1>4, <2>1, <2>2
<1>7. Lawful(e) /\ Stage(db) = "lobby" /\ Stage(e) = "held"
  BY <1>4, <1>6 DEF Lawful, Stage
<1> QED
  BY <1>2, <1>4, <1>5, <1>7 DEF Lead, Waits, e

(* tryStart: a match with all its stakes, or none of it. *)
LEMMA tryStartKept ==
  ASSUME Good(db, sweep), NEW least \in {2, Seats}, NEW Deals, tryStart(least, Deals)
  PROVE  Kept
<1>1. db.room.status # "finished" /\ ~db.room.gameReady /\ CanStart(db, least) /\ Funded(db)
  BY DEF tryStart, CanStart, Pregame, Open
<1>2. OpenBooks(db) /\ db.room.played = FALSE /\ Waits(db)
  BY <1>1, GoodShape, SelfLead DEF OpenBooks, Lawful
<1>3. PICK g : Commit(Start(db, g))
  BY DEF tryStart
<1>4. Lead(db, Start(db, g)) /\ Waits(Start(db, g))
  BY <1>1, <1>2, StartLead
<1> QED
  BY <1>1, <1>3, <1>4, CommitKept

(* handleJoin and get_state. *)
LEMMA JoinKept ==
  ASSUME Good(db, sweep), NEW p \in Players, NEW least \in {2, Seats}, NEW Deals, NEW timed,
         Join(p, least, Deals, timed)
  PROVE  Kept
<1> DEFINE readied == [db EXCEPT !.room.ready = IF p \in Seated(db) THEN @ \cup {p} ELSE @]
           here == CancelGrace(readied, p)
<1>1. /\ db.room.status # "finished" /\ Shape(db) /\ Held(db) /\ db.back = {} /\ Lawful(db)
      /\ online' = online \cup {p}
  BY GoodShape DEF Join, Open
<1>2. SameTable(db, readied)
  BY <1>1 DEF SameTable, Shape
<1>3. Lead(db, readied) /\ readied.room.status # "finished" /\ Held(readied) /\ Shape(readied)
  BY <1>1, <1>2, SameTableLead DEF Lead, Held
<1>4. /\ \A f \in DOMAIN db.room \ {"ready", "spectators", "acked"} : readied.room[f] = db.room[f]
      /\ readied.paid = db.paid /\ readied.back = db.back /\ readied.grace = db.grace
      /\ readied.clock = db.clock
  BY <1>2 DEF SameTable
<1> HIDE DEF readied
<1>5. /\ here.room = readied.room /\ here.paid = db.paid /\ here.back = {} /\ here.money = readied.money
      /\ here.clock = db.clock /\ DOMAIN here = DOMAIN readied
      /\ here.grace = [db.grace EXCEPT ![p] = "none"]
  BY <1>1, <1>3, <1>4 DEF CancelGrace, Shape
<1> HIDE DEF here
<1>6. Shape(here)
  BY <1>1, <1>3, <1>5 DEF Shape
<1>7. Held(here)
  <2>1. here.paid = readied.paid /\ here.back = readied.back
    BY <1>1, <1>4, <1>5
  <2> QED
    BY <1>3, <1>5, <1>6, <2>1 DEF Held, Own
<1>8. Waits(here)
  BY <1>1, <1>5 DEF Waits, Shape
<1>9. /\ here.room.status = db.room.status /\ here.room.gameReady = db.room.gameReady
      /\ here.room.played = db.room.played /\ here.room.players = db.room.players
      /\ here.room.status # "finished"
  BY <1>1, <1>4, <1>5 DEF Shape
<1>10. CASE CanStart(here, least) /\ p \in Seated(db)
  <2>1. ~db.room.gameReady /\ here.room.played = FALSE /\ OpenBooks(here)
    BY <1>1, <1>5, <1>7, <1>9, <1>10 DEF CanStart, Pregame, Lawful, OpenBooks
  <2>2. CASE Funded(here)
    <3>1. PICK g : Commit(Start(here, g))
      BY <1>10, <2>2 DEF Join, here, readied
    <3>2. Lead(db, Start(here, g)) /\ Waits(Start(here, g))
      BY <1>1, <1>5, <1>8, <1>10, <2>1, <2>2, StartLead
    <3> QED
      BY <1>1, <3>1, <3>2, CommitKept
  <2>3. CASE ~Funded(here)
    <3>1. Save(db)
      BY <1>10, <2>3 DEF Join, here, readied
    <3> QED
      BY <3>1, SameKept DEF Save
  <2> QED
    BY <2>2, <2>3
<1>11. CASE ~(CanStart(here, least) /\ p \in Seated(db))
  <2>1. PICK e : Save(e) /\ (e = here \/ (here.room.gameReady /\ e = Schedule(here, p)))
    <3>1. Save(IF here.room.gameReady /\ timed /\ here.game.mover = p THEN Schedule(here, p) ELSE here)
      BY <1>11 DEF Join, here, readied
    <3> QED
      BY <3>1
  <2>2. /\ e.room = here.room /\ e.paid = here.paid /\ e.back = here.back /\ e.money = here.money
        /\ e.grace = here.grace /\ DOMAIN e = DOMAIN here
        /\ (~here.room.gameReady => e.clock = here.clock)
    BY <1>6, <2>1 DEF Schedule, Shape
  <2>3. Held(e)
    BY <1>7, <2>2 DEF Held, Own, Shape
  <2>4. Lawful(e) /\ Stage(e) = Stage(db)
    BY <1>1, <1>5, <1>9, <2>2 DEF Lawful, Stage, Seated, Shape
  <2>5. Lead(db, e) /\ Waits(e) /\ e.room.status # "finished"
    BY <1>5, <1>8, <1>9, <2>2, <2>3, <2>4 DEF Lead, Waits
  <2> QED
    BY <1>1, <2>1, <2>5, SaveKept
<1> QED
  BY <1>10, <1>11

(* handleDisconnect; gone is what the gateway does about a player who is away. *)
LEMMA DisconnectKept ==
  ASSUME Good(db, sweep), NEW p \in Players, NEW gone, Disconnect(p, gone),
         p \in Seated(db) /\ Open(db) => \A d \in gone : Lead(db, d) /\ Waits(d)
  PROVE  Kept
<1>1. CASE ~Open(db)
  BY <1>1, SameKept DEF Disconnect, Save
<1>2. CASE Open(db)
  <2>1. db.room.status # "finished" /\ Shape(db)
    BY <1>2, GoodShape DEF Open
  <2>2. SameTable(db, [db EXCEPT !.room.spectators = @ \ {p}])
    BY <2>1 DEF SameTable, Shape
  <2>3. PICK e : Commit(e) /\ (\/ e = db \/ e = Finish(db, None)
                               \/ e = [db EXCEPT !.room.spectators = @ \ {p}]
                               \/ p \in Seated(db) /\ e \in gone)
    <3>1. CASE p \in online \/ p \notin Seated(db) \cup db.room.spectators
      BY <1>2, <3>1 DEF Disconnect
    <3>2. CASE ~(p \in online \/ p \notin Seated(db) \cup db.room.spectators)
      BY <1>2, <3>2 DEF Disconnect
    <3> QED
      BY <3>1, <3>2
  <2>4. Lead(db, e) /\ Waits(e)
    BY <1>2, <2>1, <2>2, <2>3, SelfLead, FinishLead, SameTableLead
  <2> QED
    BY <2>1, <2>3, <2>4, CommitKept
<1> QED
  BY <1>1, <1>2

(* A player is away: he leaves the lobby, or his countdown starts. *)
LEMMA AbsentLead ==
  ASSUME Good(db, sweep), Open(db), NEW p \in Seated(db), NEW e \in Absent(db, p)
  PROVE  Lead(db, e) /\ Waits(e)
<1>1. db.room.status # "finished" /\ Shape(db) /\ Held(db) /\ db.back = {} /\ Lawful(db)
  BY GoodShape DEF Open
<1>2. CASE Pregame(db)
  BY <1>2, DepartLead DEF Absent
<1>3. CASE ~Pregame(db)
  <2>1. db.room.gameReady /\ e = StartGrace(db, p)
    BY <1>3 DEF Absent, Pregame
  <2>2. /\ e.room = db.room /\ e.paid = db.paid /\ e.back = {} /\ e.money = db.money
        /\ DOMAIN e = DOMAIN db /\ e.grace = [db.grace EXCEPT ![p] = "running"]
    BY <1>1, <2>1 DEF StartGrace, Shape
  <2>3. Held(e)
    BY <1>1, <2>2 DEF Held, Own, Shape
  <2>4. Lawful(e) /\ Stage(e) = Stage(db)
    BY <1>1, <2>1, <2>2 DEF Lawful, Stage, Seated
  <2>5. Waits(e)
    BY <1>1, <2>2 DEF Waits, Shape
  <2> QED
    BY <1>1, <2>2, <2>3, <2>4, <2>5 DEF Lead
<1> QED
  BY <1>2, <1>3

----------------------------------------------------------------------------
(* The sweepers. *)

(* A sweeper works only on a match that is set up. *)
LEMMA SweptKept ==
  ASSUME Good(db, sweep), NEW k \in Sweepers, sweep[k].step # "idle"
  PROVE  db.room.status = "finished" \/ db.room.gameReady
<1>1. sweep # Resting
  BY DEF Resting, Idle
<1> QED
  BY <1>1 DEF Good

(* A row exists only of a match that is set up. *)
LEMMA RowsExist ==
  ASSUME Good(db, sweep),
         db.clock.phase # "none" \/ db.clock # NoRow \/ \E p \in Players : db.grace[p] # "none"
  PROVE  db.room.status = "finished" \/ db.room.gameReady
BY GoodShape DEF Lawful, NoRow

(* ClockRunsOut: a turn deadline passes. *)
LEMMA ClockRunsOutKept ==
  ASSUME Good(db, sweep), ClockRunsOut
  PROVE  Kept
<1> DEFINE e == [db EXCEPT !.clock.phase = "due", !.aged = @ \/ db.clock.player = db.game.mover]
<1>1. Shape(db) /\ db' = e /\ (db.room.status = "finished" \/ db.room.gameReady)
  BY GoodShape, RowsExist DEF ClockRunsOut, Save
<1>2. /\ Shape(e) /\ e.room = db.room /\ e.paid = db.paid /\ e.back = db.back /\ e.money = db.money
      /\ e.grace = db.grace
  BY <1>1 DEF Shape
<1> HIDE DEF e
<1>3. Waits(e)
  BY <1>2 DEF Waits
<1> QED
  BY <1>1, <1>2, <1>3, RowsKept

(* TurnRunsOut: the time of a turn passes while its row is another player's. *)
LEMMA TurnRunsOutKept ==
  ASSUME Good(db, sweep), TurnRunsOut
  PROVE  Kept
<1> DEFINE e == [db EXCEPT !.aged = TRUE]
<1>1. Shape(db) /\ db' = e /\ (db.room.status = "finished" \/ db.room.gameReady)
  BY GoodShape, RowsExist DEF TurnRunsOut, Save
<1>2. /\ Shape(e) /\ e.room = db.room /\ e.paid = db.paid /\ e.back = db.back /\ e.money = db.money
      /\ e.grace = db.grace
  BY <1>1 DEF Shape
<1> HIDE DEF e
<1>3. Waits(e)
  BY <1>2 DEF Waits
<1> QED
  BY <1>1, <1>2, <1>3, RowsKept

(* GraceRunsOut: a countdown ends, and is due. *)
LEMMA GraceRunsOutKept ==
  ASSUME Good(db, sweep), NEW p \in Players, GraceRunsOut(p)
  PROVE  Kept
<1> DEFINE e == [db EXCEPT !.grace[p] = "due"]
<1>1. Shape(db) /\ db' = e /\ (db.room.status = "finished" \/ db.room.gameReady)
  BY GoodShape, RowsExist DEF GraceRunsOut, Save
<1>2. /\ Shape(e) /\ e.room = db.room /\ e.paid = db.paid /\ e.back = db.back /\ e.money = db.money
      /\ e.grace = [db.grace EXCEPT ![p] = "due"]
  BY <1>1 DEF Shape
<1> HIDE DEF e
<1>3. Waits(e)
  BY <1>1, <1>2 DEF Waits, Shape
<1> QED
  BY <1>1, <1>2, <1>3, RowsKept

(* ClaimClock: the sweeper of the turn deadlines takes a row. *)
LEMMA ClaimClockKept ==
  ASSUME Good(db, sweep), ClaimClock
  PROVE  Kept
<1> DEFINE e == [db EXCEPT !.clock.phase = "claimed"]
<1>1. Shape(db) /\ db' = e /\ (db.room.status = "finished" \/ db.room.gameReady)
  BY GoodShape, RowsExist DEF ClaimClock
<1>2. /\ Shape(e) /\ e.room = db.room /\ e.paid = db.paid /\ e.back = db.back /\ e.money = db.money
      /\ e.grace = db.grace
  BY <1>1 DEF Shape
<1> HIDE DEF e
<1>3. Waits(e)
  BY <1>2 DEF Waits
<1> QED
  BY <1>1, <1>2, <1>3, RowsKept

(* ClaimGrace: the sweeper of the grace periods takes a row that has run out. *)
LEMMA ClaimGraceKept ==
  ASSUME Good(db, sweep), NEW p \in Players, ClaimGrace(p)
  PROVE  Kept
<1> DEFINE e == [db EXCEPT !.grace[p] = "claimed"]
<1>1. /\ Shape(db) /\ db' = e /\ db.grace[p] = "due"
      /\ (db.room.status = "finished" \/ db.room.gameReady)
  BY GoodShape, RowsExist DEF ClaimGrace
<1>2. /\ Shape(e) /\ e.room = db.room /\ e.paid = db.paid /\ e.back = db.back /\ e.money = db.money
      /\ e.grace = [db.grace EXCEPT ![p] = "claimed"]
  BY <1>1 DEF Shape
<1> HIDE DEF e
<1>3. Waits(e)
  BY <1>1, <1>2 DEF Waits, Shape
<1> QED
  BY <1>1, <1>2, <1>3, RowsKept

(* The steps of a sweeper that only read. *)
LEMMA SweeperStepKept ==
  ASSUME Good(db, sweep), NEW k \in Sweepers, ReadVersion(k) \/ Refused(k) \/ HandlerFails(k)
  PROVE  Kept
<1>1. sweep[k].step # "idle" /\ db' = db
  BY DEF ReadVersion, Refused, HandlerFails
<1> QED
  BY <1>1, SweptKept, SameKept

(* ReliableInternalAction around a handler. *)
LEMMA HandlerKept ==
  ASSUME Good(db, sweep), NEW k \in Sweepers, NEW shouts \in BOOLEAN, NEW handled, Handler(k, shouts, handled),
         Open(db) /\ db.room.played => Plays(db, handled)
  PROVE  Kept
<1>1. db.room.status = "finished" \/ db.room.gameReady
  BY SweptKept DEF Handler
<1>2. CASE db' = db
  BY <1>1, <1>2, SameKept
<1>3. CASE db' # db
  <2> DEFINE cancels == k = "grace" /\ isPreparing(db)
             runs == /\ canPlay(db) /\ db.room.status = "started"
                     /\ k = "clock" => db.clock.phase \in {"due", "claimed"}
             after == IF cancels THEN Cancel(db) ELSE IF runs THEN handled ELSE db
  <2>1. CanSettle(after) /\ db' = settleGameRoom(after)
    BY <1>3 DEF Handler
  <2>2. CASE db.room.status = "finished"
    <3>1. after = db /\ db.room.settled = TRUE
      BY <2>2, GoodShape DEF isPreparing
    <3> HIDE DEF after
    <3> QED
      BY <1>3, <2>1, <2>2, <3>1 DEF settleGameRoom
  <2>3. CASE db.room.status # "finished"
    <3>1. db.room.gameReady /\ Open(db) /\ db.room.played \in BOOLEAN
      BY <1>1, <2>3, GoodShape DEF Lawful, Open
    <3>2. runs => Plays(db, handled) /\ db.room.played
      BY <3>1 DEF canPlay
    <3>3. Lead(db, after) /\ Waits(after)
      BY <2>3, <3>1, <3>2, FinishLead, SelfLead, PlaysLead
    <3> HIDE DEF after
    <3> QED
      BY <2>1, <2>3, <3>1, <3>3, SettledKept
  <2> QED
    BY <2>2, <2>3
<1> QED
  BY <1>2, <1>3

(* Release: the sweeper deletes or gives back the row it claimed, never one that runs again. *)
LEMMA ReleaseKept ==
  ASSUME Good(db, sweep), NEW k \in Sweepers, Release(k)
  PROVE  Kept
<1> DEFINE p == sweep[k].player
<1>1. Shape(db) /\ (db.room.status = "finished" \/ db.room.gameReady)
  BY GoodShape, SweptKept DEF Release
<1>2. CASE k = "clock" /\ db.clock.phase = "claimed"
  <2>1. PICK row : db' = [db EXCEPT !.clock = row]
    <3>1. CASE sweep[k].step = "succeeded"
      BY <1>2, <3>1 DEF Release, Unschedule
    <3>2. CASE sweep[k].step # "succeeded"
      <4>1. db' = [db EXCEPT !.clock = [@ EXCEPT !.phase = "running"]]
        BY <1>2, <3>2 DEF Release
      <4> QED
        BY <4>1
    <3> QED
      BY <3>1, <3>2
  <2> DEFINE e == [db EXCEPT !.clock = row]
  <2>2. /\ Shape(e) /\ e.room = db.room /\ e.paid = db.paid /\ e.back = db.back /\ e.money = db.money
        /\ e.grace = db.grace
    BY <1>1 DEF Shape
  <2> HIDE DEF e
  <2>3. Waits(e)
    BY <2>2 DEF Waits
  <2> QED
    BY <1>1, <2>1, <2>2, <2>3, RowsKept DEF e
<1>3. CASE k = "grace" /\ db.grace[p] = "claimed"
  <2>1. PICK x : db' = [db EXCEPT !.grace[p] = x]
    BY <1>3 DEF Release, CancelGrace, StartGrace
  <2> DEFINE e == [db EXCEPT !.grace[p] = x]
  <2>2. /\ Shape(e) /\ e.room = db.room /\ e.paid = db.paid /\ e.back = db.back /\ e.money = db.money
        /\ e.grace = [db.grace EXCEPT ![p] = x]
    BY <1>1 DEF Shape
  <2>3. db' = e
    BY <2>1
  <2> HIDE DEF e, p
  <2>4. Waits(e)
    BY <1>1, <1>3, <2>2 DEF Waits, Shape
  <2> QED
    BY <1>1, <2>2, <2>3, <2>4, RowsKept
<1>4. CASE ~(k = "clock" /\ db.clock.phase = "claimed") /\ ~(k = "grace" /\ db.grace[p] = "claimed")
  <2>1. db' = db
    BY <1>4 DEF Release
  <2> QED
    BY <1>1, <2>1, SameKept
<1> QED
  BY <1>2, <1>3, <1>4

(* SweeperDies: its claims lapse, and no running countdown is one. *)
LEMMA SweeperDiesKept ==
  ASSUME Good(db, sweep), NEW k \in Sweepers, SweeperDies(k)
  PROVE  Kept
<1>1. Shape(db) /\ sweep # Resting
  BY GoodShape DEF SweeperDies, Resting
<1>2. db.room.status = "finished" \/ db.room.gameReady
  BY <1>1 DEF Good
<1> DEFINE g == [p \in Players |-> IF db.grace[p] = "claimed" THEN "due" ELSE db.grace[p]]
           c == IF db.clock.phase = "claimed" THEN "due" ELSE db.clock.phase
           e == IF k = "clock" THEN [db EXCEPT !.clock.phase = c] ELSE [db EXCEPT !.grace = g]
<1>3. db' = e
  BY DEF SweeperDies
<1>4. /\ Shape(e) /\ e.room = db.room /\ e.paid = db.paid /\ e.back = db.back /\ e.money = db.money
      /\ e.grace \in {db.grace, g}
  <2>1. CASE k = "clock"
    BY <1>1, <2>1 DEF Shape
  <2>2. CASE k # "clock"
    BY <1>1, <2>2 DEF Shape
  <2> QED
    BY <2>1, <2>2
<1> HIDE DEF e
<1>5. Waits(e)
  BY <1>4 DEF Waits
<1> QED
  BY <1>2, <1>3, <1>4, <1>5, RowsKept

----------------------------------------------------------------------------
(* All steps that are the same in every game. *)
LEMMA RoomStepKept ==
  ASSUME Good(db, sweep), RoomStep
  PROVE  Kept
BY createRoomKept, joinRoomKept, spectateRoomKept, acknowledgeInitialStateKept, SpendKept, ResyncKept,
   DropSocketKept, GraceRunsOutKept, ClaimGraceKept, cancelPreparedMatchKept, ClockRunsOutKept,
   TurnRunsOutKept, ClaimClockKept, SweeperStepKept, ReleaseKept, SweeperDiesKept DEF RoomStep

(* A stuttering step. *)
LEMMA UnchangedKept ==
  ASSUME Good(db, sweep), UNCHANGED vars
  PROVE  Kept
BY SameKept DEF vars

(* The empty database is in order. *)
LEMMA InitGood ==
  ASSUME Init
  PROVE  Good(db, sweep)
<1> DEFINE m == [a \in Players \cup {House, Escrow} |-> IF a \in Players THEN Stake ELSE 0]
           g == [p \in Players |-> "none"]
<1>1. /\ DOMAIN db = {"room", "game", "clock", "aged", "grace", "paid", "back", "money"}
      /\ db.room = NoRoom /\ db.clock = NoRow /\ db.grace = g /\ db.paid = {} /\ db.back = {} /\ db.money = m
  BY DEF Init
<1>2. /\ DOMAIN NoRoom = {"status", "players", "ready", "spectators", "gameReady", "acked", "played",
                          "winner", "cancelled", "settled"}
      /\ NoRoom.players = <<>> /\ NoRoom.settled = FALSE /\ NoRoom.status = "none"
      /\ NoRoom.gameReady = FALSE /\ NoRoom.played = FALSE
  BY DEF NoRoom
<1>3. m \in [Accounts -> Int] /\ m[Escrow] = 0 /\ m[House] = 0 /\ \A p \in Players : m[p] = Stake
  BY AccountsDiffer, RoomsAssumption DEF Accounts
<1> HIDE DEF m
<1>4. <<>> \in Seq(Players) /\ IsFiniteSet({}) /\ Stake * Cardinality({}) = 0
  BY FS_EmptySet, Times
<1>5. Shape(db)
  BY <1>1, <1>2, <1>3, <1>4 DEF Shape
<1>6. Held(db)
  <2>1. db.paid \ db.back = {} /\ db.money[Escrow] = Stake * Cardinality(db.paid \ db.back)
    BY <1>1, <1>3, <1>4
  <2> QED
    BY <1>1, <1>2, <1>3, <1>5, <2>1 DEF Held, Own
<1>7. Lawful(db)
  BY <1>1, <1>2 DEF Lawful
<1>8. sweep = Resting
  BY DEF Init, Resting
<1> QED
  BY <1>1, <1>2, <1>6, <1>7, <1>8 DEF Good, Books, OpenBooks

(* Books in order are stronger than StakesBalance. *)
LEMMA BooksBalance ==
  ASSUME Books(db)
  PROVE  StakesBalance
<1>1. Users = Players
  BY DEF Users, Books, OpenBooks, ClosedBooks, Held, Shape
<1>2. CASE db.room.status = "finished"
  <2>1. Closed(db.room, db.paid, db.back, db.money)
    BY <1>2 DEF Books, ClosedBooks
  <2> QED
    BY <1>1, <2>1 DEF StakesBalance, Closed
<1>3. CASE db.room.status # "finished"
  <2>1. Held(db) /\ db.back = {}
    BY <1>3 DEF Books, OpenBooks
  <2> DEFINE r == db.room
             pot == Stake * Cardinality(db.paid \ db.back)
             won == r.settled /\ r.winner # None /\ ~r.cancelled
             fee == (pot * Fee + 99) \div 100
  <2>2. won = FALSE
    BY <2>1 DEF Held
  <2> HIDE DEF pot, won, fee
  <2>3. ASSUME NEW p \in Players
        PROVE  LET due == Stake - (IF p \in db.paid \ db.back THEN Stake ELSE 0)
                                + (IF won /\ p = r.winner THEN pot - fee ELSE 0)
               IN db.money[p] = due \/ (p \in Spenders \ db.paid /\ db.money[p] = due - Stake)
    BY <2>1, <2>2, RoomsAssumption DEF Held, Own
  <2>4. db.money[Escrow] = pot /\ db.money[House] = 0 /\ db.back \subseteq db.paid
    BY <2>1 DEF Held, pot
  <2> QED
    BY <1>1, <1>3, <2>1, <2>2, <2>3, <2>4 DEF StakesBalance, pot, won, fee
<1> QED
  BY <1>2, <1>3

(* Good is stronger, too. *)
LEMMA GoodBalance ==
  ASSUME Good(db, sweep)
  PROVE  StakesBalance
BY BooksBalance DEF Good

(* The rooms refine the contract. *)
LEMMA InitContract ==
  ASSUME Init
  PROVE  Contract!Init
<1>1. Good(db, sweep) /\ db.room = NoRoom /\ db.paid = {} /\ db.money[Escrow] = 0 /\ db.money[House] = 0
  BY InitGood, AccountsDiffer DEF Init
<1>2. NoRoom.status = "none" /\ NoRoom.gameReady = FALSE /\ NoRoom.settled = FALSE
  BY DEF NoRoom
<1> QED
  BY <1>1, <1>2 DEF Contract!Init, Stage, Taker

(* The cases of Promise are the steps of RoomContract. *)
LEMMA PromiseContract ==
  ASSUME Promise(db, db')
  PROVE  [Contract!Next]_Contract!contractVars
<1>1. CASE Still(db, db')
  BY <1>1 DEF Still, Contract!contractVars
<1>2. CASE Gathers(db, db')
  BY <1>2 DEF Gathers, Contract!Next, Contract!Gather, Contract!Cardinality, Cardinality
<1>3. CASE Confirms(db, db')
  BY <1>3 DEF Confirms, Contract!Next, Contract!Confirm
<1>4. CASE Awards(db, db')
  BY <1>4 DEF Awards, Contract!Next, Contract!Award
<1>5. CASE Returns(db, db')
  BY <1>5 DEF Returns, Contract!Next, Contract!Return
<1> QED
  BY <1>1, <1>2, <1>3, <1>4, <1>5 DEF Promise

----------------------------------------------------------------------------
(* What the moves of a game do: only the board, the turn and its row change, and the *)
(* match may end.                                                                   *)
Turned(d, e) ==
  /\ DOMAIN e = DOMAIN d /\ e.room = d.room /\ e.paid = d.paid /\ e.back = d.back
  /\ e.money = d.money /\ e.grace = d.grace

(* Nothing has to change. *)
LEMMA TurnedSelf ==
  ASSUME NEW d
  PROVE  Turned(d, d)
BY DEF Turned

(* The clock of a turn, its row and the board may change one after the other. *)
LEMMA TurnedSteps ==
  ASSUME NEW d, Shape(d), NEW e, Turned(d, e)
  PROVE  /\ Turned(d, NewTurn(e)) /\ Turned(d, Unschedule(e))
         /\ \A p : Turned(d, Schedule(e, p)) /\ Turned(d, PassTurn(e, p))
         /\ \A g : Turned(d, [e EXCEPT !.game = g])
<1>1. ASSUME NEW f, Turned(d, f)
      PROVE  /\ Turned(d, NewTurn(f)) /\ Turned(d, Unschedule(f))
             /\ \A p : Turned(d, Schedule(f, p))
             /\ \A g : Turned(d, [f EXCEPT !.game = g])
  BY <1>1 DEF Turned, Shape, NewTurn, Unschedule, Schedule
<1>2. ASSUME NEW p
      PROVE  Turned(d, PassTurn(e, p))
  <2> DEFINE moved == [e EXCEPT !.game.mover = p]
             turned == NewTurn(moved)
  <2>1. Turned(d, moved)
    BY DEF Turned, Shape
  <2> HIDE DEF moved
  <2>2. Turned(d, turned)
    BY <1>1, <2>1
  <2> HIDE DEF turned
  <2>3. Turned(d, Schedule(turned, p))
    BY <1>1, <2>2
  <2> QED
    BY <2>2, <2>3 DEF PassTurn, turned, moved
<1> QED
  BY <1>1, <1>2

(* A match that goes on, or ends, after such changes. *)
LEMMA TurnedPlays ==
  ASSUME NEW d, OpenBooks(d), NEW e, Turned(d, e)
  PROVE  Plays(d, e) /\ \A w : Plays(d, Finish(e, w))
<1>1. Held(d) /\ Shape(d) /\ d.back = {}
  BY DEF OpenBooks, Held
<1>2. Held(e) /\ e.room = d.room /\ e.back = {} /\ e.paid = d.paid /\ e.grace = d.grace
  BY <1>1 DEF Turned, Held, Own, Shape
<1>3. ASSUME NEW w
      PROVE  Plays(d, Finish(e, w))
  <2> DEFINE f == Finish(e, w)
  <2>1. /\ f.room = [d.room EXCEPT !.status = "finished", !.winner = w]
        /\ DOMAIN f = DOMAIN e /\ f.paid = e.paid /\ f.back = e.back /\ f.money = e.money
        /\ f.grace = e.grace
    BY <1>1, <1>2 DEF Finish, Held, Shape
  <2>2. DOMAIN f.room = DOMAIN d.room /\ f.room.players = d.room.players /\ f.room.settled = d.room.settled
    BY <1>1, <2>1 DEF Shape
  <2> HIDE DEF f
  <2>3. Held(f)
    BY <1>1, <1>2, <2>1, <2>2 DEF Held, Own, Shape
  <2> QED
    BY <1>2, <2>1, <2>3 DEF Plays, f
<1> QED
  BY <1>2, <1>3 DEF Plays

(* After the end, too, the rows of the turn may change. *)
LEMMA PlaysTurned ==
  ASSUME NEW d, NEW e, Plays(d, e), NEW f, Turned(e, f)
  PROVE  Plays(d, f)
<1>1. Held(f)
  BY DEF Plays, Turned, Held, Own, Shape
<1> QED
  BY <1>1 DEF Plays, Turned

(* A draw that refunds the stakes before the settlement. *)
LEMMA RefundPlays ==
  ASSUME NEW d, Shape(d), NEW e, Turned(d, e), Held(e), NEW ps
  PROVE  Plays(d, Refund(Finish(e, None), ps))
<1> DEFINE f == Finish(e, None)
           r == Refund(f, ps)
<1>1. /\ f.room = [d.room EXCEPT !.status = "finished", !.winner = None] /\ f.room.status = "finished"
      /\ f.room.players = d.room.players /\ f.room.settled = d.room.settled
      /\ DOMAIN f = DOMAIN e /\ DOMAIN f.room = DOMAIN e.room
      /\ f.paid = e.paid /\ f.back = e.back /\ f.money = e.money /\ f.grace = e.grace
  BY DEF Finish, Turned, Shape
<1> HIDE DEF f
<1>2. Held(f)
  BY <1>1 DEF Held, Own, Shape, Turned
<1>3. Held(r) /\ r.grace = f.grace /\ r.paid = f.paid /\ r.room = f.room
  BY <1>1, <1>2, RefundHeld
<1> HIDE DEF r
<1>4. Plays(d, r)
  BY <1>1, <1>3 DEF Plays, Turned
<1> QED
  BY <1>4 DEF r, f

(* In the match. *)
LEMMA InPlayGood ==
  ASSUME Good(db, sweep), Open(db) \/ db.room.status = "started"
  PROVE  /\ OpenBooks(db) /\ Shape(db) /\ Held(db) /\ db.room.status # "finished"
         /\ db.room.played => db.room.gameReady
BY GoodShape DEF OpenBooks, Open, Lawful

(* A command of a player in the match. *)
LEMMA MoveKept ==
  ASSUME Good(db, sweep), InPlay(db), NEW e, Plays(db, e), Commit(e)
  PROVE  Kept
BY InPlayGood, PlaysLead, CommitKept DEF InPlay

(* A player gives up, or is timed out, in a game of two. *)
LEMMA ResignPlays ==
  ASSUME Good(db, sweep), Open(db)
  PROVE  \A p : Plays(db, Resign(db, p)) /\ Plays(db, Unschedule(Finish(db, Opponent(db, p))))
<1> SUFFICES ASSUME NEW p
             PROVE  Plays(db, Resign(db, p)) /\ Plays(db, Unschedule(Finish(db, Opponent(db, p))))
  OBVIOUS
<1> DEFINE e == Finish(db, Opponent(db, p))
<1>1. Plays(db, e)
  BY InPlayGood, TurnedSelf, TurnedPlays
<1> HIDE DEF e
<1>2. Turned(e, Unschedule(e))
  BY <1>1, TurnedSelf, TurnedSteps DEF Plays, Held
<1> QED
  BY <1>1, <1>2, PlaysTurned DEF Resign, e

(* leaveRoom and handleDisconnect, where a lobby is left as the room service leaves it. *)
LEMMA LeavingKept ==
  ASSUME Good(db, sweep), NEW p \in Players, NEW quitted, Leave(p, Depart(db, p), quitted),
         Open(db) => Plays(db, quitted)
  PROVE  Kept
<1>1. p \in Seated(db) /\ Open(db)
  BY DEF Leave
<1> QED
  BY <1>1, DepartLead, LeaveKept

(* handleDisconnect in the games where a lobby is left as the room service leaves it. *)
LEMMA AbsenceKept ==
  ASSUME Good(db, sweep), NEW p \in Players, Disconnect(p, Absent(db, p))
  PROVE  Kept
BY AbsentLead, DisconnectKept

----------------------------------------------------------------------------
(* What the shared steps do to the document of a game: nothing, once the match has been   *)
(* published, except that it may end.                                                  *)
Fields(d) ==
  /\ DOMAIN d = {"room", "game", "clock", "aged", "grace", "paid", "back", "money"}
  /\ DOMAIN d.room = {"status", "players", "ready", "spectators", "gameReady", "acked", "played",
                      "winner", "cancelled", "settled"}
Orderly(s) == s \in Seq(Players) /\ Len(s) <= Seats /\ \A i, j \in DOMAIN s : s[i] = s[j] => i = j
Result(d, e) ==
  /\ Orderly(d.room.players) => Orderly(e.room.players)
  /\ d.room.status = "finished" => e.room.status = "finished" /\ e.room.winner = d.room.winner
  /\ e.room.gameReady = d.room.gameReady /\ (d.room.gameReady => e.room.players = d.room.players)
Quiet(d, e) == Fields(e) /\ e.game = d.game /\ Result(d, e)
(* A match begins. *)
Dealt(d, e, G) ==
  /\ ~d.room.gameReady /\ e.room.gameReady /\ e.room.status = "started" /\ Len(d.room.players) > 1
  /\ e.room.players = d.room.players /\ e.game \in G

(* Every nonempty set of natural numbers has a least element. *)
LEMMA LeastNatural ==
  ASSUME NEW T, T \subseteq Nat, T # {}
  PROVE  \E m \in T : \A n \in T : m <= n
<1> DEFINE R == {ss \in Nat \X Nat : ss[1] < ss[2]}
<1>1. IsWellFoundedOn(R, Nat)
  BY NatLessThanWellFounded DEF OpToRel
<1> HIDE DEF R
<1>2. PICK m \in T : \A n \in T : <<n, m>> \notin R
  BY <1>1, WFMin
<1>3. ASSUME NEW n \in T
      PROVE  m <= n
  <2>1. ~(n < m)
    BY <1>2 DEF R
  <2> QED
    BY <2>1
<1> QED
  BY <1>3

(* A sum or a difference that is off by one round: how Following counts the seats. *)
LEMMA AroundSeats ==
  ASSUME NEW n \in Nat \ {0}, NEW m \in Int, 0 - n <= m, m < 2 * n
  PROVE  m % n = IF m < 0 THEN m + n ELSE IF m < n THEN m ELSE m - n
OBVIOUS

Around(n, at, dir, k) == ((at - 1 + dir * k) % n) + 1
Reached(n, at, dir, j) == \E k \in 1..n : Around(n, at, dir, k) = j
LEMMA AllSeats ==
  ASSUME NEW n \in Nat \ {0}, NEW at \in 1..n, NEW j \in 1..n, NEW dir \in {1, -1}
  PROVE  Reached(n, at, dir, j)
<1>1. \A m \in {j - 1, j - 1 + n, j - 1 - n} : (m % n) + 1 = j
  <2> SUFFICES ASSUME NEW m \in {j - 1, j - 1 + n, j - 1 - n}
               PROVE  (m % n) + 1 = j
    OBVIOUS
  <2>1. m \in Int /\ 0 - n <= m /\ m < 2 * n
    OBVIOUS
  <2>2. m % n = IF m < 0 THEN m + n ELSE IF m < n THEN m ELSE m - n
    BY <2>1, AroundSeats
  <2> QED
    BY <2>2
<1>2. CASE dir = 1 /\ j > at
  <2>1. j - at \in 1..n /\ at - 1 + dir * (j - at) = j - 1
    BY <1>2
  <2> QED
    BY <1>1, <2>1 DEF Around, Reached
<1>3. CASE dir = 1 /\ j <= at
  <2>1. j - at + n \in 1..n /\ at - 1 + dir * (j - at + n) = j - 1 + n
    BY <1>3
  <2> QED
    BY <1>1, <2>1 DEF Around, Reached
<1>4. CASE dir = -1 /\ j < at
  <2>1. at - j \in 1..n /\ at - 1 + dir * (at - j) = j - 1
    BY <1>4
  <2> QED
    BY <1>1, <2>1 DEF Around, Reached
<1>5. CASE dir = -1 /\ j >= at
  <2>1. at - j + n \in 1..n /\ at - 1 + dir * (at - j + n) = j - 1 - n
    BY <1>5
  <2> QED
    BY <1>1, <2>1 DEF Around, Reached
<1> QED
  BY <1>2, <1>3, <1>4, <1>5

LEMMA InSeats ==
  ASSUME NEW n \in Nat \ {0}, NEW at \in 1..n, NEW k \in 1..n, NEW dir \in {1, -1}
  PROVE  Around(n, at, dir, k) \in 1..n
<1>1. dir * k \in {k, -k}
  OBVIOUS
<1> DEFINE m == at - 1 + dir * k
<1>2. m \in Int
  BY <1>1
<1> HIDE DEF m
<1>3. (m % n) + 1 \in 1..n
  BY <1>2
<1> QED
  BY <1>3 DEF Around, m

(* Following: somebody who is not out, if there is anybody. *)
LEMMA FollowingFree ==
  ASSUME NEW d, Orderly(d.room.players), NEW p \in Seated(d), NEW out, ~(Seated(d) \subseteq out),
         NEW dir \in {1, -1}
  PROVE  Following(d, p, out, dir) \in Seated(d) \ out
<1> DEFINE s == d.room.players
           n == Len(s)
           at == CHOOSE i \in 1..n : s[i] = p
           Ahead(k) == s[Around(n, at, dir, k)]
           free == {k \in 1..n : Ahead(k) \notin out}
           next == CHOOSE k \in free : \A i \in free : k <= i
<1>1. n \in Nat /\ DOMAIN s = 1..n /\ \A q : q \in Seated(d) <=> \E i \in 1..n : s[i] = q
  BY DEF Orderly, Seated, ToSet
<1>2. at \in 1..n /\ n \in Nat \ {0}
  BY <1>1
<1>3. Following(d, p, out, dir) = IF free = {} THEN p ELSE Ahead(next)
  BY DEF Following, Around
<1> HIDE DEF at, n
<1>4. /\ \A k \in 1..n : Around(n, at, dir, k) \in 1..n
      /\ \A j \in 1..n : Reached(n, at, dir, j)
  <2>1. \A k \in 1..n : Around(n, at, dir, k) \in 1..n
    BY <1>2, InSeats
  <2>2. \A j \in 1..n : Reached(n, at, dir, j)
    BY <1>2, AllSeats
  <2> QED
    BY <2>1, <2>2
<1>5. free # {} /\ free \subseteq Nat
  <2>1. PICK j \in 1..n : s[j] \notin out
    BY <1>1
  <2> QED
    BY <1>2, <1>4, <2>1 DEF Reached
<1>6. next \in free
  <2> HIDE DEF free
  <2> QED
    BY <1>5, LeastNatural
<1> QED
  BY <1>1, <1>3, <1>4, <1>5, <1>6

(* The rows of the sweepers are not the document. *)
LEMMA FieldsSteps ==
  ASSUME NEW d, Fields(d)
  PROVE  /\ Quiet(d, d) /\ Quiet(d, NewTurn(d)) /\ Quiet(d, Unschedule(d))
         /\ \A p : /\ Quiet(d, Schedule(d, p)) /\ Quiet(d, StartGrace(d, p)) /\ Quiet(d, CancelGrace(d, p))
BY DEF Quiet, Fields, Result, NewTurn, Unschedule, Schedule, StartGrace, CancelGrace

LEMMA QuietAgain ==
  ASSUME NEW d, NEW e, NEW f, Quiet(d, e), Quiet(e, f)
  PROVE  Quiet(d, f)
BY DEF Quiet, Result

(* Finish, Cancel: only an open room ends. *)
LEMMA FinishQuiet ==
  ASSUME NEW d, Fields(d), d.room.status # "finished"
  PROVE  Quiet(d, Cancel(d)) /\ \A w : Quiet(d, Finish(d, w))
BY DEF Quiet, Fields, Result, Finish, Cancel

(* The settlement changes money and marks. *)
LEMMA SettleQuiet ==
  ASSUME NEW d, Fields(d)
  PROVE  LET e == settleGameRoom(d)
         IN /\ Fields(e) /\ e.game = d.game /\ e.room.status = d.room.status /\ e.room.winner = d.room.winner
            /\ e.room.players = d.room.players /\ e.room.gameReady = d.room.gameReady
<1> DEFINE Same(e) == /\ Fields(e) /\ e.game = d.game /\ e.room.status = d.room.status
                      /\ e.room.winner = d.room.winner
                      /\ e.room.players = d.room.players /\ e.room.gameReady = d.room.gameReady
<1>1. CASE d.room.status # "finished"
  BY <1>1 DEF settleGameRoom
<1>2. CASE d.room.status = "finished"
  <2>1. Same(Refund(d, d.paid))
    BY <1>2 DEF Refund, Fields
  <2>2. ASSUME NEW m PROVE Same([d EXCEPT !.money = m])
    BY DEF Fields
  <2>3. ASSUME NEW e, Same(e) PROVE Same([e EXCEPT !.room.settled = TRUE])
    BY <2>3 DEF Fields
  <2> DEFINE pot == d.money[Escrow]
             fee == (pot * Fee + 99) \div 100
             m == [d.money EXCEPT ![Escrow] = 0, ![d.room.winner] = @ + pot - fee, ![House] = @ + fee]
  <2>4. \/ settleGameRoom(d) = d
        \/ settleGameRoom(d) = [d EXCEPT !.room.settled = TRUE]
        \/ settleGameRoom(d) = [Refund(d, d.paid) EXCEPT !.room.settled = TRUE]
        \/ settleGameRoom(d) = [[d EXCEPT !.money = m] EXCEPT !.room.settled = TRUE]
    <3> DEFINE paidOut == IF pot = 0 THEN d
                 ELSE IF d.room.winner # None /\ ~d.room.cancelled
                 THEN [d EXCEPT !.money[Escrow] = 0, !.money[d.room.winner] = @ + pot - fee,
                                !.money[House] = @ + fee]
                 ELSE Refund(d, d.paid)
    <3>1. settleGameRoom(d) = IF d.room.status # "finished" \/ d.room.settled THEN d
                              ELSE [paidOut EXCEPT !.room.settled = TRUE]
      BY DEF settleGameRoom
    <3>2. [d EXCEPT !.money[Escrow] = 0, !.money[d.room.winner] = @ + pot - fee, !.money[House] = @ + fee]
            = [d EXCEPT !.money = m]
      BY DEF Fields
    <3> HIDE DEF pot, fee, m
    <3> QED
      BY <3>1, <3>2
  <2> HIDE DEF m, Same
  <2>5. Same(d)
    BY DEF Same
  <2>6. Same(settleGameRoom(d))
    BY <2>1, <2>2, <2>3, <2>4, <2>5
  <2> QED
    BY <2>6 DEF Same
<1> QED
  BY <1>1, <1>2

LEMMA CommitQuiet ==
  ASSUME NEW d, NEW e, Quiet(d, e), db' = settleGameRoom(e)
  PROVE  Quiet(d, db')
<1>1. Fields(e)
  BY DEF Quiet
<1> QED
  BY <1>1, SettleQuiet DEF Quiet, Result

(* No seat is taken twice. *)
LEMMA OrderlyFinite ==
  ASSUME NEW d, Orderly(d.room.players)
  PROVE  IsFiniteSet(Seated(d)) /\ Cardinality(Seated(d)) = Len(d.room.players)
<1> DEFINE s == d.room.players
<1>1. s \in Seq(Players) /\ \A i, j \in DOMAIN s : s[i] = s[j] => i = j
  BY DEF Orderly
<1>2. Len(s) \in Nat /\ DOMAIN s = 1..Len(s) /\ s = [i \in 1..Len(s) |-> s[i]]
  BY <1>1
<1>3. Seated(d) = {s[i] : i \in 1..Len(s)}
  BY <1>2 DEF Seated, ToSet
<1> HIDE DEF s
<1>4. s \in Bijection(1..Len(s), Seated(d))
  <2>1. s \in Surjection(1..Len(s), Seated(d))
    BY <1>1, <1>3 DEF Surjection
  <2>2. IsInjective(s)
    BY <1>1, <1>2 DEF IsInjective
  <2> QED
    BY <1>2, <2>1, <2>2 DEF Bijection, Injection, Surjection
<1>5. IsFiniteSet(1..Len(s)) /\ Cardinality(1..Len(s)) = Len(s)
  <2> DEFINE n == Len(s)
  <2>1. n \in Nat
    BY <1>2
  <2> HIDE DEF n
  <2>2. IsFiniteSet(1..n) /\ Cardinality(1..n) = IF 1 > n THEN 0 ELSE n - 1 + 1
    BY <2>1, FS_Interval
  <2> QED
    BY <2>1, <2>2 DEF n
<1> QED
  BY <1>4, <1>5, FS_Bijection DEF s, ExistsBijection

(* Seats are taken and given up one by one. *)
LEMMA OrderlySteps ==
  ASSUME NEW s, Orderly(s), NEW p \in Players
  PROVE  /\ p \notin ToSet(s) /\ Len(s) < Seats => Orderly(Append(s, p))
         /\ p \in ToSet(s) => Orderly(Without(s, p))
<1>1. ASSUME p \notin ToSet(s), Len(s) < Seats
      PROVE  Orderly(Append(s, p))
  <2> DEFINE r == Append(s, p)
  <2>1. \A i \in 1..Len(s) : s[i] # p
    BY <1>1 DEF ToSet, Orderly
  <2>2. /\ r \in Seq(Players) /\ Len(r) = Len(s) + 1 /\ Len(s) \in Nat
        /\ \A i \in 1..Len(s) : r[i] = s[i]
        /\ r[Len(s) + 1] = p
    BY DEF Orderly
  <2>3. \A i, j \in 1..Len(s) : s[i] = s[j] => i = j
    BY DEF Orderly
  <2> HIDE DEF r
  <2>4. Len(r) <= Seats
    BY <1>1, <2>2, RoomsAssumption
  <2>5. \A i, j \in 1..Len(r) : r[i] = r[j] => i = j
    <3> SUFFICES ASSUME NEW i \in 1..Len(r), NEW j \in 1..Len(r), r[i] = r[j]
                 PROVE  i = j
      OBVIOUS
    <3>1. CASE i \in 1..Len(s) /\ j \in 1..Len(s)
      BY <2>2, <2>3, <3>1
    <3>2. CASE i = Len(s) + 1 /\ j \in 1..Len(s)
      BY <2>1, <2>2, <3>2
    <3>3. CASE j = Len(s) + 1 /\ i \in 1..Len(s)
      BY <2>1, <2>2, <3>3
    <3>4. CASE i = Len(s) + 1 /\ j = Len(s) + 1
      BY <3>4
    <3> QED
      BY <2>2, <3>1, <3>2, <3>3, <3>4
  <2> QED
    BY <2>2, <2>4, <2>5 DEF Orderly, r
<1>2. ASSUME p \in ToSet(s)
      PROVE  Orderly(Without(s, p))
  <2> DEFINE k == CHOOSE i \in DOMAIN s : s[i] = p
             r == Without(s, p)
  <2>1. k \in 1..Len(s)
    BY <1>2 DEF ToSet, Orderly
  <2>2. r = SubSeq(s, 1, k - 1) \o SubSeq(s, k + 1, Len(s))
    BY DEF Without, RemoveAt
  <2> HIDE DEF k, r
  <2>3. /\ r \in Seq(Players) /\ Len(r) = Len(s) - 1
        /\ \A i \in 1..Len(r) : r[i] = IF i < k THEN s[i] ELSE s[i + 1]
    <3> DEFINE a == SubSeq(s, 1, k - 1)
               b == SubSeq(s, k + 1, Len(s))
    <3>1. s \in Seq(Players) /\ Len(s) \in Nat /\ k \in Nat /\ 1 <= k /\ k <= Len(s)
      BY <2>1 DEF Orderly
    <3>2. a \in Seq(Players) /\ Len(a) = k - 1 /\ \A i \in 1..k-1 : a[i] = s[i]
      BY <3>1
    <3>3. b \in Seq(Players) /\ Len(b) = Len(s) - k /\ \A i \in 1..Len(s)-k : b[i] = s[i + k]
      BY <3>1
    <3> HIDE DEF a, b
    <3>4. /\ a \o b \in Seq(Players) /\ Len(a \o b) = Len(a) + Len(b)
          /\ \A i \in 1..Len(a) + Len(b) :
               (a \o b)[i] = IF i <= Len(a) THEN a[i] ELSE b[i - Len(a)]
      BY <3>2, <3>3
    <3>5. r = a \o b
      BY <2>2 DEF a, b
    <3>6. r \in Seq(Players) /\ Len(r) = Len(s) - 1
      BY <3>1, <3>2, <3>3, <3>4, <3>5
    <3>7. ASSUME NEW i \in 1..Len(r)
          PROVE  r[i] = IF i < k THEN s[i] ELSE s[i + 1]
      <4>1. CASE i < k
        BY <3>1, <3>2, <3>3, <3>4, <3>5, <3>6, <4>1
      <4>2. CASE ~(i < k)
        <5>1. i - (k - 1) \in 1..Len(s)-k /\ i - (k - 1) + k = i + 1
          BY <3>1, <3>6, <4>2
        <5>2. r[i] = b[i - (k - 1)]
          BY <3>1, <3>2, <3>3, <3>4, <3>5, <3>6, <4>2
        <5> QED
          BY <3>3, <4>2, <5>1, <5>2
      <4> QED
        BY <4>1, <4>2
    <3> QED
      BY <3>6, <3>7
  <2>4. /\ Len(s) \in Nat /\ Len(s) <= Seats /\ Seats \in Nat
        /\ \A i, j \in 1..Len(s) : s[i] = s[j] => i = j
    BY RoomsAssumption DEF Orderly
  <2>5. \A i, j \in 1..Len(r) : r[i] = r[j] => i = j
    <3> DEFINE at(i) == IF i < k THEN i ELSE i + 1
    <3> SUFFICES ASSUME NEW i \in 1..Len(r), NEW j \in 1..Len(r), r[i] = r[j]
                 PROVE  i = j
      OBVIOUS
    <3>1. r[i] = s[at(i)] /\ r[j] = s[at(j)] /\ at(i) \in 1..Len(s) /\ at(j) \in 1..Len(s)
      BY <2>1, <2>3, <2>4
    <3>2. at(i) = at(j)
      BY <2>4, <3>1
    <3> QED
      BY <2>1, <2>3, <2>4, <3>2
  <2>6. Len(r) <= Seats
    BY <2>3, <2>4
  <2> QED
    BY <2>3, <2>5, <2>6 DEF Orderly, r
<1> QED
  BY <1>1, <1>2

LEMMA RoomStepQuiet ==
  ASSUME Good(db, sweep), RoomStep
  PROVE  Quiet(db, db')
<1>1. Fields(db)
  BY GoodShape DEF Shape, Fields
<1>2. ASSUME NEW p \in Players, createRoom(p)
      PROVE  Quiet(db, db')
  <2>1. db.room.status = "none" /\ db' = [db EXCEPT !.room = [NoRoom EXCEPT !.status = "waiting", !.players = <<p>>]]
    BY <1>2 DEF createRoom, Save
  <2>2. db.room.gameReady = FALSE
    BY <2>1, GoodShape DEF Lawful
  <2>3. <<p>> \in Seq(Players) /\ Len(<<p>>) = 1 /\ DOMAIN <<p>> = 1..1
    OBVIOUS
  <2>4. Orderly(<<p>>)
    <3>1. Len(<<p>>) <= Seats
      BY <2>3, RoomsAssumption
    <3>2. \A i, j \in DOMAIN <<p>> : i = j
      BY <2>3
    <3> QED
      BY <2>3, <3>1, <3>2 DEF Orderly
  <2>5. db'.room.players = <<p>>
    BY <1>1, <2>1 DEF Fields, NoRoom
  <2> QED
    BY <1>1, <2>1, <2>2, <2>4, <2>5 DEF Quiet, Fields, Result, NoRoom
<1>3. ASSUME NEW p \in Players, joinRoom(p)
      PROVE  Quiet(db, db')
  <2>1. db.room.status = "waiting"
    BY <1>3 DEF joinRoom
  <2>2. ~db.room.gameReady
    BY <2>1, GoodShape DEF Lawful
  <2>3. PICK s : db' = [db EXCEPT !.room.players = Append(db.room.players, p), !.room.status = s]
    BY <1>3 DEF joinRoom, Save
  <2>4. Orderly(db.room.players) => Orderly(Append(db.room.players, p))
    BY <1>3, OrderlySteps DEF joinRoom, Seated
  <2> QED
    BY <1>1, <2>1, <2>2, <2>3, <2>4 DEF Quiet, Fields, Result
<1>4. ASSUME NEW p \in Players, spectateRoom(p)
      PROVE  Quiet(db, db')
  BY <1>1, <1>4 DEF spectateRoom, Save, Quiet, Fields, Result
<1>5. ASSUME NEW p \in Players, acknowledgeInitialState(p)
      PROVE  Quiet(db, db')
  <2> DEFINE acked == [db EXCEPT !.room.acked = @ \cup {p}]
             played == [acked EXCEPT !.room.played = TRUE, !.aged = FALSE]
  <2>1. Quiet(db, acked)
    BY <1>1 DEF Quiet, Fields, Result
  <2>2. Quiet(acked, played)
    BY <2>1 DEF Quiet, Fields, Result
  <2>3. \/ Save(acked)
        \/ \E q : Commit(Schedule(played, q))
    BY <1>5 DEF acknowledgeInitialState
  <2> HIDE DEF acked, played
  <2>4. \A q : Quiet(db, Schedule(played, q))
    BY <2>1, <2>2, FieldsSteps, QuietAgain DEF Quiet
  <2> QED
    BY <2>1, <2>3, <2>4, CommitQuiet DEF Commit, Save
<1>6. CASE cancelPreparedMatch
  <2>1. db.room.status # "finished"
    BY <1>6 DEF cancelPreparedMatch, isPreparing
  <2> QED
    BY <1>1, <1>6, <2>1, FinishQuiet, CommitQuiet DEF cancelPreparedMatch, Commit
<1>7. ASSUME NEW p \in Players, Spend(p) \/ Resync(p) \/ DropSocket(p) \/ GraceRunsOut(p) \/ ClaimGrace(p)
      PROVE  Quiet(db, db')
  <2>1. \/ db' = db
        \/ \E m : db' = [db EXCEPT !.money[p] = m]
        \/ \E g : db' = [db EXCEPT !.grace[p] = g]
    BY <1>7 DEF Spend, Resync, DropSocket, GraceRunsOut, ClaimGrace, Save, CancelGrace
  <2> QED
    BY <1>1, <2>1 DEF Quiet, Fields, Result
<1>8. CASE ClockRunsOut \/ TurnRunsOut \/ ClaimClock
  <2>1. \/ \E c, h : db' = [db EXCEPT !.clock.phase = c, !.aged = h]
        \/ \E h : db' = [db EXCEPT !.aged = h]
        \/ \E c : db' = [db EXCEPT !.clock.phase = c]
    BY <1>8 DEF ClockRunsOut, TurnRunsOut, ClaimClock, Save
  <2> QED
    BY <1>1, <2>1 DEF Quiet, Fields, Result
<1>9. ASSUME NEW k \in Sweepers, ReadVersion(k) \/ Refused(k) \/ HandlerFails(k)
      PROVE  Quiet(db, db')
  BY <1>1, <1>9, FieldsSteps DEF ReadVersion, Refused, HandlerFails
<1>10. ASSUME NEW k \in Sweepers, Release(k) \/ SweeperDies(k)
       PROVE  Quiet(db, db')
  <2>1. \/ db' = db \/ db' = Unschedule(db) \/ \E p : db' = CancelGrace(db, p) \/ db' = StartGrace(db, p)
        \/ \E c : db' = [db EXCEPT !.clock = c]
        \/ \E g : db' = [db EXCEPT !.grace = g]
    BY <1>10 DEF Release, SweeperDies
  <2> QED
    BY <1>1, <2>1, FieldsSteps DEF Quiet, Fields, Result
<1> QED
  BY <1>2, <1>3, <1>4, <1>5, <1>6, <1>7, <1>8, <1>9, <1>10 DEF RoomStep

(* The lobby: markReady. *)
LEMMA markReadyQuiet ==
  ASSUME Good(db, sweep), NEW p \in Players, markReady(p)
  PROVE  Quiet(db, db')
<1> DEFINE e == [db EXCEPT !.room.ready = @ \cup {p}]
<1>1. Quiet(db, e)
  BY GoodShape DEF Shape, Fields, Quiet, Result
<1> QED
  BY <1>1, CommitQuiet DEF markReady, Commit, e

(* Start: the deal, and nothing else of what the game depends on. *)
LEMMA StartDeals ==
  ASSUME NEW d, NEW G, NEW g \in G, Fields(d), Pregame(d), Len(d.room.players) > 1,
         db' = settleGameRoom(Start(d, g))
  PROVE  Dealt(d, db', G)
<1> DEFINE e == Start(d, g)
<1>1. /\ Fields(e) /\ e.game = g /\ e.room.status = "started" /\ e.room.gameReady = TRUE
      /\ e.room.players = d.room.players
  <2>1. Fields(Charge(d, Seated(d))) /\ Charge(d, Seated(d)).room = d.room
    BY DEF Charge, Fields
  <2> QED
    BY <2>1 DEF Start, Fields
<1> HIDE DEF e
<1>2. db' = settleGameRoom(e)
  BY DEF e
<1> QED
  BY <1>1, <1>2, SettleQuiet DEF Dealt, Pregame

LEMMA tryStartSeen ==
  ASSUME Good(db, sweep), NEW least \in Nat \ {0, 1}, NEW G, tryStart(least, G)
  PROVE  Dealt(db, db', G)
<1>1. Fields(db) /\ Pregame(db) /\ Len(db.room.players) > 1
  BY GoodShape DEF tryStart, CanStart, Shape, Fields
<1>2. PICK g \in G : Commit(Start(db, g))
  BY DEF tryStart
<1> QED
  BY <1>1, <1>2, StartDeals DEF Commit

LEMMA JoinSeen ==
  ASSUME Good(db, sweep), NEW p \in Players, NEW least \in Nat \ {0, 1}, NEW G, NEW timed,
         Join(p, least, G, timed)
  PROVE  Quiet(db, db') \/ Dealt(db, db', G)
<1> DEFINE readied == [db EXCEPT !.room.ready = IF p \in Seated(db) THEN @ \cup {p} ELSE @]
           here == CancelGrace(readied, p)
<1>1. Fields(db)
  BY GoodShape DEF Shape, Fields
<1>2. Quiet(db, readied) /\ readied.room.players = db.room.players /\ readied.room.gameReady = db.room.gameReady
  BY <1>1 DEF Quiet, Fields, Result
<1> HIDE DEF readied
<1>3. Quiet(db, here) /\ here.room = readied.room
  <2>1. here.room = readied.room
    BY <1>2 DEF Quiet, CancelGrace, Fields
  <2>2. Quiet(readied, here)
    BY <1>2, FieldsSteps DEF Quiet
  <2> HIDE DEF here
  <2> QED
    BY <1>2, <2>1, <2>2, QuietAgain
<1> DEFINE starts == CanStart(here, least) /\ p \in Seated(db)
           timing == here.room.gameReady /\ timed /\ here.game.mover = p
<1>4. \/ \E g \in G : CanStart(here, least) /\ Commit(Start(here, g))
      \/ Save(db) \/ Save(here) \/ Save(Schedule(here, p))
  <2>1. IF starts THEN IF Funded(here) THEN \E g \in G : Commit(Start(here, g)) ELSE Save(db)
        ELSE Save(IF timing THEN Schedule(here, p) ELSE here)
    BY DEF Join, here, readied
  <2>2. starts => CanStart(here, least)
    OBVIOUS
  <2> HIDE DEF here, starts, timing
  <2> QED
    BY <2>1, <2>2
<1> HIDE DEF here
<1>5. ASSUME NEW g \in G, CanStart(here, least), Commit(Start(here, g))
      PROVE  Dealt(db, db', G)
  <2>1. Dealt(here, db', G)
    BY <1>3, <1>5, StartDeals DEF CanStart, Commit, Quiet
  <2> QED
    BY <1>2, <1>3, <2>1 DEF Dealt
<1>6. Quiet(db, Schedule(here, p)) /\ Quiet(db, db)
  BY <1>1, <1>3, FieldsSteps, QuietAgain DEF Quiet
<1> QED
  BY <1>3, <1>4, <1>5, <1>6 DEF Save

(* Depart: a lobby has no match. *)
LEMMA DepartQuiet ==
  ASSUME Good(db, sweep), Pregame(db), NEW p \in Seated(db)
  PROVE  Quiet(db, Depart(db, p))
<1>1. Fields(db) /\ p \in Players
  BY GoodShape, SeatsFinite DEF Shape, Fields
<1>2. Orderly(db.room.players) => Orderly(Without(db.room.players, p))
  BY <1>1, OrderlySteps DEF Seated
<1>3. db.room.gameReady = FALSE
  BY GoodShape DEF Pregame, Open, Lawful
<1> QED
  BY <1>1, <1>2, <1>3 DEF Fields, Quiet, Result, Depart, Pregame, Open

(* leaveRoom, up to what the gateway does: that is asked in a match only. *)
LEMMA LeaveSeen ==
  ASSUME Good(db, sweep), NEW p \in Players, NEW quitted, Leave(p, Depart(db, p), quitted)
  PROVE  Quiet(db, db') \/ (Open(db) /\ ~Pregame(db) /\ Commit(quitted))
<1>1. Fields(db) /\ db.room.status # "finished" /\ Open(db)
  BY GoodShape DEF Leave, Open, Shape, Fields
<1>2. Quiet(db, [db EXCEPT !.room.spectators = @ \ {p}])
  BY <1>1 DEF Fields, Quiet, Result
<1> QED
  BY <1>1, <1>2, DepartQuiet, FinishQuiet, CommitQuiet DEF Leave, Commit

LEMMA LeaveQuiet ==
  ASSUME Good(db, sweep), NEW p \in Players, NEW quitted, Leave(p, Depart(db, p), quitted),
         Open(db) /\ ~Pregame(db) => Quiet(db, quitted)
  PROVE  Quiet(db, db')
BY LeaveSeen, CommitQuiet DEF Commit

LEMMA AbsenceQuiet ==
  ASSUME Good(db, sweep), NEW p \in Players, Disconnect(p, Absent(db, p))
  PROVE  Quiet(db, db')
<1>1. Fields(db)
  BY GoodShape DEF Shape, Fields
<1>2. Quiet(db, [db EXCEPT !.room.spectators = @ \ {p}])
  BY <1>1 DEF Fields, Quiet, Result
<1>3. CASE ~Open(db)
  BY <1>1, <1>3, FieldsSteps DEF Disconnect, Save
<1>4. CASE Open(db)
  <2>1. db.room.status # "finished"
    BY <1>4 DEF Open
  <2>2. \/ Commit(db) \/ Commit(Finish(db, None)) \/ Commit([db EXCEPT !.room.spectators = @ \ {p}])
        \/ p \in Seated(db) /\ Pregame(db) /\ Commit(Depart(db, p))
        \/ Commit(StartGrace(db, p))
    BY <1>4 DEF Disconnect, Absent
  <2> QED
    BY <1>1, <1>2, <2>1, <2>2, DepartQuiet, FinishQuiet, FieldsSteps, CommitQuiet DEF Commit
<1> QED
  BY <1>3, <1>4

(* A sweeper's handler, up to what the gateway does. *)
LEMMA HandlerSeen ==
  ASSUME Good(db, sweep), NEW k \in Sweepers, NEW shouts, NEW handled, Handler(k, shouts, handled)
  PROVE  Quiet(db, db') \/ (InPlay(db) /\ db' = settleGameRoom(handled))
<1>1. Fields(db)
  BY GoodShape DEF Shape, Fields
<1>2. db.room.status = "finished" \/ db.room.gameReady
  BY SweptKept DEF Handler
<1>3. \/ db' = db \/ db' = settleGameRoom(db)
      \/ isPreparing(db) /\ db' = settleGameRoom(Cancel(db))
      \/ canPlay(db) /\ db.room.status = "started" /\ db' = settleGameRoom(handled)
  BY DEF Handler
<1>4. canPlay(db) /\ db.room.status = "started" => InPlay(db)
  BY <1>2 DEF canPlay, InPlay
<1>5. isPreparing(db) => Quiet(db, Cancel(db))
  BY <1>1, FinishQuiet DEF isPreparing
<1> QED
  BY <1>1, <1>3, <1>4, <1>5, FieldsSteps, CommitQuiet

LEMMA HandlerQuiet ==
  ASSUME Good(db, sweep), NEW k \in Sweepers, NEW shouts, NEW handled, Handler(k, shouts, handled),
         InPlay(db) => Quiet(db, handled)
  PROVE  Quiet(db, db')
BY HandlerSeen, CommitQuiet
=============================================================================
