-------------------------- MODULE TournamentsProofs --------------------------
(* The money of a tournament, for every number of users and schedulers, every *)
(* stake and split of the prizes, and every trouble; the results of its       *)
(* matches, and who deserves the prizes, under every trouble too.             *)
EXTENDS Tournaments, FiniteSetTheorems, SequenceTheorems, WellFoundedInduction, TLAPS

----------------------------------------------------------------------------
(* The parts of a database state that the money relies on. *)

Places == {((n - 1) % Groups) + 1 : n \in Int}
Statuses == {"registered", "active", "eliminated", "group_winner", "winner", "runner_up", "refunded"}
Participant == [user : Players, status : Statuses, seed : Int, group : Places]
Shape(d) ==
  /\ DOMAIN d = {"t", "parts", "back", "matches", "rooms", "money", "escrow", "house"}
  /\ DOMAIN d.t = {"status", "count", "finals", "round", "settled", "winner", "runnerUp"}
  /\ d.t.count \in Int /\ d.t.settled \in BOOLEAN
  /\ d.parts \in Seq(Participant)
  /\ d.money \in [Players -> Int] /\ d.escrow \in Int /\ d.house \in Int

\* A user has one participant.
Single(d) == \A i, j \in DOMAIN d.parts : d.parts[i].user = d.parts[j].user => i = j

PrizesOf(pot) ==
  LET fee == (pot * Fee) \div 100
      first == (pot * First) \div 100
  IN [fee |-> fee, first |-> first, second |-> pot - fee - first]

\* BooksBalance, of a database state.
Books(d) ==
  LET held == Registered(d) \ d.back
      pot == Stake * Cardinality(held)
      p == PrizesOf(pot)
  IN /\ d.escrow = IF d.t.settled THEN 0 ELSE pot
     /\ d.house = IF d.t.settled THEN p.fee ELSE 0
     /\ \A u \in Players :
          d.money[u] = (IF u \in held THEN 0 ELSE Stake)
                       + (IF ~d.t.settled THEN 0 ELSE IF u = d.t.winner THEN p.first
                          ELSE IF u = d.t.runnerUp THEN p.second ELSE 0)

\* While users come and go nothing has been refunded or paid out.
Coming == {"draft", "open", "full", "countdown"}
Early(d) == d.t.status \in Coming => ~d.t.settled /\ d.back = {}

Sound(d) == Shape(d) /\ Single(d) /\ d.back \subseteq Players /\ Books(d) /\ Early(d)
\* The participants keep their places.
SameSeats(d, e) ==
  /\ DOMAIN e.parts = DOMAIN d.parts
  /\ \A i \in DOMAIN d.parts : e.parts[i].user = d.parts[i].user

\* Nothing is played before the start, and nobody leaves after it: a command
\* finds the participants that it has read.
Waiting ==
  db.t.status \in Coming =>
    /\ db.rooms = <<>> /\ db.matches = <<>> /\ tx = {}
    /\ \A s \in Schedulers : sched[s].step \in {"idle", "listed", "locking"}
Seen == \A x \in tx : Shape(x.read) /\ x.read.escrow \in Nat /\ SameSeats(x.read, db)
MoneyInv == Sound(db) /\ Waiting /\ Seen /\ DOMAIN sched = Schedulers

----------------------------------------------------------------------------
(* Numbers and sets. *)

(* The constants, as the assumption has them. *)
LEMMA Numbers ==
  /\ Users \in Nat /\ Stake \in Nat \ {0} /\ Fee \in 0..100 /\ First \in 0..100
  /\ None \notin Players /\ Players \subseteq Nat
BY TournamentAssumption DEF Players

(* The prizes are whole numbers, and what is left of the pot is the second one. *)
LEMMA PrizesWhole ==
  ASSUME NEW pot \in Nat
  PROVE  LET p == PrizesOf(pot) IN p.fee \in Int /\ p.first \in Int /\ p.second = pot - p.fee - p.first
<1>1. pot * Fee \in Nat /\ pot * First \in Nat
  BY Numbers
<1>2. ((pot * Fee) \div 100) \in Int /\ ((pot * First) \div 100) \in Int
  BY <1>1
<1> QED
  BY <1>2 DEF PrizesOf

(* There are finitely many users, so finitely many participants. *)
LEMMA HeldFinite ==
  ASSUME NEW S, S \subseteq Players
  PROVE  IsFiniteSet(S) /\ Cardinality(S) \in Nat /\ Stake * Cardinality(S) \in Nat
<1>1. IsFiniteSet(Players)
  BY Numbers, FS_Interval DEF Players
<1>2. IsFiniteSet(S) /\ Cardinality(S) \in Nat
  BY <1>1, FS_Subset, FS_CardinalityType
<1> QED
  BY <1>2, Numbers

(* One participant more is one stake more. *)
LEMMA OneMore ==
  ASSUME NEW S, S \subseteq Players, NEW u \in Players \ S
  PROVE  Stake * Cardinality(S \cup {u}) = Stake * Cardinality(S) + Stake
<1>1. Cardinality(S \cup {u}) = Cardinality(S) + 1
  BY HeldFinite, FS_AddElement
<1>2. ASSUME NEW n \in Nat
      PROVE  Stake * (n + 1) = Stake * n + Stake
  BY Numbers
<1>3. Cardinality(S) \in Nat
  BY HeldFinite
<1> QED
  BY <1>1, <1>2, <1>3

(* One less is one stake less. *)
LEMMA OneLess ==
  ASSUME NEW S, S \subseteq Players, NEW u \in S
  PROVE  Stake * Cardinality(S \ {u}) = Stake * Cardinality(S) - Stake
<1>1. u \in Players \ (S \ {u}) /\ (S \ {u}) \cup {u} = S /\ S \ {u} \subseteq Players
  OBVIOUS
<1>2. Stake * Cardinality(S) = Stake * Cardinality(S \ {u}) + Stake
  BY <1>1, OneMore
<1>3. Stake * Cardinality(S \ {u}) \in Nat
  BY <1>1, HeldFinite
<1> QED
  BY <1>2, <1>3, Numbers

(* The participants, one by one. *)
LEMMA PartsTyped ==
  ASSUME NEW d, Shape(d), NEW i \in DOMAIN d.parts
  PROVE  d.parts[i] \in Participant /\ d.parts[i].user \in Players
<1>1. d.parts[i] \in Participant
  BY DEF Shape
<1> QED
  BY <1>1 DEF Participant

(* Participants are users. *)
LEMMA RegisteredPlayers ==
  ASSUME NEW d, Shape(d)
  PROVE  Registered(d) \subseteq Players
BY PartsTyped DEF Registered

(* Who holds a stake in a tournament that is not settled: the escrow covers him. *)
LEMMA EscrowCovers ==
  ASSUME NEW d, Sound(d)
  PROVE  /\ d.t.settled => d.escrow < Stake
         /\ (\E u \in Registered(d) : u \notin d.back) /\ ~d.t.settled => d.escrow >= Stake
         /\ d.escrow >= 0
<1> DEFINE held == Registered(d) \ d.back
<1>1. held \subseteq Players /\ Stake * Cardinality(held) \in Nat /\ Cardinality(held) \in Nat
      /\ IsFiniteSet(held)
  BY RegisteredPlayers, HeldFinite DEF Sound
<1>2. d.escrow = IF d.t.settled THEN 0 ELSE Stake * Cardinality(held)
  BY DEF Sound, Books
<1>3. ASSUME NEW u \in held
      PROVE  Stake * Cardinality(held) >= Stake
  <2>1. Stake * Cardinality(held \ {u}) = Stake * Cardinality(held) - Stake
    BY <1>1, <1>3, OneLess
  <2>2. Stake * Cardinality(held \ {u}) \in Nat
    BY <1>1, HeldFinite
  <2> HIDE DEF held
  <2> QED
    BY <2>1, <2>2, <1>1, Numbers
<1> QED
  BY <1>1, <1>2, <1>3, Numbers
----------------------------------------------------------------------------
(* Steps that move no money. *)

Calm(d, e) ==
  /\ Shape(e) /\ SameSeats(d, e)
  /\ e.back = d.back /\ e.money = d.money /\ e.escrow = d.escrow /\ e.house = d.house
  /\ e.t.settled = d.t.settled /\ e.t.winner = d.t.winner /\ e.t.runnerUp = d.t.runnerUp
  /\ e.t.status \in Coming => d.t.status \in Coming

(* The same places, the same users. *)
LEMMA SeatsRegistered ==
  ASSUME NEW d, NEW e, SameSeats(d, e)
  PROVE  Registered(e) = Registered(d) /\ (Single(d) => Single(e))
BY DEF SameSeats, Registered, Single

(* Such a step keeps the books. *)
LEMMA CalmSound ==
  ASSUME NEW d, NEW e, Sound(d), Calm(d, e)
  PROVE  Sound(e)
<1>1. Registered(e) = Registered(d) /\ Single(e)
  BY SeatsRegistered DEF Calm, Sound
<1>2. Books(e)
  BY <1>1 DEF Calm, Sound, Books
<1> QED
  BY <1>1, <1>2 DEF Calm, Sound, Early

(* Nothing happens. *)
LEMMA CalmSelf ==
  ASSUME NEW d, Shape(d)
  PROVE  Calm(d, d)
BY DEF Calm, SameSeats

(* Two such steps are one. *)
LEMMA CalmAgain ==
  ASSUME NEW d, NEW e, NEW f, Calm(d, e), Calm(e, f)
  PROVE  Calm(d, f)
BY DEF Calm, SameSeats

(* Only the status of some participants changes. *)
LEMMA Relabelled ==
  ASSUME NEW d, Shape(d), NEW S, NEW status \in Statuses, NEW e,
         e = [d EXCEPT !.parts = [i \in DOMAIN @ |-> IF @[i].user \in S THEN [@[i] EXCEPT !.status = status] ELSE @[i]]]
  PROVE  Calm(d, e)
<1>1. ASSUME NEW i \in DOMAIN d.parts
      PROVE  LET q == IF d.parts[i].user \in S THEN [d.parts[i] EXCEPT !.status = status] ELSE d.parts[i]
             IN q \in Participant /\ q.user = d.parts[i].user
  <2>1. d.parts[i] \in Participant
    BY PartsTyped
  <2> QED
    BY <2>1 DEF Participant
<1> DEFINE ps == [i \in DOMAIN d.parts |-> IF d.parts[i].user \in S THEN [d.parts[i] EXCEPT !.status = status] ELSE d.parts[i]]
<1>2. DOMAIN ps = DOMAIN d.parts /\ \A i \in DOMAIN d.parts : ps[i] \in Participant /\ ps[i].user = d.parts[i].user
  BY <1>1
<1>3. e = [d EXCEPT !.parts = ps] /\ ps = [i \in DOMAIN d.parts |-> ps[i]]
  OBVIOUS
<1> HIDE DEF ps
<1>4. ps \in Seq(Participant)
  <2>1. ps \in [1..Len(d.parts) -> Participant] /\ Len(d.parts) \in Nat
    BY <1>2, <1>3 DEF Shape
  <2> QED
    BY <2>1
<1> QED
  BY <1>2, <1>3, <1>4 DEF Calm, Shape, SameSeats

(* Marked: the status of one. *)
LEMMA MarkedCalm ==
  ASSUME NEW d, Shape(d), NEW u, NEW status \in Statuses
  PROVE  Calm(d, Marked(d, u, status))
<1>1. Marked(d, u, status) = [d EXCEPT !.parts = [i \in DOMAIN @ |-> IF @[i].user \in {u} THEN [@[i] EXCEPT !.status = status] ELSE @[i]]]
  BY DEF Marked
<1> HIDE DEF Marked
<1> QED
  BY <1>1, Relabelled

(* settleTournament: the prizes go to two participants who differ. *)
Prizes(d, e, w, l) ==
  LET p == PrizesOf(d.escrow)
  IN /\ Shape(e) /\ SameSeats(d, e) /\ e.back = d.back
     /\ w # l /\ {w, l} \subseteq Registered(d) /\ ~d.t.settled /\ d.escrow # 0
     /\ e.t.settled /\ e.t.winner = w /\ e.t.runnerUp = l /\ e.t.status \notin Coming
     /\ e.escrow = 0 /\ e.house = d.house + p.fee
     /\ \A u \in Players : e.money[u] = d.money[u] + (IF u = w THEN p.first ELSE IF u = l THEN p.second ELSE 0)
Settles(d, e) == \E w, l : Prizes(d, e, w, l)

(* The prizes are what was in the escrow. *)
LEMMA SettlesSound ==
  ASSUME NEW d, NEW e, Sound(d), Settles(d, e)
  PROVE  Sound(e)
<1>1. PICK w, l : Prizes(d, e, w, l)
  BY DEF Settles
<1>2. Registered(e) = Registered(d) /\ Single(e)
  BY <1>1, SeatsRegistered DEF Prizes, Sound
<1>3. d.escrow = Stake * Cardinality(Registered(e) \ e.back) /\ d.house = 0 /\ d.escrow \in Nat
  <2>1. d.escrow \in Int /\ d.escrow >= 0
    BY EscrowCovers DEF Sound, Shape
  <2> QED
    BY <1>1, <1>2, <2>1 DEF Prizes, Sound, Books
<1> DEFINE p == PrizesOf(d.escrow)
           held == Registered(e) \ e.back
<1>4. p.fee \in Int /\ p.first \in Int /\ p.second \in Int
  BY <1>3, PrizesWhole
<1>5. ASSUME NEW u \in Players
      PROVE  e.money[u] = (IF u \in held THEN 0 ELSE Stake)
                          + (IF u = w THEN p.first ELSE IF u = l THEN p.second ELSE 0)
  <2>1. d.money[u] = (IF u \in held THEN 0 ELSE Stake) + 0
    BY <1>1, <1>2 DEF Prizes, Sound, Books
  <2> HIDE DEF p, held
  <2> QED
    BY <1>1, <1>4, <2>1, Numbers DEF Prizes, p
<1>6. e.house = p.fee
  <2> HIDE DEF p
  <2> QED
    BY <1>1, <1>3, <1>4 DEF Prizes, p
<1>7. Books(e)
  BY <1>1, <1>3, <1>5, <1>6 DEF Books, Prizes
<1> QED
  BY <1>1, <1>2, <1>7 DEF Sound, Early, Prizes
----------------------------------------------------------------------------
(* The end of a match, on the database state that the command or the job reads. *)

Ends(d, e) == Calm(d, e) \/ Settles(d, e)

(* A step that moves no money, and then the end of a match. *)
LEMMA CalmEnds ==
  ASSUME NEW d, NEW e, NEW f, Calm(d, e), Ends(e, f)
  PROVE  Ends(d, f)
<1>1. CASE Calm(e, f)
  BY <1>1, CalmAgain DEF Ends
<1>2. CASE Settles(e, f)
  <2>1. PICK w, l : Prizes(e, f, w, l)
    BY <1>2 DEF Settles
  <2>2. Registered(e) = Registered(d)
    BY SeatsRegistered DEF Calm
  <2>3. Prizes(d, f, w, l)
    BY <2>1, <2>2 DEF Prizes, Calm, SameSeats
  <2> QED
    BY <2>3 DEF Ends, Settles
<1> QED
  BY <1>1, <1>2 DEF Ends

(* Other documents and the status of a tournament that is on its way. *)
LEMMA StatusCalm ==
  ASSUME NEW d, Shape(d), NEW e, Shape(e), e.parts = d.parts, e.back = d.back, e.money = d.money,
         e.escrow = d.escrow, e.house = d.house, e.t.settled = d.t.settled, e.t.winner = d.t.winner,
         e.t.runnerUp = d.t.runnerUp, e.t.status \in Coming => d.t.status \in Coming
  PROVE  Calm(d, e)
BY DEF Calm, SameSeats

(* The status alone. *)
LEMMA NamedStatus ==
  ASSUME NEW d, Shape(d), NEW status, status \notin Coming, NEW e, e = [d EXCEPT !.t.status = status]
  PROVE  Calm(d, e)
<1>1. /\ DOMAIN e = DOMAIN d /\ DOMAIN e.t = DOMAIN d.t /\ e.parts = d.parts /\ e.back = d.back
      /\ e.money = d.money /\ e.escrow = d.escrow /\ e.house = d.house /\ e.t.settled = d.t.settled
      /\ e.t.winner = d.t.winner /\ e.t.runnerUp = d.t.runnerUp /\ e.t.count = d.t.count
      /\ e.t.status = status
  BY DEF Shape
<1> QED
  BY <1>1, StatusCalm DEF Shape

(* settleTournament pays the prizes, or does nothing. *)
LEMMA settleTournamentEnds ==
  ASSUME NEW d, Shape(d), d.escrow \in Nat, NEW w, NEW l, NEW e \in settleTournament(d, w, l)
  PROVE  Ends(d, e)
<1> DEFINE pot == d.escrow
           fee == (pot * Fee) \div 100
           first == (pot * First) \div 100
           m == Marked(Marked(d, w, "winner"), l, "runner_up")
<1>1. CASE d.t.settled \/ d.t.status = "cancelled"
  <2>1. e = d
    BY <1>1 DEF settleTournament
  <2> QED
    BY <2>1, CalmSelf DEF Ends
<1>2. CASE ~(d.t.settled \/ d.t.status = "cancelled")
  <2>1. /\ w # l /\ {w, l} \subseteq Registered(d) /\ pot # 0
        /\ e = [m EXCEPT !.t.status = "finished", !.t.settled = TRUE, !.t.winner = w, !.t.runnerUp = l,
                         !.escrow = 0, !.house = @ + fee, !.money[w] = @ + first, !.money[l] = @ + pot - fee - first]
    BY <1>2 DEF settleTournament
  <2>2. Calm(d, m)
    <3> DEFINE n == Marked(d, w, "winner")
    <3> "winner" \in Statuses /\ "runner_up" \in Statuses
      BY DEF Statuses
    <3>1. Calm(d, n) /\ Shape(n)
      BY MarkedCalm DEF Calm
    <3> HIDE DEF n
    <3>2. Calm(n, Marked(n, l, "runner_up"))
      BY <3>1, MarkedCalm
    <3> QED
      BY <3>1, <3>2, CalmAgain DEF n
  <2>3. fee \in Int /\ first \in Int /\ pot - fee - first \in Int /\ pot \in Int
        /\ PrizesOf(pot).fee = fee /\ PrizesOf(pot).first = first /\ PrizesOf(pot).second = pot - fee - first
    BY PrizesWhole DEF PrizesOf
  <2>4. w \in Players /\ l \in Players
    BY <2>1, RegisteredPlayers
  <2> HIDE DEF m, fee, first, pot
  <2>5. /\ DOMAIN e = DOMAIN m /\ e.parts = m.parts /\ e.back = m.back
        /\ e.t = [m.t EXCEPT !.status = "finished", !.settled = TRUE, !.winner = w, !.runnerUp = l]
        /\ e.escrow = 0 /\ e.house = m.house + fee
        /\ e.money = [[m.money EXCEPT ![w] = @ + first] EXCEPT ![l] = @ + pot - fee - first]
    BY <2>1, <2>2 DEF Calm, Shape
  <2>6. /\ DOMAIN e.t = DOMAIN m.t /\ e.t.status = "finished" /\ e.t.settled = TRUE /\ e.t.winner = w
        /\ e.t.runnerUp = l /\ e.t.count = m.t.count
    BY <2>2, <2>5 DEF Calm, Shape
  <2>7. /\ e.money \in [Players -> Int]
        /\ \A u \in Players : e.money[u] = m.money[u] + (IF u = w THEN first ELSE IF u = l THEN pot - fee - first ELSE 0)
    <3> DEFINE money == m.money
               second == pot - fee - first
    <3>1. money \in [Players -> Int] /\ second \in Int
      BY <2>2, <2>3 DEF Calm, Shape
    <3>2. e.money = [[money EXCEPT ![w] = @ + first] EXCEPT ![l] = @ + second]
      <4>1. [money EXCEPT ![w] = @ + first][l] \in Int
        BY <2>3, <2>4, <3>1
      <4>2. [money EXCEPT ![w] = @ + first][l] + pot - fee - first = [money EXCEPT ![w] = @ + first][l] + second
        BY <2>3, <4>1
      <4> QED
        BY <2>5, <4>2
    <3> HIDE DEF money, second
    <3> DEFINE paid == [money EXCEPT ![w] = @ + first]
    <3>3. paid \in [Players -> Int] /\ \A u \in Players : paid[u] = money[u] + (IF u = w THEN first ELSE 0)
      BY <2>3, <2>4, <3>1
    <3>4. e.money = [paid EXCEPT ![l] = @ + second]
      BY <3>2
    <3> HIDE DEF paid
    <3>5. e.money \in [Players -> Int] /\ \A u \in Players : e.money[u] = paid[u] + (IF u = l THEN second ELSE 0)
      BY <2>4, <3>1, <3>3, <3>4
    <3>6. \A u \in Players : e.money[u] = money[u] + (IF u = w THEN first ELSE IF u = l THEN second ELSE 0)
      BY <2>1, <2>3, <3>1, <3>3, <3>5
    <3> QED
      BY <3>5, <3>6 DEF money, second
  <2>8. Shape(e)
    <3>1. Shape(m)
      BY <2>2 DEF Calm
    <3>2. e.house \in Int /\ e.escrow \in Int
      BY <2>3, <2>5, <3>1 DEF Shape
    <3> QED
      BY <2>5, <2>6, <2>7, <3>1, <3>2 DEF Shape
  <2>9. SameSeats(d, e) /\ e.back = d.back /\ m.house = d.house /\ m.money = d.money
    BY <2>2, <2>5 DEF Calm, SameSeats
  <2>10. e.t.status \notin Coming
    BY <2>6 DEF Coming
  <2>11. Prizes(d, e, w, l)
    <3>1. pot = d.escrow
      BY DEF pot
    <3>2. \A u \in Players : e.money[u] = d.money[u] + (IF u = w THEN first ELSE IF u = l THEN pot - fee - first ELSE 0)
      BY <2>7, <2>9
    <3> DEFINE p == PrizesOf(d.escrow)
    <3>3. p.fee = fee /\ p.first = first /\ p.second = pot - fee - first
      BY <2>3, <3>1
    <3> HIDE DEF p
    <3>4. e.house = d.house + p.fee
      BY <2>5, <2>9, <3>3
    <3>5. \A u \in Players : e.money[u] = d.money[u] + (IF u = w THEN p.first ELSE IF u = l THEN p.second ELSE 0)
      BY <3>2, <3>3
    <3> QED
      BY <1>2, <2>1, <2>5, <2>6, <2>8, <2>9, <2>10, <3>1, <3>4, <3>5 DEF Prizes, p
  <2> QED
    BY <2>11 DEF Ends, Settles
<1> QED
  BY <1>1, <1>2

\* generateFinalsBracket.
Drawn(d, e, ms) ==
  e = [d EXCEPT !.matches = ms, !.t.finals = TRUE, !.t.round = 1000, !.t.status = "finals_pending"]

(* handleGroupFinalsComplete: the next phase, the finals, or the prizes. *)
LEMMA FinalsOutcomes ==
  ASSUME NEW d, NEW e \in handleGroupFinalsComplete(d)
  PROVE  \/ e = [d EXCEPT !.t.status = "between_rounds"]
         \/ \E w, l : e \in settleTournament(d, w, l)
         \/ \E ms : Drawn(d, e, ms)
BY DEF handleGroupFinalsComplete, Drawn

(* handleGroupFinalsComplete pays the prizes only through settleTournament. *)
LEMMA handleGroupFinalsCompleteEnds ==
  ASSUME NEW d, Shape(d), d.escrow \in Nat, NEW e \in handleGroupFinalsComplete(d)
  PROVE  Ends(d, e)
<1>1. CASE e = [d EXCEPT !.t.status = "between_rounds"]
  BY <1>1, NamedStatus, CalmSelf DEF Ends, Coming
<1>2. CASE \E w, l : e \in settleTournament(d, w, l)
  BY <1>2, settleTournamentEnds
<1>3. ASSUME NEW ms, Drawn(d, e, ms)
      PROVE  Ends(d, e)
  <2>1. /\ DOMAIN e = DOMAIN d /\ e.parts = d.parts /\ e.back = d.back
        /\ e.money = d.money /\ e.escrow = d.escrow /\ e.house = d.house
    BY <1>3 DEF Shape, Drawn
  <2>2. e.t = [d.t EXCEPT !.finals = TRUE, !.round = 1000, !.status = "finals_pending"]
    BY <1>3 DEF Shape, Drawn
  <2>3. /\ DOMAIN e.t = DOMAIN d.t /\ e.t.settled = d.t.settled /\ e.t.winner = d.t.winner
        /\ e.t.runnerUp = d.t.runnerUp /\ e.t.count = d.t.count /\ e.t.status \notin Coming
    BY <2>2 DEF Shape, Coming
  <2>4. Shape(e)
    BY <2>1, <2>3 DEF Shape
  <2>5. Calm(d, e)
    BY <2>1, <2>3, <2>4, StatusCalm
  <2> QED
    BY <2>5 DEF Ends
<1> QED
  BY <1>1, <1>2, <1>3, FinalsOutcomes

(* markGroupWinners marks participants. *)
LEMMA markGroupWinnersCalm ==
  ASSUME NEW d, Shape(d)
  PROVE  Calm(d, markGroupWinners(d))
<1> DEFINE won == {d.matches[j].winner : j \in {k \in DOMAIN d.matches : d.matches[k].name = "group_final"}}
<1>1. markGroupWinners(d) = [d EXCEPT !.parts = [i \in DOMAIN @ |-> IF @[i].user \in won THEN [@[i] EXCEPT !.status = "group_winner"] ELSE @[i]]]
  BY DEF markGroupWinners
<1> HIDE DEF won
<1>2. "group_winner" \in Statuses
  BY DEF Statuses
<1> QED
  BY <1>1, <1>2, Relabelled

(* eliminate marks a participant. *)
LEMMA eliminateCalm ==
  ASSUME NEW d, Shape(d), NEW i, NEW reason
  PROVE  Calm(d, eliminate(d, i, reason))
BY MarkedCalm, CalmSelf DEF eliminate, Statuses

(* decide writes the match. *)
LEMMA decideCalm ==
  ASSUME NEW d, Shape(d), NEW i, NEW w, NEW reason
  PROVE  Calm(d, decide(d, i, w, reason))
<1> DEFINE e == decide(d, i, w, reason)
<1>1. /\ DOMAIN e = DOMAIN d /\ e.t = d.t /\ e.parts = d.parts /\ e.back = d.back /\ e.money = d.money
      /\ e.escrow = d.escrow /\ e.house = d.house
  BY DEF decide, Shape
<1> HIDE DEF e
<1>2. Calm(d, e)
  BY <1>1, StatusCalm DEF Shape
<1> QED
  BY <1>2 DEF e

(* checkRoundComplete. *)
LEMMA checkRoundCompleteEnds ==
  ASSUME NEW d, Shape(d), d.escrow \in Nat, NEW i, NEW e \in checkRoundComplete(d, i)
  PROVE  Ends(d, e)
<1>1. \/ e = d
      \/ e \in settleTournament(d, d.matches[i].winner, d.matches[i].loser)
      \/ e \in handleGroupFinalsComplete(markGroupWinners(d))
      \/ e = [d EXCEPT !.t.status = "between_rounds"]
  BY DEF checkRoundComplete
<1>2. CASE e = d
  BY <1>2, CalmSelf DEF Ends
<1>3. CASE e \in settleTournament(d, d.matches[i].winner, d.matches[i].loser)
  BY <1>3, settleTournamentEnds
<1>4. CASE e \in handleGroupFinalsComplete(markGroupWinners(d))
  <2> DEFINE m == markGroupWinners(d)
  <2>1. Calm(d, m) /\ Shape(m) /\ m.escrow \in Nat
    BY markGroupWinnersCalm DEF Calm
  <2> HIDE DEF m
  <2>2. Ends(m, e)
    BY <1>4, <2>1, handleGroupFinalsCompleteEnds DEF m
  <2> QED
    BY <2>1, <2>2, CalmEnds
<1>5. CASE e = [d EXCEPT !.t.status = "between_rounds"]
  BY <1>5, NamedStatus DEF Ends, Coming
<1> QED
  BY <1>1, <1>2, <1>3, <1>4, <1>5

(* advanceWinner. *)
LEMMA advanceWinnerEnds ==
  ASSUME NEW d, Shape(d), d.escrow \in Nat, NEW i, NEW w, NEW reason, NEW e \in advanceWinner(d, i, w, reason)
  PROVE  Ends(d, e)
<1> DEFINE f == decide(d, i, w, reason)
           g == eliminate(f, i, reason)
<1>1. e = d \/ e \in checkRoundComplete(g, i)
  BY DEF advanceWinner
<1>2. Calm(d, f) /\ Shape(f)
  BY decideCalm DEF Calm
<1> HIDE DEF f
<1>3. Calm(f, g)
  BY <1>2, eliminateCalm
<1> HIDE DEF g
<1>4. Calm(d, g) /\ Shape(g) /\ g.escrow \in Nat
  BY <1>2, <1>3, CalmAgain DEF Calm
<1>5. Ends(d, e)
  BY <1>1, <1>4, checkRoundCompleteEnds, CalmEnds, CalmSelf DEF Ends
<1> QED
  BY <1>5
----------------------------------------------------------------------------
(* The commit of a command over what others have written since it began. *)

Overwritten(n, f, t) == [i \in DOMAIN n |-> IF i \in DOMAIN f /\ t[i] # f[i] THEN t[i] ELSE n[i]]

(* What is there after the commit, document by document. *)
LEMMA WrittenFields ==
  ASSUME NEW now, Shape(now), NEW from, NEW to
  PROVE  LET e == Written(now, from, to)
         IN /\ DOMAIN e = DOMAIN now /\ e.back = now.back
            /\ e.t = IF to.t = from.t THEN now.t ELSE to.t
            /\ e.escrow = now.escrow + to.escrow - from.escrow
            /\ e.house = now.house + to.house - from.house
            /\ e.parts = Overwritten(now.parts, from.parts, to.parts)
            /\ e.money = Overwritten(now.money, from.money, to.money)
<1> DEFINE ms == Overwritten(now.matches, from.matches, to.matches)
                   \o SubSeq(to.matches, Len(from.matches) + 1, Len(to.matches))
           ps == Overwritten(now.parts, from.parts, to.parts)
           rs == Overwritten(now.rooms, from.rooms, to.rooms)
           mo == Overwritten(now.money, from.money, to.money)
           tt == IF to.t = from.t THEN now.t ELSE to.t
           es == now.escrow + to.escrow - from.escrow
           ho == now.house + to.house - from.house
<1>1. Written(now, from, to) =
        [now EXCEPT !.t = tt, !.escrow = es, !.house = ho, !.parts = ps, !.matches = ms, !.rooms = rs, !.money = mo]
  BY DEF Written, Overwritten
<1> HIDE DEF ms, ps, rs, mo, tt, es, ho
<1>2. LET e == Written(now, from, to)
      IN /\ DOMAIN e = DOMAIN now /\ e.back = now.back
         /\ e.t = tt /\ e.escrow = es /\ e.house = ho /\ e.parts = ps /\ e.money = mo
  BY <1>1 DEF Shape
<1> QED
  BY <1>2 DEF ps, mo, tt, es, ho

(* What a command writes was there, as it read it. *)
LEMMA NoClash ==
  ASSUME NEW now, NEW from, NEW to, ~Conflicts(now, from, to)
  PROVE  /\ to.t # from.t => now.t = from.t
         /\ to.escrow # from.escrow => now.escrow = from.escrow
         /\ to.house # from.house => now.house = from.house
         /\ \A i \in DOMAIN from.parts : to.parts[i] # from.parts[i] => now.parts[i] = from.parts[i]
         /\ \A i \in DOMAIN from.matches : to.matches[i] # from.matches[i] => now.matches[i] = from.matches[i]
         /\ \A i \in DOMAIN from.rooms : to.rooms[i] # from.rooms[i] => now.rooms[i] = from.rooms[i]
         /\ \A u \in Players : to.money[u] # from.money[u] => now.money[u] = from.money[u]
BY DEF Conflicts, Clash

(* The participants and their places. *)
LEMMA WrittenSeats ==
  ASSUME NEW now, Shape(now), NEW from, Shape(from), NEW to, Shape(to), SameSeats(from, to),
         ~Conflicts(now, from, to), NEW ps, ps = Overwritten(now.parts, from.parts, to.parts)
  PROVE  /\ ps \in Seq(Participant) /\ DOMAIN ps = DOMAIN now.parts
         /\ \A i \in DOMAIN now.parts : ps[i].user = now.parts[i].user
<1>1. ASSUME NEW i \in DOMAIN now.parts
      PROVE  ps[i] \in Participant /\ ps[i].user = now.parts[i].user
  <2>1. CASE i \in DOMAIN from.parts /\ to.parts[i] # from.parts[i]
    <3>1. ps[i] = to.parts[i] /\ now.parts[i] = from.parts[i] /\ to.parts[i].user = from.parts[i].user
          /\ i \in DOMAIN to.parts
      BY <2>1, NoClash DEF Overwritten, SameSeats
    <3> QED
      BY <3>1, PartsTyped
  <2>2. CASE ~(i \in DOMAIN from.parts /\ to.parts[i] # from.parts[i])
    <3>1. ps[i] = now.parts[i]
      BY <2>2 DEF Overwritten
    <3> QED
      BY <3>1, PartsTyped
  <2> QED
    BY <2>1, <2>2
<1>2. DOMAIN ps = DOMAIN now.parts /\ ps = [i \in DOMAIN now.parts |-> ps[i]]
  BY DEF Overwritten
<1>3. ps \in [1..Len(now.parts) -> Participant] /\ Len(now.parts) \in Nat
  BY <1>1, <1>2 DEF Shape
<1> QED
  BY <1>1, <1>2, <1>3

(* A command that moved no money moves none when it commits. *)
LEMMA WrittenCalm ==
  ASSUME NEW now, Shape(now), NEW from, Shape(from), NEW to, Calm(from, to), ~Conflicts(now, from, to)
  PROVE  Calm(now, Written(now, from, to))
<1> DEFINE e == Written(now, from, to)
<1>1. /\ DOMAIN e = DOMAIN now /\ e.back = now.back
      /\ e.t = IF to.t = from.t THEN now.t ELSE to.t
      /\ e.escrow = now.escrow + to.escrow - from.escrow
      /\ e.house = now.house + to.house - from.house
      /\ e.parts = Overwritten(now.parts, from.parts, to.parts)
      /\ e.money = Overwritten(now.money, from.money, to.money)
  BY WrittenFields
<1> HIDE DEF e
<1>2. Shape(to) /\ SameSeats(from, to) /\ to.money = from.money /\ to.escrow = from.escrow /\ to.house = from.house
  BY DEF Calm
<1>3. e.escrow = now.escrow /\ e.house = now.house
  BY <1>1, <1>2 DEF Shape
<1>4. e.money = now.money
  BY <1>1, <1>2 DEF Overwritten, Shape
<1>5. SameSeats(now, e) /\ e.parts \in Seq(Participant)
  BY <1>1, <1>2, WrittenSeats DEF SameSeats
<1>6. to.t # from.t => now.t = from.t
  BY NoClash
<1>7. /\ DOMAIN e.t = DOMAIN now.t /\ e.t.count \in Int
      /\ e.t.settled = now.t.settled /\ e.t.winner = now.t.winner /\ e.t.runnerUp = now.t.runnerUp
      /\ e.t.status \in Coming => now.t.status \in Coming
  BY <1>1, <1>2, <1>6 DEF Calm, Shape
<1>8. Shape(e)
  BY <1>1, <1>3, <1>4, <1>5, <1>7 DEF Shape
<1> QED
  BY <1>1, <1>3, <1>4, <1>5, <1>7, <1>8 DEF Calm, e

(* A settlement that commits pays what is in the escrow by then. *)
LEMMA WrittenSettles ==
  ASSUME NEW now, Shape(now), NEW from, Shape(from), from.escrow \in Nat, SameSeats(from, now),
         NEW to, Settles(from, to), ~Conflicts(now, from, to)
  PROVE  Settles(now, Written(now, from, to))
<1>1. PICK w, l : Prizes(from, to, w, l)
  BY DEF Settles
<1> DEFINE e == Written(now, from, to)
           p == PrizesOf(from.escrow)
<1>2. /\ DOMAIN e = DOMAIN now /\ e.back = now.back
      /\ e.t = IF to.t = from.t THEN now.t ELSE to.t
      /\ e.escrow = now.escrow + to.escrow - from.escrow
      /\ e.house = now.house + to.house - from.house
      /\ e.parts = Overwritten(now.parts, from.parts, to.parts)
      /\ e.money = Overwritten(now.money, from.money, to.money)
  BY WrittenFields
<1> HIDE DEF e
<1>3. Shape(to) /\ SameSeats(from, to) /\ to.t # from.t /\ to.escrow # from.escrow /\ to.escrow = 0
  BY <1>1 DEF Prizes
<1>4. now.t = from.t /\ now.escrow = from.escrow /\ e.t = to.t
  BY <1>2, <1>3, NoClash
<1>5. e.escrow = 0
  BY <1>2, <1>3, <1>4 DEF Shape
<1>6. p.fee \in Int /\ p.first \in Int /\ p.second \in Int /\ to.house = from.house + p.fee
  BY <1>1, PrizesWhole DEF Prizes
<1> HIDE DEF p
<1>7. e.house = now.house + p.fee
  BY <1>2, <1>6 DEF Shape
<1>8. SameSeats(now, e) /\ e.parts \in Seq(Participant)
  BY <1>2, <1>3, WrittenSeats DEF SameSeats
<1>9. ASSUME NEW u \in Players
      PROVE  /\ e.money[u] = now.money[u] + (IF u = w THEN p.first ELSE IF u = l THEN p.second ELSE 0)
             /\ e.money[u] \in Int
  <2>1. to.money[u] = from.money[u] + (IF u = w THEN p.first ELSE IF u = l THEN p.second ELSE 0)
    BY <1>1 DEF Prizes, p
  <2>2. e.money[u] = IF to.money[u] # from.money[u] THEN to.money[u] ELSE now.money[u]
    BY <1>2 DEF Overwritten, Shape
  <2>3. to.money[u] # from.money[u] => now.money[u] = from.money[u]
    BY NoClash
  <2>4. from.money[u] \in Int /\ now.money[u] \in Int /\ to.money[u] \in Int
    BY <1>3 DEF Shape
  <2> QED
    BY <1>6, <2>1, <2>2, <2>3, <2>4
<1>10. DOMAIN e.money = Players /\ e.money = [u \in Players |-> e.money[u]]
  BY <1>2 DEF Overwritten, Shape
<1>11. e.money \in [Players -> Int] /\ e.house \in Int
  BY <1>6, <1>7, <1>9, <1>10 DEF Shape
<1>12. Shape(e)
  BY <1>2, <1>3, <1>4, <1>5, <1>8, <1>11 DEF Shape
<1>13. Registered(now) = Registered(from)
  BY SeatsRegistered
<1>14. p = PrizesOf(now.escrow)
  BY <1>4 DEF p
<1>15. Prizes(now, e, w, l)
  BY <1>1, <1>2, <1>4, <1>5, <1>7, <1>8, <1>9, <1>12, <1>13, <1>14 DEF Prizes
<1> QED
  BY <1>15 DEF Settles, e

----------------------------------------------------------------------------
(* Registration and refunds. *)

(* register: one stake more, and nothing was paid out or back before. *)
LEMMA registerSound ==
  ASSUME MoneyInv, NEW u \in Players, register(u)
  PROVE  Sound(db')
<1> DEFINE n == db.t.count + 1
           seat == [user |-> u, status |-> "registered", seed |-> n, group |-> ((n - 1) % Groups) + 1]
<1>1. /\ Shape(db) /\ Single(db) /\ Books(db) /\ ~db.t.settled /\ db.back = {} /\ u \notin Registered(db)
      /\ db.t.status \in Coming
  BY DEF MoneyInv, Sound, Early, register, Coming
<1>2. n \in Int /\ seat \in Participant
  <2>1. n \in Int
    BY <1>1 DEF Shape
  <2> HIDE DEF n
  <2>2. ((n - 1) % Groups) + 1 \in Places
    BY <2>1 DEF Places
  <2> QED
    BY <2>1, <2>2 DEF Participant, Statuses
<1> HIDE DEF n, seat
<1>3. PICK status : db' = [Move(db, u, Stake) EXCEPT !.parts = Append(@, seat), !.t.count = n, !.t.status = status]
  BY DEF register, n, seat
<1>4. /\ DOMAIN db' = DOMAIN db /\ db'.back = db.back /\ db'.house = db.house
      /\ db'.parts = Append(db.parts, seat) /\ db'.escrow = db.escrow + Stake
      /\ db'.money = [db.money EXCEPT ![u] = @ - Stake]
      /\ db'.t = [db.t EXCEPT !.count = n, !.status = status]
  BY <1>1, <1>3 DEF Move, Shape
<1>5. DOMAIN db'.t = DOMAIN db.t /\ db'.t.count = n /\ db'.t.settled = db.t.settled
  BY <1>1, <1>4 DEF Shape
<1>6. Shape(db')
  <2>1. db'.parts \in Seq(Participant)
    BY <1>1, <1>2, <1>4 DEF Shape
  <2>2. db'.money \in [Players -> Int] /\ db'.escrow \in Int
    BY <1>1, <1>4, Numbers DEF Shape
  <2> QED
    BY <1>1, <1>2, <1>4, <1>5, <2>1, <2>2 DEF Shape
<1>7. /\ Len(db.parts) \in Nat /\ DOMAIN db.parts = 1..Len(db.parts)
      /\ DOMAIN db'.parts = 1..(Len(db.parts) + 1) /\ db'.parts[Len(db.parts) + 1].user = u
      /\ \A i \in DOMAIN db.parts : db'.parts[i] = db.parts[i]
  BY <1>1, <1>4 DEF Shape, seat
<1>8. \A i \in DOMAIN db'.parts : i = Len(db.parts) + 1 \/ i \in DOMAIN db.parts
  BY <1>7
<1>9. Registered(db') = Registered(db) \cup {u}
  BY <1>7, <1>8 DEF Registered
<1>10. Single(db')
  <2> SUFFICES ASSUME NEW i \in DOMAIN db'.parts, NEW j \in DOMAIN db'.parts,
                      db'.parts[i].user = db'.parts[j].user
               PROVE  i = j
    BY DEF Single
  <2>1. \A k \in DOMAIN db.parts : db.parts[k].user # u
    BY <1>1 DEF Registered
  <2>2. CASE i \in DOMAIN db.parts /\ j \in DOMAIN db.parts
    BY <1>1, <1>7, <2>2 DEF Single
  <2>3. CASE i = Len(db.parts) + 1 \/ j = Len(db.parts) + 1
    BY <1>7, <1>8, <2>1, <2>3
  <2> QED
    BY <1>8, <2>2, <2>3
<1>11. Books(db')
  <2>1. Registered(db) \subseteq Players
    BY <1>1, RegisteredPlayers
  <2>2. Stake * Cardinality(Registered(db) \cup {u}) = Stake * Cardinality(Registered(db)) + Stake
    BY <1>1, <2>1, OneMore
  <2>3. /\ db.escrow = Stake * Cardinality(Registered(db)) /\ db.house = 0
        /\ \A v \in Players : db.money[v] = (IF v \in Registered(db) THEN 0 ELSE Stake) + 0
    BY <1>1 DEF Books
  <2>4. \A v \in Players : db'.money[v] = (IF v \in Registered(db') THEN 0 ELSE Stake) + 0
    BY <1>1, <1>4, <1>9, <2>3, Numbers DEF Shape
  <2>5. db'.escrow = Stake * Cardinality(Registered(db')) /\ db'.house = 0
    BY <1>4, <1>9, <2>2, <2>3
  <2>6. Registered(db') \ db'.back = Registered(db') /\ ~db'.t.settled
    BY <1>1, <1>4, <1>5
  <2> QED
    BY <2>4, <2>5, <2>6 DEF Books
<1> QED
  BY <1>1, <1>4, <1>5, <1>6, <1>10, <1>11 DEF Sound, Early

(* The sequence without one of its members. *)
LEMMA Removed ==
  ASSUME NEW S, NEW s \in Seq(S), NEW k \in DOMAIN s
  PROVE  /\ RemoveAt(s, k) \in Seq(S) /\ DOMAIN RemoveAt(s, k) = 1..(Len(s) - 1)
         /\ \A i \in 1..(Len(s) - 1) :
              RemoveAt(s, k)[i] = IF i < k THEN s[i] ELSE s[i + 1]
<1>1. k \in 1..Len(s) /\ Len(s) \in Nat
  OBVIOUS
<1> DEFINE a == SubSeq(s, 1, k - 1)
           b == SubSeq(s, k + 1, Len(s))
<1>2. a \in Seq(S) /\ Len(a) = k - 1 /\ \A i \in 1..(k - 1) : a[i] = s[i]
  BY <1>1
<1>3. b \in Seq(S) /\ Len(b) = Len(s) - k /\ \A i \in 1..(Len(s) - k) : b[i] = s[k + i]
  BY <1>1
<1>4. RemoveAt(s, k) = a \o b
  BY DEF RemoveAt
<1> HIDE DEF a, b
<1>5. a \o b \in Seq(S) /\ Len(a \o b) = Len(s) - 1
  BY <1>1, <1>2, <1>3
<1>7. \A i \in 1..(Len(a) + Len(b)) : (a \o b)[i] = IF i <= Len(a) THEN a[i] ELSE b[i - Len(a)]
  BY <1>2, <1>3, ConcatProperties, Zenon
<1>6. ASSUME NEW i \in 1..(Len(s) - 1)
      PROVE  (a \o b)[i] = IF i < k THEN s[i] ELSE s[i + 1]
  <2>1. CASE i < k
    <3>1. i \in 1..(k - 1)
      BY <1>1, <2>1
    <3>2. (a \o b)[i] = a[i]
      BY <1>1, <1>2, <1>3, <3>1
    <3> QED
      BY <1>2, <2>1, <3>1, <3>2
  <2>2. CASE ~(i < k)
    <3>1. i - (k - 1) \in 1..(Len(s) - k) /\ k + (i - (k - 1)) = i + 1
      BY <1>1, <2>2
    <3>2. Len(a) = k - 1 /\ Len(b) = Len(s) - k
      BY <1>2, <1>3
    <3>4. i \in 1..(Len(a) + Len(b)) /\ ~(i <= Len(a))
      BY <1>1, <2>2, <3>2
    <3>3. (a \o b)[i] = b[i - Len(a)]
      BY <1>7, <3>4
    <3> QED
      BY <1>3, <2>2, <3>1, <3>2, <3>3
  <2> QED
    BY <2>1, <2>2
<1> QED
  BY <1>4, <1>5, <1>6

(* unregister: his one place goes, and his stake with it. *)
LEMMA unregisterSound ==
  ASSUME MoneyInv, NEW u \in Players, unregister(u)
  PROVE  Sound(db')
<1>1. /\ Shape(db) /\ Single(db) /\ Books(db) /\ ~db.t.settled /\ db.back = {} /\ u \in Registered(db)
      /\ db.t.status \in Coming
  BY DEF MoneyInv, Sound, Early, unregister, Coming
<1> DEFINE k == CHOOSE i \in DOMAIN db.parts : db.parts[i].user = u
           n == Len(db.parts)
<1>2. k \in DOMAIN db.parts /\ db.parts[k].user = u
  BY <1>1 DEF Registered
<1>3. db' = [Move(db, u, -Stake) EXCEPT !.parts = RemoveAt(@, k), !.t.count = @ - 1, !.t.status = "open"]
  BY DEF unregister, Move
<1> HIDE DEF k
<1>4. /\ DOMAIN db' = DOMAIN db /\ db'.back = db.back /\ db'.house = db.house
      /\ db'.parts = RemoveAt(db.parts, k) /\ db'.escrow = db.escrow - Stake
      /\ db'.money = [db.money EXCEPT ![u] = @ + Stake]
      /\ db'.t = [db.t EXCEPT !.count = @ - 1, !.status = "open"]
  BY <1>1, <1>3, Numbers DEF Move, Shape
<1>5. DOMAIN db'.t = DOMAIN db.t /\ db'.t.count = db.t.count - 1 /\ db'.t.settled = db.t.settled
  BY <1>1, <1>4 DEF Shape
<1>6. /\ db.parts \in Seq(Participant) /\ n \in Nat /\ DOMAIN db.parts = 1..n /\ k \in 1..n
      /\ db'.parts \in Seq(Participant) /\ DOMAIN db'.parts = 1..(n - 1)
      /\ \A i \in 1..(n - 1) : db'.parts[i] = IF i < k THEN db.parts[i] ELSE db.parts[i + 1]
  BY <1>1, <1>2, <1>4, Removed DEF Shape
<1> HIDE DEF n
<1>7. Shape(db')
  <2>1. db'.money \in [Players -> Int] /\ db'.escrow \in Int
    BY <1>1, <1>4, Numbers DEF Shape
  <2> QED
    BY <1>1, <1>4, <1>5, <1>6, <2>1 DEF Shape
<1>8. Registered(db') = Registered(db) \ {u}
  <2>1. ASSUME NEW i \in 1..(n - 1)
        PROVE  db'.parts[i].user \in Registered(db) \ {u}
    <3> DEFINE j == IF i < k THEN i ELSE i + 1
    <3>1. j \in 1..n /\ j # k /\ db'.parts[i] = db.parts[j]
      BY <1>6
    <3> HIDE DEF j
    <3> QED
      BY <1>1, <1>2, <1>6, <3>1 DEF Single, Registered
  <2>2. ASSUME NEW j \in 1..n, db.parts[j].user # u
        PROVE  db.parts[j].user \in Registered(db')
    <3> DEFINE i == IF j < k THEN j ELSE j - 1
    <3>1. i \in 1..(n - 1) /\ db'.parts[i] = db.parts[j]
      BY <1>2, <1>6, <2>2
    <3> HIDE DEF i
    <3> QED
      BY <1>6, <3>1 DEF Registered
  <2> QED
    BY <1>6, <2>1, <2>2 DEF Registered
<1>9. Single(db')
  <2> SUFFICES ASSUME NEW i \in 1..(n - 1), NEW j \in 1..(n - 1), db'.parts[i].user = db'.parts[j].user
               PROVE  i = j
    BY <1>6 DEF Single
  <2> DEFINE a == IF i < k THEN i ELSE i + 1
             b == IF j < k THEN j ELSE j + 1
  <2>1. a \in 1..n /\ b \in 1..n /\ db'.parts[i] = db.parts[a] /\ db'.parts[j] = db.parts[b]
    BY <1>6
  <2>2. a = b => i = j
    BY <1>6
  <2> HIDE DEF a, b
  <2> QED
    BY <1>1, <1>6, <2>1, <2>2 DEF Single
<1>10. Books(db')
  <2>1. Registered(db) \subseteq Players
    BY <1>1, RegisteredPlayers
  <2>2. Stake * Cardinality(Registered(db) \ {u}) = Stake * Cardinality(Registered(db)) - Stake
    BY <1>1, <2>1, OneLess
  <2>3. /\ db.escrow = Stake * Cardinality(Registered(db)) /\ db.house = 0
        /\ \A v \in Players : db.money[v] = (IF v \in Registered(db) THEN 0 ELSE Stake) + 0
    BY <1>1 DEF Books
  <2>4. \A v \in Players : db'.money[v] = (IF v \in Registered(db') THEN 0 ELSE Stake) + 0
    BY <1>1, <1>4, <1>8, <2>3, Numbers DEF Shape
  <2>5. db'.escrow = Stake * Cardinality(Registered(db')) /\ db'.house = 0
    BY <1>4, <1>8, <2>2, <2>3
  <2>6. Registered(db') \ db'.back = Registered(db') /\ ~db'.t.settled
    BY <1>1, <1>4, <1>5
  <2> QED
    BY <2>4, <2>5, <2>6 DEF Books
<1> QED
  BY <1>1, <1>4, <1>5, <1>7, <1>9, <1>10 DEF Sound, Early

(* refundCancelledParticipant: a stake goes back while the escrow covers it, which
   it never does once the prizes have taken it. *)
LEMMA refundSound ==
  ASSUME NEW d, Sound(d), NEW u
  PROVE  LET e == refundCancelledParticipant(d, u) IN Sound(e) /\ SameSeats(d, e) /\ e.t = d.t
<1> DEFINE e == refundCancelledParticipant(d, u)
           m == Marked(d, u, "refunded")
<1>1. CASE e = d
  BY <1>1 DEF SameSeats
<1>2. Calm(d, m) /\ Shape(m) /\ m.t = d.t
  <2>1. "refunded" \in Statuses /\ Shape(d)
    BY DEF Statuses, Sound
  <2>2. Calm(d, m)
    BY <2>1, MarkedCalm
  <2>3. m.t = d.t
    BY <2>1 DEF Marked, Shape
  <2> QED
    BY <2>2, <2>3 DEF Calm
<1>3. CASE e = m
  BY <1>2, <1>3, CalmSound DEF Calm
<1>4. CASE e # d /\ e # m
  <2>1. /\ d.t.status = "cancelled" /\ u \in Registered(d) /\ u \notin d.back /\ ~(d.escrow < Stake)
        /\ e = [Move(m, u, -Stake) EXCEPT !.back = @ \cup {u}]
    BY <1>4 DEF refundCancelledParticipant
  <2> HIDE DEF e, m
  <2> DEFINE minus == -Stake
  <2>2. e = [m EXCEPT !.money[u] = @ - minus, !.escrow = @ + minus, !.back = @ \cup {u}]
    BY <2>1 DEF Move
  <2>3. minus \in Int /\ \A x \in Int : x - minus = x + Stake /\ x + minus = x - Stake
    BY Numbers
  <2> HIDE DEF minus
  <2>4. /\ DOMAIN e = DOMAIN m /\ e.t = m.t /\ e.parts = m.parts /\ e.house = m.house
        /\ e.back = m.back \cup {u} /\ e.escrow = m.escrow + minus /\ e.money = [m.money EXCEPT ![u] = @ - minus]
    BY <1>2, <2>2 DEF Shape
  <2>5. /\ DOMAIN e = DOMAIN m /\ e.t = m.t /\ e.parts = m.parts /\ e.house = m.house
        /\ e.back = m.back \cup {u} /\ e.escrow = m.escrow - Stake /\ e.money = [m.money EXCEPT ![u] = @ + Stake]
    <3>1. u \in Players /\ m.money[u] \in Int /\ m.escrow \in Int
      BY <1>2, <2>1, RegisteredPlayers DEF Sound, Shape
    <3> QED
      BY <2>3, <2>4, <3>1
  <2>6. ~d.t.settled /\ u \in Players /\ d.t.status \notin Coming /\ d.back \subseteq Players
    BY <2>1, EscrowCovers, RegisteredPlayers DEF Sound, Shape, Coming
  <2>7. Shape(e)
    <3>1. e.money \in [Players -> Int] /\ e.escrow \in Int
      BY <1>2, <2>5, <2>6, Numbers DEF Shape
    <3> QED
      BY <1>2, <2>5, <3>1 DEF Shape
  <2>8. SameSeats(d, e) /\ Registered(e) = Registered(d) /\ Single(e) /\ m.back = d.back /\ m.escrow = d.escrow
        /\ m.house = d.house /\ m.money = d.money
    <3>1. SameSeats(d, e)
      BY <1>2, <2>5 DEF Calm, SameSeats
    <3> QED
      BY <1>2, <3>1, SeatsRegistered DEF Calm, Sound
  <2> DEFINE held == Registered(d) \ d.back
  <2>9. Registered(e) \ e.back = held \ {u} /\ u \in held /\ held \subseteq Players
    BY <2>1, <2>5, <2>8, RegisteredPlayers DEF Sound
  <2>10. /\ d.escrow = Stake * Cardinality(held) /\ d.house = 0
        /\ \A v \in Players : d.money[v] = (IF v \in held THEN 0 ELSE Stake) + 0
    BY <2>6 DEF Sound, Books
  <2> HIDE DEF held
  <2>11. e.escrow = Stake * Cardinality(Registered(e) \ e.back) /\ e.house = 0
    BY <2>5, <2>8, <2>9, <2>10, OneLess
  <2>12. \A v \in Players : e.money[v] = (IF v \in Registered(e) \ e.back THEN 0 ELSE Stake) + 0
    BY <1>2, <2>5, <2>6, <2>8, <2>9, <2>10, Numbers DEF Shape
  <2>13. Books(e)
    BY <1>2, <2>5, <2>6, <2>11, <2>12 DEF Books
  <2> QED
    BY <1>2, <2>5, <2>6, <2>7, <2>8, <2>13 DEF Sound, Early, e
<1> QED
  BY <1>1, <1>3, <1>4
----------------------------------------------------------------------------
(* The steps. *)

\* A step after which the books balance and everybody is where he was.
Kept ==
  /\ Sound(db') /\ SameSeats(db, db')
  /\ db'.t.status \in Coming => db.t.status \in Coming

(* A step that moves no money, or pays the prizes. *)
LEMMA EndsKept ==
  ASSUME Sound(db), Ends(db, db')
  PROVE  Kept
<1>1. CASE Calm(db, db')
  BY <1>1, CalmSound DEF Kept, Calm
<1>2. CASE Settles(db, db')
  BY <1>2, SettlesSound DEF Kept, Settles, Prizes
<1> QED
  BY <1>1, <1>2 DEF Ends

(* cancel. *)
LEMMA cancelKept ==
  ASSUME MoneyInv, cancel
  PROVE  Kept
<1>1. Sound(db) /\ Shape(db)
  BY DEF MoneyInv, Sound
<1>2. PICK rs : db' = [db EXCEPT !.t.status = "cancelled", !.rooms = rs]
  BY DEF cancel
<1>3. /\ DOMAIN db' = DOMAIN db /\ db'.t = [db.t EXCEPT !.status = "cancelled"] /\ db'.parts = db.parts
      /\ db'.back = db.back /\ db'.money = db.money /\ db'.escrow = db.escrow /\ db'.house = db.house
  BY <1>1, <1>2 DEF Shape
<1>4. /\ DOMAIN db'.t = DOMAIN db.t /\ db'.t.settled = db.t.settled /\ db'.t.winner = db.t.winner
      /\ db'.t.runnerUp = db.t.runnerUp /\ db'.t.count = db.t.count /\ db'.t.status \notin Coming
  BY <1>1, <1>3 DEF Shape, Coming
<1>6. Shape(db')
  BY <1>1, <1>3, <1>4 DEF Shape
<1>5. Calm(db, db')
  BY <1>1, <1>3, <1>4, <1>6, StatusCalm
<1> QED
  BY <1>1, <1>5, EndsKept DEF Ends

(* FinishGame: what the command decided on what it read holds of what is there. *)
LEMMA FinishGameKept ==
  ASSUME MoneyInv, NEW x \in tx, FinishGame(x)
  PROVE  Kept
<1>1. Sound(db) /\ Shape(db) /\ Shape(x.read) /\ x.read.escrow \in Nat /\ SameSeats(x.read, db)
  BY DEF MoneyInv, Sound, Seen
<1>2. PICK w, reason, d : /\ d \in advanceWinner(Finished(x.read, x.room, w), x.read.rooms[x.room].match, w, reason)
                          /\ ~Conflicts(db, x.read, d) /\ db' = Written(db, x.read, d)
  BY DEF FinishGame
<1> DEFINE f == Finished(x.read, x.room, w)
<1>3. Calm(x.read, f) /\ Shape(f) /\ f.escrow \in Nat
  <2>1. PICK rs : f = [x.read EXCEPT !.rooms = rs]
    BY DEF Finished
  <2> HIDE DEF f
  <2>2. /\ DOMAIN f = DOMAIN x.read /\ f.t = x.read.t /\ f.parts = x.read.parts /\ f.back = x.read.back
        /\ f.money = x.read.money /\ f.escrow = x.read.escrow /\ f.house = x.read.house
    BY <1>1, <2>1 DEF Shape
  <2> QED
    BY <1>1, <2>2, StatusCalm DEF Shape
<1> HIDE DEF f
<1>4. Ends(f, d)
  BY <1>2, <1>3, advanceWinnerEnds DEF f
<1>5. Ends(x.read, d)
  BY <1>3, <1>4, CalmEnds
<1>6. Ends(db, db')
  BY <1>1, <1>2, <1>5, WrittenCalm, WrittenSettles DEF Ends
<1> QED
  BY <1>1, <1>6, EndsKept

(* The rooms that end without their match. *)
LEMMA RoomEndsKept ==
  ASSUME MoneyInv, NEW r, (\E w : LeaveRoom(r, w)) \/ EndWithoutWinner(r)
  PROVE  Kept
<1>1. PICK w : db' = Finished(db, r, w)
  BY DEF LeaveRoom, EndWithoutWinner
<1>2. PICK rs : db' = [db EXCEPT !.rooms = rs]
  BY <1>1 DEF Finished
<1>3. /\ DOMAIN db' = DOMAIN db /\ db'.t = db.t /\ db'.parts = db.parts /\ db'.back = db.back /\ db'.money = db.money
      /\ db'.escrow = db.escrow /\ db'.house = db.house /\ Shape(db) /\ Sound(db)
  BY <1>2 DEF MoneyInv, Sound, Shape
<1> QED
  BY <1>3, StatusCalm, EndsKept DEF Shape, Ends

(* SaveLocking, CancelStart and Run: the status alone. *)
LEMMA StatusKept ==
  ASSUME MoneyInv, NEW s, SaveLocking(s) \/ CancelStart(s) \/ Run(s)
  PROVE  Kept
<1>1. PICK status \in {"locking", "cancelled", "running"} : db' = [db EXCEPT !.t.status = status]
  BY DEF SaveLocking, CancelStart, Run
<1>2. status \notin Coming
  BY <1>1 DEF Coming
<1> QED
  BY <1>1, <1>2, NamedStatus, EndsKept DEF MoneyInv, Sound, Ends

(* generateGroupsAndBrackets. *)
LEMMA generateKept ==
  ASSUME MoneyInv, NEW s, generateGroupsAndBrackets(s)
  PROVE  Kept
<1> DEFINE ps == [i \in DOMAIN db.parts |-> [db.parts[i] EXCEPT !.status = "active"]]
<1>1. PICK ms, finals, round : db' = [db EXCEPT !.matches = ms, !.parts = ps, !.t.finals = finals, !.t.round = round]
  BY DEF generateGroupsAndBrackets
<1>2. Sound(db) /\ Shape(db)
  BY DEF MoneyInv, Sound
<1> DEFINE m == [db EXCEPT !.parts = [i \in DOMAIN @ |-> IF @[i].user \in Registered(db)
                                                          THEN [@[i] EXCEPT !.status = "active"] ELSE @[i]]]
<1>3. Calm(db, m)
  <2>1. "active" \in Statuses
    BY DEF Statuses
  <2> QED
    BY <1>2, <2>1, Relabelled
<1>4. m.parts = ps /\ DOMAIN m = DOMAIN db /\ m.t = db.t /\ m.back = db.back /\ m.money = db.money
      /\ m.escrow = db.escrow /\ m.house = db.house
  BY <1>2 DEF Registered, Shape
<1> HIDE DEF m, ps
<1>5. /\ DOMAIN db' = DOMAIN m /\ db'.parts = m.parts /\ db'.back = m.back /\ db'.money = m.money
      /\ db'.escrow = m.escrow /\ db'.house = m.house /\ db'.t = [m.t EXCEPT !.finals = finals, !.round = round]
  BY <1>1, <1>2, <1>4 DEF Shape
<1>6. /\ DOMAIN db'.t = DOMAIN m.t /\ db'.t.settled = m.t.settled /\ db'.t.winner = m.t.winner
      /\ db'.t.runnerUp = m.t.runnerUp /\ db'.t.count = m.t.count /\ db'.t.status = m.t.status
  BY <1>2, <1>4, <1>5 DEF Shape
<1>7. Shape(m)
  BY <1>3 DEF Calm
<1>8. Calm(m, db')
  BY <1>5, <1>6, <1>7, StatusCalm DEF Shape
<1> QED
  BY <1>2, <1>3, <1>8, CalmAgain, EndsKept DEF Ends

(* ActivateMatch and SaveReady. *)
LEMMA ActivateMatchKept ==
  ASSUME MoneyInv, NEW s, ActivateMatch(s) \/ SaveReady(s)
  PROVE  Kept
<1>1. Sound(db) /\ Shape(db)
  BY DEF MoneyInv, Sound
<1>2. CASE db' = db
  BY <1>1, <1>2, CalmSelf, EndsKept DEF Ends
<1>3. CASE db' # db
  <2> DEFINE Goal == /\ DOMAIN db' = DOMAIN db /\ db'.t = db.t /\ db'.parts = db.parts /\ db'.back = db.back
                     /\ db'.money = db.money /\ db'.escrow = db.escrow /\ db'.house = db.house
  <2>1. ASSUME ActivateMatch(s)
        PROVE  Goal
    <3>1. PICK rs : db' = [db EXCEPT !.rooms = rs]
      BY <1>3, <2>1 DEF ActivateMatch
    <3> QED
      BY <1>1, <3>1 DEF Shape
  <2>3. ASSUME SaveReady(s)
        PROVE  Goal
    BY <1>1, <2>3 DEF SaveReady, Shape
  <2>2. Goal
    BY <2>1, <2>3
  <2> HIDE DEF Goal
  <2> QED
    BY <1>1, <2>2, StatusCalm, EndsKept DEF Shape, Ends, Goal
<1> QED
  BY <1>2, <1>3

(* EndActivation. *)
LEMMA EndActivationKept ==
  ASSUME MoneyInv, NEW s, EndActivation(s)
  PROVE  Kept
<1>1. PICK status, round : /\ db' = [db EXCEPT !.t.status = status, !.t.round = round]
                           /\ status \in {db.t.status, "finals_running", "running"}
  BY DEF EndActivation
<1>2. Sound(db) /\ Shape(db)
  BY DEF MoneyInv, Sound
<1>3. /\ DOMAIN db' = DOMAIN db /\ db'.t = [db.t EXCEPT !.status = status, !.round = round] /\ db'.parts = db.parts
      /\ db'.back = db.back /\ db'.money = db.money /\ db'.escrow = db.escrow /\ db'.house = db.house
  BY <1>1, <1>2 DEF Shape
<1>4. /\ DOMAIN db'.t = DOMAIN db.t /\ db'.t.settled = db.t.settled /\ db'.t.winner = db.t.winner
      /\ db'.t.runnerUp = db.t.runnerUp /\ db'.t.count = db.t.count
      /\ db'.t.status \in Coming => db.t.status \in Coming
  BY <1>1, <1>2, <1>3 DEF Shape, Coming
<1>6. Shape(db')
  BY <1>2, <1>3, <1>4 DEF Shape
<1>5. Calm(db, db')
  BY <1>2, <1>3, <1>4, <1>6, StatusCalm
<1> QED
  BY <1>2, <1>5, EndsKept DEF Ends

(* SaveMatch, EliminateLoser and CloseRound: advanceWinner without a transaction. *)
LEMMA advanceKept ==
  ASSUME MoneyInv, NEW s, SaveMatch(s) \/ EliminateLoser(s) \/ CloseRound(s)
  PROVE  Kept
<1>1. Sound(db) /\ Shape(db) /\ db.escrow \in Nat
  BY EscrowCovers DEF MoneyInv, Sound, Shape
<1>2. CASE SaveMatch(s)
  BY <1>1, <1>2, decideCalm, EndsKept DEF SaveMatch, Ends
<1>3. CASE EliminateLoser(s)
  BY <1>1, <1>3, eliminateCalm, EndsKept DEF EliminateLoser, Ends
<1>4. CASE CloseRound(s)
  <2>1. db' \in checkRoundComplete(db, sched[s].match) \/ db' = markGroupWinners(db) \/ db' = db
    BY <1>4 DEF CloseRound
  <2>2. Ends(db, db')
    BY <1>1, <2>1, checkRoundCompleteEnds, markGroupWinnersCalm, CalmSelf DEF Ends
  <2> QED
    BY <1>1, <2>2, EndsKept
<1> QED
  BY <1>2, <1>3, <1>4

(* RefundNext and the worker's refund. *)
LEMMA refundKept ==
  ASSUME MoneyInv, (\E u \in Players : refundCancelled(u)) \/ (\E s \in Schedulers : RefundNext(s))
  PROVE  Kept
<1>1. db' = db \/ \E u : db' = refundCancelledParticipant(db, u)
  BY DEF refundCancelled, RefundNext
<1>2. Sound(db) /\ Shape(db)
  BY DEF MoneyInv, Sound
<1>3. CASE db' = db
  BY <1>2, <1>3, CalmSelf, EndsKept DEF Ends
<1>4. CASE \E u : db' = refundCancelledParticipant(db, u)
  BY <1>2, <1>4, refundSound DEF Kept
<1> QED
  BY <1>1, <1>3, <1>4

(* openTournament: a draft has nothing paid out or back. *)
LEMMA openTournamentSound ==
  ASSUME MoneyInv, openTournament
  PROVE  Sound(db') /\ db.t.status \in Coming
<1>1. Sound(db) /\ Shape(db) /\ db.t.status \in Coming
  BY DEF MoneyInv, Sound, openTournament, Coming
<1>2. db' = [db EXCEPT !.t.status = "open"]
  BY DEF openTournament
<1>3. /\ DOMAIN db' = DOMAIN db /\ db'.t = [db.t EXCEPT !.status = "open"] /\ db'.parts = db.parts
      /\ db'.back = db.back /\ db'.money = db.money /\ db'.escrow = db.escrow /\ db'.house = db.house
  BY <1>1, <1>2 DEF Shape
<1>4. /\ DOMAIN db'.t = DOMAIN db.t /\ db'.t.settled = db.t.settled /\ db'.t.winner = db.t.winner
      /\ db'.t.runnerUp = db.t.runnerUp /\ db'.t.count = db.t.count
  BY <1>1, <1>3 DEF Shape
<1>6. Shape(db')
  BY <1>1, <1>3, <1>4 DEF Shape
<1>5. Calm(db, db')
  BY <1>1, <1>3, <1>4, <1>6, StatusCalm
<1> QED
  BY <1>1, <1>5, CalmSound

\* Who comes or goes before the start.
Comes == openTournament \/ (\E u \in Players : register(u)) \/ (\E u \in Players : unregister(u))

(* After every step the books balance; only who comes or goes changes the places,
   and only before the start. *)
LEMMA StepKept ==
  ASSUME MoneyInv, [Next]_vars
  PROVE  Kept \/ (Sound(db') /\ Comes /\ db.t.status \in Coming)
<1>1. CASE UNCHANGED db
  <2>1. Sound(db) /\ Shape(db)
    BY DEF MoneyInv, Sound
  <2> QED
    BY <1>1, <2>1, CalmSelf, EndsKept DEF Ends
<1>2. CASE openTournament
  BY <1>2, openTournamentSound DEF Comes
<1>3. ASSUME NEW u \in Players, register(u)
      PROVE  Sound(db') /\ Comes /\ db.t.status \in Coming
  <2>1. db.t.status \in Coming
    BY <1>3 DEF register, Coming
  <2> QED
    BY <1>3, <2>1, registerSound DEF Comes
<1>4. ASSUME NEW u \in Players, unregister(u)
      PROVE  Sound(db') /\ Comes /\ db.t.status \in Coming
  <2>1. db.t.status \in Coming
    BY <1>4 DEF unregister, Coming
  <2> QED
    BY <1>4, <2>1, unregisterSound DEF Comes
<1>5. CASE cancel
  BY <1>5, cancelKept
<1>6. CASE (\E u \in Players : refundCancelled(u)) \/ (\E s \in Schedulers : RefundNext(s))
  BY <1>6, refundKept
<1>7. CASE \E x \in tx : FinishGame(x)
  BY <1>7, FinishGameKept
<1>8. CASE (\E r \in Rooms : \E w \in Pair(db, r) : LeaveRoom(r, w)) \/ (\E r \in Rooms : EndWithoutWinner(r))
  BY <1>8, RoomEndsKept
<1>9. CASE \E s \in Schedulers : SaveLocking(s) \/ CancelStart(s) \/ Run(s)
  BY <1>9, StatusKept
<1>10. CASE \E s \in Schedulers : generateGroupsAndBrackets(s)
  BY <1>10, generateKept
<1>11. CASE \E s \in Schedulers : ActivateMatch(s) \/ SaveReady(s)
  BY <1>11, ActivateMatchKept
<1>12. CASE \E s \in Schedulers : EndActivation(s)
  BY <1>12, EndActivationKept
<1>13. CASE \E s \in Schedulers : SaveMatch(s) \/ EliminateLoser(s) \/ CloseRound(s)
  BY <1>13, advanceKept
<1>14. CASE \/ StartsAtPasses
            \/ \E r \in Rooms : BeginCommand(r)
            \/ \E x \in tx : AbortCommand(x)
            \/ \E key \in locks : LockExpires(key)
            \/ UNCHANGED vars
  BY <1>1, <1>14 DEF StartsAtPasses, BeginCommand, AbortCommand, LockExpires, vars
<1>15. CASE \E s \in Schedulers :
              \/ ListDue(s) \/ TakeUpStart(s) \/ processBetweenRounds(s) \/ activatePendingFinalsMatches(s)
              \/ ReadMatch(s) \/ SchedulerDies(s)
              \/ \E i \in DOMAIN db.matches : repairStuckMatchesFromFinishedRooms(s, i)
  BY <1>1, <1>15 DEF ListDue, TakeUpStart, processBetweenRounds, activatePendingFinalsMatches, ReadMatch, SchedulerDies,
     repairStuckMatchesFromFinishedRooms
<1> QED
  BY <1>2, <1>3, <1>4, <1>5, <1>6, <1>7, <1>8, <1>9, <1>10, <1>11, <1>12, <1>13, <1>14, <1>15 DEF Next

(* The jobs keep their names. *)
LEMMA SchedStep ==
  ASSUME DOMAIN sched = Schedulers, [Next]_vars
  PROVE  \/ UNCHANGED sched
         \/ \E s \in Schedulers : \E job : sched' = [sched EXCEPT ![s] = job]
<1>1. ASSUME NEW s, NEW key, NEW job, Acquire(s, key, job)
      PROVE  \E j : sched' = [sched EXCEPT ![s] = j]
  BY <1>1 DEF Acquire
<1>2. ASSUME NEW s, End(s)
      PROVE  \E j : sched' = [sched EXCEPT ![s] = j]
  BY <1>2 DEF End
<1>3. ASSUME NEW s, NEW job, Step(s, job)
      PROVE  \E j : sched' = [sched EXCEPT ![s] = j]
  BY <1>3 DEF Step
<1>4. CASE \/ openTournament \/ StartsAtPasses \/ cancel
           \/ \E u \in Players : register(u) \/ unregister(u) \/ refundCancelled(u)
           \/ \E r \in Rooms : BeginCommand(r) \/ EndWithoutWinner(r) \/ \E w \in Pair(db, r) : LeaveRoom(r, w)
           \/ \E x \in tx : FinishGame(x) \/ AbortCommand(x)
           \/ \E key \in locks : LockExpires(key)
           \/ UNCHANGED vars
  BY <1>4 DEF openTournament, StartsAtPasses, cancel, register, unregister, refundCancelled, BeginCommand,
     EndWithoutWinner, LeaveRoom, FinishGame, AbortCommand, LockExpires, vars
<1>5. ASSUME NEW s \in Schedulers,
             \/ ListDue(s) \/ TakeUpStart(s) \/ SaveLocking(s) \/ CancelStart(s) \/ RefundNext(s)
             \/ generateGroupsAndBrackets(s) \/ Run(s)
      PROVE  \E j : sched' = [sched EXCEPT ![s] = j]
  BY <1>1, <1>2, <1>3, <1>5 DEF ListDue, TakeUpStart, SaveLocking, CancelStart, RefundNext, generateGroupsAndBrackets, Run
<1>6. ASSUME NEW s \in Schedulers,
             \/ processBetweenRounds(s) \/ activatePendingFinalsMatches(s) \/ ActivateMatch(s) \/ SaveReady(s)
             \/ EndActivation(s)
             \/ \E i \in DOMAIN db.matches : repairStuckMatchesFromFinishedRooms(s, i)
      PROVE  \E j : sched' = [sched EXCEPT ![s] = j]
  BY <1>1, <1>2, <1>3, <1>6 DEF processBetweenRounds, activatePendingFinalsMatches, ActivateMatch, SaveReady,
     EndActivation, repairStuckMatchesFromFinishedRooms
<1>7. ASSUME NEW s \in Schedulers,
             ReadMatch(s) \/ SaveMatch(s) \/ EliminateLoser(s) \/ CloseRound(s) \/ SchedulerDies(s)
      PROVE  \E j : sched' = [sched EXCEPT ![s] = j]
  BY <1>2, <1>3, <1>7 DEF ReadMatch, SaveMatch, EliminateLoser, CloseRound, SchedulerDies, Return
<1> QED
  BY <1>4, <1>5, <1>6, <1>7 DEF Next

(* While users come and go nothing is played, and no job is past its lock. *)
LEMMA WaitingStep ==
  ASSUME MoneyInv, [Next]_vars, db.t.status \in Coming, db'.t.status \in Coming
  PROVE  Waiting'
<1>1. /\ db.rooms = <<>> /\ db.matches = <<>> /\ tx = {} /\ DOMAIN sched = Schedulers
      /\ \A s \in Schedulers : sched[s].step \in {"idle", "listed", "locking"}
      /\ Rooms = {} /\ DOMAIN db.matches = {}
  BY DEF MoneyInv, Waiting, Rooms
<1>2. CASE Comes
  <2>1. UNCHANGED <<tx, sched>>
    BY <1>2 DEF Comes, openTournament, register, unregister
  <2>2. DOMAIN db = {"t", "parts", "back", "matches", "rooms", "money", "escrow", "house"}
    BY DEF MoneyInv, Sound, Shape
  <2>3. db'.rooms = db.rooms /\ db'.matches = db.matches
    <3>1. CASE openTournament
      BY <2>2, <3>1 DEF openTournament
    <3>2. ASSUME NEW u \in Players, register(u)
          PROVE  db'.rooms = db.rooms /\ db'.matches = db.matches
      BY <2>2, <3>2 DEF register, Move
    <3>3. ASSUME NEW u \in Players, unregister(u)
          PROVE  db'.rooms = db.rooms /\ db'.matches = db.matches
      BY <2>2, <3>3 DEF unregister, Move
    <3> QED
      BY <1>2, <3>1, <3>2, <3>3 DEF Comes
  <2> QED
    BY <1>1, <2>1, <2>3 DEF Waiting
<1>3. CASE StartsAtPasses \/ (\E key \in locks : LockExpires(key)) \/ UNCHANGED vars
  BY <1>1, <1>3 DEF StartsAtPasses, LockExpires, vars, Waiting
<1>4. ASSUME cancel \/ \E u \in Players : refundCancelled(u)
      PROVE  FALSE
  <2>1. CASE cancel
    BY <2>1 DEF cancel, Coming, MoneyInv, Sound, Shape
  <2>2. CASE \E u \in Players : refundCancelled(u)
    BY <2>2 DEF refundCancelled, refundCancelledParticipant, Coming
  <2> QED
    BY <1>4, <2>1, <2>2
<1>5. ASSUME \/ \E r \in Rooms : BeginCommand(r) \/ EndWithoutWinner(r) \/ \E w \in Pair(db, r) : LeaveRoom(r, w)
             \/ \E x \in tx : FinishGame(x) \/ AbortCommand(x)
             \/ \E s \in Schedulers : \E i \in DOMAIN db.matches : repairStuckMatchesFromFinishedRooms(s, i)
      PROVE  FALSE
  BY <1>1, <1>5
<1>6. ASSUME NEW s \in Schedulers, processBetweenRounds(s) \/ activatePendingFinalsMatches(s)
      PROVE  FALSE
  BY <1>6 DEF processBetweenRounds, activatePendingFinalsMatches, Coming
<1>7. ASSUME NEW s \in Schedulers,
             \/ CancelStart(s) \/ RefundNext(s) \/ generateGroupsAndBrackets(s) \/ Run(s) \/ ActivateMatch(s)
             \/ SaveReady(s) \/ EndActivation(s) \/ ReadMatch(s) \/ SaveMatch(s) \/ EliminateLoser(s) \/ CloseRound(s)
      PROVE  FALSE
  BY <1>1, <1>7 DEF CancelStart, RefundNext, generateGroupsAndBrackets, Run, ActivateMatch, SaveReady, EndActivation, ReadMatch,
     SaveMatch, EliminateLoser, CloseRound
<1>8. ASSUME NEW s \in Schedulers, SaveLocking(s)
      PROVE  FALSE
  BY <1>8 DEF SaveLocking, Coming, MoneyInv, Sound, Shape
<1>9. ASSUME NEW s \in Schedulers, ListDue(s) \/ TakeUpStart(s) \/ SchedulerDies(s)
      PROVE  Waiting'
  <2> DEFINE listed == [Idle EXCEPT !.step = "listed"]
             locking == [[Idle EXCEPT !.step = "locking", !.fresh = db.t] EXCEPT !.key = TournamentKey]
  <2>1. Idle.step = "idle" /\ listed.step = "listed" /\ locking.step = "locking"
    BY DEF Idle
  <2>3. \/ sched' = [sched EXCEPT ![s] = Idle]
        \/ sched' = [sched EXCEPT ![s] = listed]
        \/ sched' = [sched EXCEPT ![s] = locking]
    BY <1>9 DEF ListDue, TakeUpStart, SchedulerDies, Acquire, Step, End
  <2> HIDE DEF listed, locking
  <2>2. UNCHANGED <<db, tx>>
    BY <1>9 DEF ListDue, TakeUpStart, SchedulerDies
  <2>4. PICK job : sched' = [sched EXCEPT ![s] = job] /\ job.step \in {"idle", "listed", "locking"}
    BY <2>1, <2>3
  <2> QED
    BY <1>1, <2>2, <2>4 DEF Waiting
<1> QED
  BY <1>2, <1>3, <1>4, <1>5, <1>6, <1>7, <1>8, <1>9 DEF Next, Comes

(* What a command has read is, seat by seat, what is there. *)
LEMMA SeenStep ==
  ASSUME MoneyInv, [Next]_vars
  PROVE  Seen'
<1>1. \/ tx' \subseteq tx
      \/ \E r \in Rooms : BeginCommand(r)
  BY DEF Next, openTournament, StartsAtPasses, cancel, register, unregister, refundCancelled, FinishGame, AbortCommand,
     LeaveRoom, EndWithoutWinner, ListDue, TakeUpStart, SaveLocking, CancelStart, RefundNext, generateGroupsAndBrackets,
     Run, processBetweenRounds, activatePendingFinalsMatches, ActivateMatch, SaveReady,
     EndActivation, repairStuckMatchesFromFinishedRooms, ReadMatch, SaveMatch, EliminateLoser, CloseRound, SchedulerDies, LockExpires, vars
<1>2. CASE tx' \subseteq tx
  <2>1. CASE Kept
    BY <1>2, <2>1 DEF MoneyInv, Seen, Kept, SameSeats
  <2>2. CASE db.t.status \in Coming
    BY <1>2, <2>2 DEF MoneyInv, Waiting, Seen
  <2> QED
    BY <2>1, <2>2, StepKept
<1>3. CASE \E r \in Rooms : BeginCommand(r)
  <2>1. PICK r : tx' = tx \cup {[room |-> r, read |-> db]} /\ db' = db
    BY <1>3 DEF BeginCommand
  <2>2. Shape(db) /\ db.escrow \in Nat /\ SameSeats(db, db)
    BY EscrowCovers DEF MoneyInv, Sound, Shape, SameSeats
  <2> QED
    BY <2>1, <2>2 DEF MoneyInv, Seen
<1> QED
  BY <1>1, <1>2, <1>3

(* The start: nobody has registered. *)
LEMMA MoneyInit ==
  ASSUME Init
  PROVE  MoneyInv
<1>1. /\ db.parts = <<>> /\ db.back = {} /\ db.escrow = 0 /\ db.house = 0 /\ db.t.settled = FALSE
      /\ db.money = [u \in Players |-> Stake] /\ db.t.count = 0 /\ db.t.status = "draft"
      /\ db.rooms = <<>> /\ db.matches = <<>> /\ tx = {} /\ sched = [s \in Schedulers |-> Idle]
      /\ DOMAIN db = {"t", "parts", "back", "matches", "rooms", "money", "escrow", "house"}
      /\ DOMAIN db.t = {"status", "count", "finals", "round", "settled", "winner", "runnerUp"}
  BY DEF Init
<1>2. Registered(db) = {} /\ Single(db)
  BY <1>1 DEF Registered, Single
<1>3. Shape(db)
  <2>1. db.parts \in Seq(Participant)
    BY <1>1
  <2>2. db.money \in [Players -> Int] /\ db.escrow \in Int /\ db.house \in Int
    BY <1>1, Numbers
  <2> QED
    BY <1>1, <2>1, <2>2 DEF Shape
<1>4. Books(db)
  <2>1. Registered(db) \ db.back = {}
    BY <1>2
  <2>2. Stake * Cardinality({}) = 0
    BY FS_EmptySet, Numbers
  <2>3. \A u \in Players : db.money[u] = Stake + 0
    BY <1>1, Numbers
  <2> QED
    BY <1>1, <2>1, <2>2, <2>3 DEF Books
<1>5. Waiting /\ Seen /\ DOMAIN sched = Schedulers
  BY <1>1 DEF Waiting, Seen, Idle
<1> QED
  BY <1>1, <1>2, <1>3, <1>4, <1>5 DEF MoneyInv, Sound, Early

(* Every step keeps the invariant. *)
LEMMA MoneyStep ==
  ASSUME MoneyInv, [Next]_vars
  PROVE  MoneyInv'
<1>1. Sound(db)'
  BY StepKept DEF Kept
<1>2. Waiting'
  <2>1. db'.t.status \in Coming => db.t.status \in Coming
    BY StepKept DEF Kept
  <2> QED
    BY <2>1, WaitingStep DEF Waiting
<1>3. Seen'
  BY SeenStep
<1>4. DOMAIN sched' = Schedulers
  BY SchedStep DEF MoneyInv
<1> QED
  BY <1>1, <1>2, <1>3, <1>4 DEF MoneyInv

(* BooksBalance: for any number of users, schedulers and commands, any stake and
   split of the prizes, and every trouble, each of them at any time: the escrow is
   the stakes of those who were not refunded until the prizes take it, everybody is
   out of pocket by his own stake alone, and the prizes and the fee are the pot. *)
THEOREM TournamentBooksBalance == Spec => []BooksBalance
<1>1. Init => MoneyInv
  BY MoneyInit
<1>2. MoneyInv /\ [Next]_vars => MoneyInv'
  BY MoneyStep
<1>3. MoneyInv => BooksBalance
  <2> SUFFICES ASSUME MoneyInv
               PROVE  BooksBalance
    OBVIOUS
  <2>1. Shape(db) /\ Books(db)
    BY DEF MoneyInv, Sound
  <2>2. DOMAIN db.money = Players
    BY <2>1 DEF Shape
  <2> QED
    BY <2>1, <2>2 DEF Books, BooksBalance, PrizesOf
<1> QED  BY <1>1, <1>2, <1>3, PTL DEF Spec
----------------------------------------------------------------------------
(* The documents of the bracket. *)

MatchFields == {"group", "name", "round", "a", "b", "status", "winner", "loser", "room"}
RoomFields == {"match", "open", "winner"}
Docs(s, F) == s \in Seq({s[i] : i \in DOMAIN s}) /\ \A i \in DOMAIN s : DOMAIN s[i] = F
\* Two players, who meet in a room; else a bye or nobody.
Full(m) == Cardinality({m.a, m.b} \ {None}) = 2
Other(m, w) == IF m.a = w THEN m.b ELSE m.a
\* A match that nobody has touched.
Fresh(m) == m.status = "pending" /\ m.winner = None /\ m.room = 0

\* u has won match i: he had no opponent, or a room of it ended with him as the winner.
Earned(d, i, u) ==
  \/ ~Full(d.matches[i]) /\ u \in {d.matches[i].a, d.matches[i].b} \ {None}
  \/ \E r \in DOMAIN d.rooms : d.rooms[r].match = i /\ ~d.rooms[r].open /\ d.rooms[r].winner = u

\* Rooms are for matches of two, and for them only. A match that is ready has its
\* room; whoever is its winner has won it.
RoomOk(d, r) ==
  LET i == d.rooms[r].match
  IN /\ i \in DOMAIN d.matches /\ Full(d.matches[i])
     /\ d.rooms[r].winner \in {None, d.matches[i].a, d.matches[i].b}
MatchOk(d, i) ==
  LET m == d.matches[i]
  IN /\ m.room # 0 => m.room \in DOMAIN d.rooms /\ d.rooms[m.room].match = i
     /\ m.status = "ready" => m.room # 0
     /\ m.winner # None => Earned(d, i, m.winner) /\ m.loser = Other(m, m.winner)
     /\ Decided(m) => m.winner # None
Bracket(d) ==
  /\ Docs(d.matches, MatchFields) /\ Docs(d.rooms, RoomFields)
  /\ \A r \in DOMAIN d.rooms : RoomOk(d, r)
  /\ \A i \in DOMAIN d.matches : MatchOk(d, i)

(* A sequence is a function on the numbers up to its length. *)
LEMMA SeqLength ==
  ASSUME NEW S, NEW s \in Seq(S)
  PROVE  Len(s) \in Nat /\ DOMAIN s = 1..Len(s) /\ s = [i \in 1..Len(s) |-> s[i]]
OBVIOUS

(* A list of documents is a function on the numbers up to its length. *)
LEMMA DocsLength ==
  ASSUME NEW s, NEW F, Docs(s, F)
  PROVE  /\ Len(s) \in Nat /\ DOMAIN s = 1..Len(s) /\ s = [i \in 1..Len(s) |-> s[i]]
         /\ DOMAIN s \subseteq Nat
BY DEF Docs

(* A function on the numbers up to n whose values have the fields is a list of documents. *)
LEMMA DocsMade ==
  ASSUME NEW n \in Nat, NEW s, s = [i \in 1..n |-> s[i]], NEW F, \A i \in 1..n : DOMAIN s[i] = F
  PROVE  Docs(s, F) /\ Len(s) = n /\ DOMAIN s = 1..n
<1> DEFINE S == {s[i] : i \in 1..n}
<1>1. DOMAIN s = 1..n
  OBVIOUS
<1>2. s \in [1..n -> S]
  OBVIOUS
<1> HIDE DEF S
<1>3. s \in Seq(S) /\ Len(s) = n
  BY <1>2
<1> QED
  BY <1>1, <1>3 DEF Docs, S

(* One document after the other. *)
LEMMA DocsConcat ==
  ASSUME NEW s, NEW t, NEW F, Docs(s, F), Docs(t, F)
  PROVE  /\ Docs(s \o t, F) /\ DOMAIN (s \o t) = 1..(Len(s) + Len(t))
         /\ \A i \in DOMAIN s : (s \o t)[i] = s[i]
         /\ \A i \in DOMAIN (s \o t) \ DOMAIN s : \E j \in DOMAIN t : (s \o t)[i] = t[j]
<1> DEFINE S == {s[i] : i \in DOMAIN s} \cup {t[i] : i \in DOMAIN t}
           n == Len(s) + Len(t)
<1>1. /\ Len(s) \in Nat /\ Len(t) \in Nat /\ DOMAIN s = 1..Len(s) /\ DOMAIN t = 1..Len(t)
      /\ s = [i \in 1..Len(s) |-> s[i]] /\ t = [i \in 1..Len(t) |-> t[i]]
  BY DocsLength
<1>2. s \in [1..Len(s) -> S] /\ t \in [1..Len(t) -> S]
  <2>1. \A i \in 1..Len(s) : s[i] \in S
    BY <1>1
  <2>2. \A i \in 1..Len(t) : t[i] \in S
    BY <1>1
  <2> HIDE DEF S
  <2> QED
    BY <1>1, <2>1, <2>2
<1> HIDE DEF S
<1>3. s \in Seq(S) /\ t \in Seq(S)
  BY <1>1, <1>2
<1>4. /\ s \o t \in Seq(S) /\ Len(s \o t) = n
      /\ \A i \in 1..n : (s \o t)[i] = IF i <= Len(s) THEN s[i] ELSE t[i - Len(s)]
  BY <1>3, ConcatProperties, Zenon
<1> DEFINE u == s \o t
<1>5. DOMAIN u = 1..n /\ u = [i \in 1..n |-> u[i]] /\ n \in Nat
  BY <1>1, <1>4, SeqLength
<1> HIDE DEF u
<1>6. \A i \in DOMAIN s : i \in 1..n /\ u[i] = s[i]
  BY <1>1, <1>4 DEF u
<1>7. ASSUME NEW i \in 1..n, i \notin DOMAIN s
      PROVE  \E j \in DOMAIN t : u[i] = t[j]
  <2>1. i - Len(s) \in DOMAIN t /\ ~(i <= Len(s))
    BY <1>1, <1>7
  <2> QED
    BY <1>4, <2>1 DEF u
<1>8. \A i \in 1..n : DOMAIN u[i] = F
  BY <1>6, <1>7 DEF Docs
<1> QED
  BY <1>5, <1>6, <1>7, <1>8, DocsMade DEF u

(* One document is written. *)
LEMMA DocsChanged ==
  ASSUME NEW s, NEW F, Docs(s, F), NEW k, NEW v, DOMAIN v = F, NEW e, e = [s EXCEPT ![k] = v]
  PROVE  Docs(e, F) /\ DOMAIN e = DOMAIN s /\ Len(e) = Len(s)
<1>1. Len(s) \in Nat /\ DOMAIN s = 1..Len(s) /\ s = [i \in 1..Len(s) |-> s[i]]
  BY DocsLength
<1>2. DOMAIN e = 1..Len(s) /\ e = [i \in 1..Len(s) |-> e[i]]
  BY <1>1
<1>3. \A i \in 1..Len(s) : DOMAIN e[i] = F
  BY <1>1 DEF Docs
<1>4. Docs(e, F) /\ Len(e) = Len(s) /\ DOMAIN e = 1..Len(s)
  BY ONLY <1>1, <1>2, <1>3, DocsMade
<1> QED
  BY <1>1, <1>4

(* One document is inserted. *)
LEMMA DocsAppended ==
  ASSUME NEW s, NEW F, Docs(s, F), NEW v, DOMAIN v = F
  PROVE  /\ Docs(Append(s, v), F) /\ Len(s) + 1 \notin DOMAIN s
         /\ DOMAIN Append(s, v) = DOMAIN s \cup {Len(s) + 1} /\ Append(s, v)[Len(s) + 1] = v
         /\ \A i \in DOMAIN s : Append(s, v)[i] = s[i]
<1>1. Len(s) \in Nat /\ DOMAIN s = 1..Len(s)
  BY DocsLength
<1> DEFINE S == {s[i] : i \in DOMAIN s} \cup {v}
<1>2. s \in Seq(S)
  <2>1. s \in [1..Len(s) -> S]
    BY <1>1, DocsLength
  <2> HIDE DEF S
  <2> QED
    BY <1>1, <2>1
<1>3. v \in S
  OBVIOUS
<1> HIDE DEF S
<1> DEFINE u == Append(s, v)
<1>4. u \in Seq(S) /\ Len(u) = Len(s) + 1 /\ u[Len(s) + 1] = v /\ \A i \in 1..Len(s) : u[i] = s[i]
  BY <1>2, <1>3, <1>1
<1>5. DOMAIN u = 1..(Len(s) + 1) /\ u = [i \in 1..(Len(s) + 1) |-> u[i]]
  BY <1>1, <1>4, SeqLength
<1> HIDE DEF u
<1>6. \A i \in 1..(Len(s) + 1) : DOMAIN u[i] = F
  <2>1. \A i \in 1..(Len(s) + 1) : i \in 1..Len(s) \/ i = Len(s) + 1
    BY <1>1
  <2> QED
    BY <1>1, <1>4, <2>1 DEF Docs
<1>7. DOMAIN u = DOMAIN s \cup {Len(s) + 1} /\ Len(s) + 1 \notin DOMAIN s
  BY <1>1, <1>5
<1>8. Docs(u, F)
  BY <1>1, <1>5, <1>6, DocsMade
<1> QED
  BY <1>1, <1>4, <1>7, <1>8 DEF u

(* The end of a list. *)
LEMMA DocsRest ==
  ASSUME NEW s, NEW F, Docs(s, F), NEW m \in Nat, m <= Len(s)
  PROVE  LET t == SubSeq(s, m + 1, Len(s))
         IN Docs(t, F) /\ \A i \in DOMAIN t : \E j \in DOMAIN s : j > m /\ t[i] = s[j]
<1>1. Len(s) \in Nat /\ DOMAIN s = 1..Len(s)
  BY DocsLength
<1> DEFINE n == Len(s) - m
           t == SubSeq(s, m + 1, Len(s))
<1>2. n \in Nat
  BY <1>1
<1>3. t = [i \in 1..n |-> s[m + i]]
  BY <1>1
<1> HIDE DEF t
<1>4. \A i \in 1..n : m + i \in DOMAIN s /\ m + i > m /\ t[i] = s[m + i]
  BY <1>1, <1>2, <1>3
<1>5. DOMAIN t = 1..n /\ t = [i \in 1..n |-> t[i]]
  BY <1>3
<1>7. \A i \in 1..n : DOMAIN t[i] = F
  BY <1>4 DEF Docs
<1>6. Docs(t, F)
  BY <1>2, <1>5, <1>7, DocsMade
<1> QED
  BY <1>4, <1>5, <1>6 DEF t

(* The status of a match that has its result. *)
LEMMA DecidedStatus ==
  ASSUME NEW m
  PROVE  Decided(m) => m.status # "pending" /\ m.status # "ready"
BY DEF Decided

\* A match keeps its place in the bracket and its players.
SamePlace(m, n) == n.name = m.name /\ n.group = m.group /\ n.a = m.a /\ n.b = m.b

\* Match i gets its result, w has won; the other documents stay as they are.
Decides(d, e, i, w) ==
  /\ Docs(e.matches, MatchFields) /\ DOMAIN e.matches = DOMAIN d.matches /\ e.rooms = d.rooms
  /\ \A j \in DOMAIN d.matches : j # i => e.matches[j] = d.matches[j]
  /\ Decided(e.matches[i]) /\ SamePlace(d.matches[i], e.matches[i])
  /\ e.matches[i].winner = w /\ e.matches[i].loser = Other(d.matches[i], w)
  /\ e.matches[i].room = d.matches[i].room

(* decide. *)
LEMMA decideDocs ==
  ASSUME NEW d, {"matches", "rooms"} \subseteq DOMAIN d, Docs(d.matches, MatchFields),
         NEW i \in DOMAIN d.matches, NEW w, NEW reason
  PROVE  Decides(d, decide(d, i, w, reason), i, w)
<1> DEFINE m == d.matches[i]
           loser == IF m.a = w THEN m.b ELSE m.a
           status == IF reason = "normal" THEN "finished" ELSE "forfeited"
           n == [[[m EXCEPT !.winner = w] EXCEPT !.loser = loser] EXCEPT !.status = status]
           ms == [d.matches EXCEPT ![i] = n]
           e == decide(d, i, w, reason)
<1>1. DOMAIN m = MatchFields
  BY DEF Docs
<1> HIDE DEF m
<1>2. /\ DOMAIN n = MatchFields /\ n.status = status /\ SamePlace(m, n)
      /\ n.winner = w /\ n.loser = loser /\ n.room = m.room
  BY <1>1 DEF MatchFields, SamePlace
<1>3. Decided(n) /\ loser = Other(m, w)
  BY <1>2 DEF Decided, Other
<1> HIDE DEF loser, status
<1>4. e.matches = ms /\ e.rooms = d.rooms
  BY <1>1 DEF decide, MatchFields, m, loser, status
<1> HIDE DEF n, e
<1>5. Docs(ms, MatchFields) /\ DOMAIN ms = DOMAIN d.matches
  BY <1>2, DocsChanged
<1>6. ms[i] = n /\ \A j \in DOMAIN d.matches : j # i => ms[j] = d.matches[j]
  OBVIOUS
<1> HIDE DEF ms
<1> QED
  BY <1>2, <1>3, <1>4, <1>5, <1>6 DEF Decides, m, e

\* New matches come at the end, and nobody has touched them.
Grows(d, e) ==
  /\ e.rooms = d.rooms
  /\ \/ e.matches = d.matches
     \/ \E f : /\ Docs(f, MatchFields) /\ \A j \in DOMAIN f : Fresh(f[j])
               /\ e.matches = d.matches \o f

(* markGroupWinners, Marked and eliminate write participants only. *)
LEMMA MarkedGrows ==
  ASSUME NEW d, {"parts", "matches", "rooms"} \subseteq DOMAIN d, NEW u, NEW status, NEW i, NEW reason
  PROVE  /\ LET e == Marked(d, u, status) IN DOMAIN e = DOMAIN d /\ e.matches = d.matches /\ e.rooms = d.rooms
         /\ LET e == markGroupWinners(d) IN DOMAIN e = DOMAIN d /\ e.matches = d.matches /\ e.rooms = d.rooms
         /\ LET e == eliminate(d, i, reason) IN DOMAIN e = DOMAIN d /\ e.matches = d.matches /\ e.rooms = d.rooms
BY DEF Marked, markGroupWinners, eliminate

(* settleTournament writes no match. *)
LEMMA settleTournamentGrows ==
  ASSUME NEW d, DOMAIN d = {"t", "parts", "back", "matches", "rooms", "money", "escrow", "house"},
         NEW w, NEW l, NEW e \in settleTournament(d, w, l)
  PROVE  e.matches = d.matches /\ e.rooms = d.rooms
<1> DEFINE n == Marked(d, w, "winner")
           m == Marked(n, l, "runner_up")
<1>1. DOMAIN n = DOMAIN d /\ n.matches = d.matches /\ n.rooms = d.rooms
  BY MarkedGrows
<1> HIDE DEF n
<1>2. DOMAIN m = DOMAIN d /\ m.matches = d.matches /\ m.rooms = d.rooms
  BY <1>1, MarkedGrows
<1> HIDE DEF m
<1>3. CASE d.t.settled \/ d.t.status = "cancelled"
  BY <1>3 DEF settleTournament
<1>4. CASE ~(d.t.settled \/ d.t.status = "cancelled")
  <2> DEFINE pot == d.escrow
             fee == (pot * Fee) \div 100
             first == (pot * First) \div 100
  <2>1. e = [m EXCEPT !.t.status = "finished", !.t.settled = TRUE, !.t.winner = w, !.t.runnerUp = l,
                      !.escrow = 0, !.house = @ + fee, !.money[w] = @ + first, !.money[l] = @ + pot - fee - first]
    BY <1>4 DEF settleTournament, m, n
  <2> HIDE DEF pot, fee, first
  <2> QED
    BY <1>2, <2>1
<1> QED
  BY <1>3, <1>4

(* handleGroupFinalsComplete inserts the finals, between players who are not known to
   it to be two. *)
LEMMA handleGroupFinalsCompleteGrows ==
  ASSUME NEW d, Shape(d), NEW e \in handleGroupFinalsComplete(d)
  PROVE  Grows(d, e)
<1> DEFINE winners == BySeed(d, With(d, "group_winner"))
           finals == buildFinalsDefs(winners)
<1>1. Len(winners) \in Nat
  <2> DEFINE places == With(d, "group_winner")
  <2>1. IsFiniteSet(places) /\ Cardinality(places) \in Nat
    <3>1. DOMAIN d.parts = 1..Len(d.parts) /\ Len(d.parts) \in Nat
      BY DEF Shape
    <3>2. IsFiniteSet(DOMAIN d.parts) /\ places \subseteq DOMAIN d.parts
      BY <3>1, FS_Interval DEF With
    <3> QED
      BY <3>2, FS_Subset, FS_CardinalityType
  <2> HIDE DEF places
  <2> QED
    BY <2>1 DEF BySeed, places
<1> HIDE DEF winners
<1>2. Docs(finals, MatchFields) /\ \A j \in DOMAIN finals : Fresh(finals[j])
  <2>1. (Len(winners) \div 2) \in Nat
    BY <1>1
  <2> DEFINE k == Len(winners) \div 2
  <2>2. \A x1, x2, x3, x4, x5 : LET m == Match(x1, x2, x3, x4, x5) IN DOMAIN m = MatchFields /\ Fresh(m)
    BY DEF Match, MatchFields, Fresh
  <2>3. /\ finals = [j \in 1..k |-> finals[j]]
        /\ \A j \in 1..k : \E x1, x2, x3, x4, x5 : finals[j] = Match(x1, x2, x3, x4, x5)
    BY DEF buildFinalsDefs
  <2> HIDE DEF k, finals
  <2>4. \A j \in 1..k : DOMAIN finals[j] = MatchFields /\ Fresh(finals[j])
    BY <2>2, <2>3
  <2> QED
    BY <2>1, <2>3, <2>4, DocsMade DEF k
<1> HIDE DEF finals
<1>3. \/ e = [d EXCEPT !.t.status = "between_rounds"]
      \/ \E w, l : e \in settleTournament(d, w, l)
      \/ Drawn(d, e, d.matches \o finals)
  BY DEF handleGroupFinalsComplete, Drawn, finals, winners
<1>4. DOMAIN d = {"t", "parts", "back", "matches", "rooms", "money", "escrow", "house"}
  BY DEF Shape
<1>5. CASE e = [d EXCEPT !.t.status = "between_rounds"]
  BY <1>4, <1>5 DEF Grows
<1>6. CASE \E w, l : e \in settleTournament(d, w, l)
  BY <1>4, <1>6, settleTournamentGrows DEF Grows
<1>7. CASE Drawn(d, e, d.matches \o finals)
  <2>1. e.matches = d.matches \o finals /\ e.rooms = d.rooms
    BY <1>4, <1>7 DEF Drawn
  <2> QED
    BY <1>2, <2>1 DEF Grows
<1> QED
  BY <1>3, <1>5, <1>6, <1>7

(* checkRoundComplete writes no match that is there. *)
LEMMA checkRoundCompleteGrows ==
  ASSUME NEW d, Shape(d), NEW i, NEW e \in checkRoundComplete(d, i)
  PROVE  Grows(d, e)
<1>1. DOMAIN d = {"t", "parts", "back", "matches", "rooms", "money", "escrow", "house"}
  BY DEF Shape
<1>2. \/ e = d
      \/ e \in settleTournament(d, d.matches[i].winner, d.matches[i].loser)
      \/ e \in handleGroupFinalsComplete(markGroupWinners(d))
      \/ e = [d EXCEPT !.t.status = "between_rounds"]
  BY DEF checkRoundComplete
<1>3. CASE e = d \/ e = [d EXCEPT !.t.status = "between_rounds"]
  BY <1>1, <1>3 DEF Grows
<1>4. CASE e \in settleTournament(d, d.matches[i].winner, d.matches[i].loser)
  BY <1>1, <1>4, settleTournamentGrows DEF Grows
<1>5. CASE e \in handleGroupFinalsComplete(markGroupWinners(d))
  <2> DEFINE m == markGroupWinners(d)
  <2>1. Shape(m) /\ m.matches = d.matches /\ m.rooms = d.rooms
    BY <1>1, markGroupWinnersCalm, MarkedGrows DEF Calm
  <2> HIDE DEF m
  <2>2. Grows(m, e)
    BY <1>5, <2>1, handleGroupFinalsCompleteGrows DEF m
  <2> QED
    BY <2>1, <2>2 DEF Grows
<1> QED
  BY <1>2, <1>3, <1>4, <1>5

(* advanceWinner: one match that had no result gets it, or none does. *)
LEMMA advanceWinnerDocs ==
  ASSUME NEW d, Shape(d), Docs(d.matches, MatchFields), NEW i \in DOMAIN d.matches, NEW w, NEW reason,
         NEW e \in advanceWinner(d, i, w, reason)
  PROVE  e = d \/ (~Decided(d.matches[i]) /\ \E f : Decides(d, f, i, w) /\ Grows(f, e))
<1> DEFINE f == decide(d, i, w, reason)
           g == eliminate(f, i, reason)
<1>1. e = d \/ (~Decided(d.matches[i]) /\ e \in checkRoundComplete(g, i))
  BY DEF advanceWinner
<1>2. Shape(f) /\ Decides(d, f, i, w)
  BY decideCalm, decideDocs DEF Calm, Shape
<1> HIDE DEF f
<1>3. Shape(g) /\ g.matches = f.matches /\ g.rooms = f.rooms
  <2>1. {"parts", "matches", "rooms"} \subseteq DOMAIN f
    BY <1>2 DEF Shape
  <2>2. g.matches = f.matches /\ g.rooms = f.rooms
    BY <2>1, MarkedGrows
  <2>3. Shape(g)
    BY <1>2, eliminateCalm DEF Calm
  <2> QED
    BY <2>2, <2>3
<1> HIDE DEF g
<1>4. e \in checkRoundComplete(g, i) => Grows(f, e)
  <2>1. e \in checkRoundComplete(g, i) => Grows(g, e)
    BY <1>3, checkRoundCompleteGrows
  <2> QED
    BY <1>3, <2>1 DEF Grows
<1> QED
  BY <1>1, <1>2, <1>4

----------------------------------------------------------------------------
(* What a step does to the matches and the rooms. *)

\* Matches keep their players, rooms their matches; a room that is over stays so.
Grown(d, e) ==
  /\ DOMAIN d.matches \subseteq DOMAIN e.matches /\ DOMAIN d.rooms \subseteq DOMAIN e.rooms
  /\ \A i \in DOMAIN d.matches : SamePlace(d.matches[i], e.matches[i])
  /\ \A r \in DOMAIN d.rooms :
       /\ e.rooms[r].match = d.rooms[r].match
       /\ ~d.rooms[r].open => ~e.rooms[r].open /\ e.rooms[r].winner = d.rooms[r].winner

\* The result of a match stands: what ResultStands says of it.
OneRoom(d, i) == \A r, q \in DOMAIN d.rooms : d.rooms[r].match = i /\ d.rooms[q].match = i => r = q
Unplayed(d, i) == \A r \in DOMAIN d.rooms : d.rooms[r].match # i
Lasts(d, e, i) ==
  LET m == d.matches[i]
      n == e.matches[i]
  IN m.winner # None /\ OneRoom(e, i) =>
       /\ n.winner = m.winner /\ n.loser = m.loser
       /\ Decided(m) /\ (m.room # 0 \/ Unplayed(e, i)) => Decided(n)

\* A match keeps its room, unless it is saved with room R.
Moves(d, e, R) ==
  /\ Bracket(e) /\ Grown(d, e)
  /\ \A i \in DOMAIN d.matches :
       /\ Lasts(d, e, i)
       /\ e.matches[i].room = d.matches[i].room \/ (R # 0 /\ e.matches[i].room = R)

(* Two players stay two players. *)
LEMMA SameFull ==
  ASSUME NEW m, NEW n, SamePlace(m, n)
  PROVE  Full(n) = Full(m)
BY DEF Full, SamePlace

(* Who has won a match has won it for good. *)
LEMMA EarnedStays ==
  ASSUME NEW d, NEW e, Grown(d, e), NEW i \in DOMAIN d.matches, NEW u, Earned(d, i, u)
  PROVE  Earned(e, i, u)
<1>1. Full(e.matches[i]) = Full(d.matches[i]) /\ SamePlace(d.matches[i], e.matches[i])
  BY SameFull DEF Grown
<1>2. CASE ~Full(d.matches[i]) /\ u \in {d.matches[i].a, d.matches[i].b} \ {None}
  BY <1>1, <1>2 DEF Earned, SamePlace
<1>3. CASE \E r \in DOMAIN d.rooms : d.rooms[r].match = i /\ ~d.rooms[r].open /\ d.rooms[r].winner = u
  BY <1>3 DEF Earned, Grown
<1> QED
  BY <1>2, <1>3 DEF Earned

(* Of some who are not two, one at most is somebody. *)
LEMMA OneAtMost ==
  ASSUME NEW m, ~Full(m), NEW u \in {m.a, m.b} \ {None}, NEW v \in {m.a, m.b} \ {None}
  PROVE  u = v
<1> SUFFICES ASSUME u # v
             PROVE  FALSE
  OBVIOUS
<1>1. {m.a, m.b} \ {None} = {u, v}
  OBVIOUS
<1>2. IsFiniteSet({u}) /\ Cardinality({u}) = 1
  BY FS_Singleton
<1>3. Cardinality({u} \cup {v}) = Cardinality({u}) + 1
  BY <1>2, FS_AddElement
<1>4. {u} \cup {v} = {u, v}
  OBVIOUS
<1> QED
  BY <1>1, <1>2, <1>3, <1>4 DEF Full

(* Who has won a match with one room has won it alone. *)
LEMMA EarnedOnce ==
  ASSUME NEW d, Bracket(d), NEW i \in DOMAIN d.matches, OneRoom(d, i), NEW u, NEW v, Earned(d, i, u), Earned(d, i, v)
  PROVE  u = v
<1>1. CASE Full(d.matches[i])
  BY <1>1 DEF Earned, OneRoom
<1>2. CASE ~Full(d.matches[i])
  <2>1. \A r \in DOMAIN d.rooms : d.rooms[r].match # i
    BY <1>2 DEF Bracket, RoomOk
  <2> QED
    BY <1>2, <2>1, OneAtMost DEF Earned
<1> QED
  BY <1>1, <1>2

(* A room is still that of its match. *)
LEMMA RoomOkStays ==
  ASSUME NEW d, NEW e, Grown(d, e), NEW r \in DOMAIN d.rooms, RoomOk(d, r),
         e.rooms[r].winner \in {None, d.matches[d.rooms[r].match].a, d.matches[d.rooms[r].match].b}
  PROVE  RoomOk(e, r)
<1> DEFINE i == d.rooms[r].match
<1>1. i \in DOMAIN e.matches /\ e.rooms[r].match = i /\ SamePlace(d.matches[i], e.matches[i])
  BY DEF RoomOk, Grown
<1>2. Full(e.matches[i])
  BY <1>1, SameFull DEF RoomOk
<1> QED
  BY <1>1, <1>2 DEF RoomOk, SamePlace

(* A match that is not written is as it was. *)
LEMMA MatchOkStays ==
  ASSUME NEW d, NEW e, Grown(d, e), NEW i \in DOMAIN d.matches, MatchOk(d, i), e.matches[i] = d.matches[i]
  PROVE  MatchOk(e, i)
<1>1. d.matches[i].winner # None => Earned(e, i, d.matches[i].winner)
  BY EarnedStays DEF MatchOk
<1>2. \A r \in DOMAIN d.rooms : r \in DOMAIN e.rooms /\ e.rooms[r].match = d.rooms[r].match
  BY DEF Grown
<1> QED
  BY <1>1, <1>2 DEF MatchOk

(* A match that is not written keeps its result. *)
LEMMA SameLasts ==
  ASSUME NEW d, NEW e, NEW i, e.matches[i] = d.matches[i]
  PROVE  Lasts(d, e, i)
BY DEF Lasts

(* Rooms are closed, or nothing is written. *)
LEMMA RoomsMove ==
  ASSUME NEW d, Bracket(d), NEW e, e.matches = d.matches, Docs(e.rooms, RoomFields), DOMAIN e.rooms = DOMAIN d.rooms,
         \A r \in DOMAIN d.rooms :
           /\ e.rooms[r].match = d.rooms[r].match
           /\ ~d.rooms[r].open => ~e.rooms[r].open /\ e.rooms[r].winner = d.rooms[r].winner
           /\ e.rooms[r].winner \in {None, d.matches[d.rooms[r].match].a, d.matches[d.rooms[r].match].b}
  PROVE  Moves(d, e, 0)
<1>1. Grown(d, e)
  BY DEF Grown, SamePlace
<1>2. \A r \in DOMAIN e.rooms : RoomOk(e, r)
  BY <1>1, RoomOkStays DEF Bracket
<1>3. \A i \in DOMAIN e.matches : MatchOk(e, i)
  BY <1>1, MatchOkStays DEF Bracket
<1>4. Bracket(e)
  BY <1>2, <1>3 DEF Bracket
<1> QED
  BY <1>1, <1>4, SameLasts DEF Moves

\* One room is closed.
Closes(d, e, r, w) ==
  /\ DOMAIN e = DOMAIN d /\ e.matches = d.matches /\ Docs(e.rooms, RoomFields) /\ DOMAIN e.rooms = DOMAIN d.rooms
  /\ e.rooms[r].match = d.rooms[r].match /\ e.rooms[r].open = FALSE /\ e.rooms[r].winner = w
  /\ \A q \in DOMAIN d.rooms : q # r => e.rooms[q] = d.rooms[q]

(* Finished. *)
LEMMA FinishedCloses ==
  ASSUME NEW d, {"matches", "rooms"} \subseteq DOMAIN d, Docs(d.rooms, RoomFields), NEW r \in DOMAIN d.rooms, NEW w
  PROVE  Closes(d, Finished(d, r, w), r, w)
<1> DEFINE m == d.rooms[r]
           n == [[m EXCEPT !.open = FALSE] EXCEPT !.winner = w]
           rs == [d.rooms EXCEPT ![r] = n]
           e == Finished(d, r, w)
<1>1. e.matches = d.matches /\ DOMAIN e = DOMAIN d
  BY DEF Finished
<1>2. DOMAIN m = RoomFields
  BY DEF Docs
<1> HIDE DEF m
<1>3. DOMAIN n = RoomFields /\ n.match = m.match /\ n.open = FALSE /\ n.winner = w
  BY <1>2 DEF RoomFields
<1>4. e.rooms = rs
  BY <1>2 DEF Finished, RoomFields, m
<1> HIDE DEF n, e
<1>5. Docs(rs, RoomFields) /\ DOMAIN rs = DOMAIN d.rooms
  BY <1>3, DocsChanged
<1>6. \A q \in DOMAIN d.rooms : rs[q] = IF q = r THEN n ELSE d.rooms[q]
  OBVIOUS
<1> HIDE DEF rs
<1> QED
  BY <1>1, <1>3, <1>4, <1>5, <1>6 DEF Closes, e, m

(* A room that was open is closed, with one of its players as the winner or with none. *)
LEMMA ClosesMove ==
  ASSUME NEW d, Bracket(d), NEW r \in DOMAIN d.rooms, d.rooms[r].open, NEW w \in Pair(d, r) \cup {None},
         NEW e, Closes(d, e, r, w)
  PROVE  Moves(d, e, 0)
<1>1. \A q \in DOMAIN d.rooms :
        /\ e.rooms[q].match = d.rooms[q].match
        /\ ~d.rooms[q].open => ~e.rooms[q].open /\ e.rooms[q].winner = d.rooms[q].winner
  BY DEF Closes
<1>2. \A q \in DOMAIN d.rooms : e.rooms[q].winner \in {None, d.matches[d.rooms[q].match].a, d.matches[d.rooms[q].match].b}
  BY DEF Closes, Bracket, RoomOk, Pair
<1> QED
  BY <1>1, <1>2, RoomsMove DEF Closes

(* Nothing is written. *)
LEMMA StaysMove ==
  ASSUME NEW d, Bracket(d), NEW e, e.matches = d.matches, e.rooms = d.rooms
  PROVE  Moves(d, e, 0)
<1>1. \A r \in DOMAIN d.rooms : d.rooms[r].winner \in {None, d.matches[d.rooms[r].match].a, d.matches[d.rooms[r].match].b}
  BY DEF Bracket, RoomOk
<1> QED
  BY <1>1, RoomsMove DEF Bracket

(* Matches are inserted. *)
LEMMA GrowsMove ==
  ASSUME NEW d, Bracket(d), NEW e, Grows(d, e)
  PROVE  Moves(d, e, 0)
<1>1. CASE e.matches = d.matches
  BY <1>1, StaysMove DEF Grows
<1>2. CASE e.matches # d.matches
  <2>1. PICK f : /\ Docs(f, MatchFields) /\ \A j \in DOMAIN f : Fresh(f[j])
                 /\ e.matches = d.matches \o f
    BY <1>2 DEF Grows
  <2>2. /\ Docs(e.matches, MatchFields) /\ DOMAIN d.matches \subseteq DOMAIN e.matches
        /\ \A i \in DOMAIN d.matches : e.matches[i] = d.matches[i]
        /\ \A i \in DOMAIN e.matches \ DOMAIN d.matches : \E j \in DOMAIN f : e.matches[i] = f[j]
    <3>1. Docs(d.matches, MatchFields)
      BY DEF Bracket
    <3>2. /\ Docs(d.matches \o f, MatchFields)
          /\ DOMAIN (d.matches \o f) = 1..(Len(d.matches) + Len(f))
          /\ \A i \in DOMAIN d.matches : (d.matches \o f)[i] = d.matches[i]
          /\ \A i \in DOMAIN (d.matches \o f) \ DOMAIN d.matches : \E j \in DOMAIN f : (d.matches \o f)[i] = f[j]
      BY <2>1, <3>1, DocsConcat, Zenon
    <3>3. Len(d.matches) \in Nat /\ DOMAIN d.matches = 1..Len(d.matches) /\ Len(f) \in Nat
      BY <2>1, <3>1, DocsLength
    <3>4. 1..Len(d.matches) \subseteq 1..(Len(d.matches) + Len(f))
      BY <3>3
    <3> QED
      BY <2>1, <3>2, <3>3, <3>4, Zenon
  <2>3. \A i \in DOMAIN e.matches \ DOMAIN d.matches : Fresh(e.matches[i])
    BY <2>1, <2>2
  <2>4. e.rooms = d.rooms
    BY DEF Grows
  <2>5. Grown(d, e)
    BY <2>2, <2>4 DEF Grown, SamePlace
  <2>6. \A r \in DOMAIN e.rooms : RoomOk(e, r)
    BY <2>4, <2>5, RoomOkStays DEF Bracket, RoomOk
  <2>7. \A i \in DOMAIN e.matches : MatchOk(e, i)
    <3>1. \A i \in DOMAIN d.matches : MatchOk(e, i)
      BY <2>2, <2>5, MatchOkStays DEF Bracket
    <3>2. \A i \in DOMAIN e.matches \ DOMAIN d.matches : MatchOk(e, i)
      BY <2>3 DEF MatchOk, Fresh, Decided
    <3> QED
      BY <3>1, <3>2
  <2>8. Bracket(e)
    BY <2>2, <2>4, <2>6, <2>7 DEF Bracket
  <2> QED
    BY <2>2, <2>5, <2>8, SameLasts DEF Moves
<1> QED
  BY <1>1, <1>2

(* A match gets its result, by who has won it. *)
LEMMA DecidesMove ==
  ASSUME NEW d, Bracket(d), NEW i \in DOMAIN d.matches, NEW w, w # None, Earned(d, i, w), NEW e, Decides(d, e, i, w)
  PROVE  Moves(d, e, 0)
<1>1. e.matches[i].status # "ready"
  BY DecidedStatus DEF Decides
<1>2. Grown(d, e)
  BY DEF Decides, Grown, SamePlace
<1>3. \A r \in DOMAIN e.rooms : RoomOk(e, r)
  BY <1>2, RoomOkStays DEF Bracket, RoomOk, Decides
<1>4. MatchOk(e, i)
  <2>1. Earned(e, i, w)
    BY <1>2, EarnedStays
  <2>2. Other(e.matches[i], w) = Other(d.matches[i], w)
    BY DEF Decides, Other, SamePlace
  <2> QED
    BY <1>1, <2>1, <2>2 DEF MatchOk, Decides, Bracket
<1>5. \A j \in DOMAIN e.matches : MatchOk(e, j)
  <2>1. \A j \in DOMAIN d.matches : j # i => MatchOk(e, j)
    BY <1>2, MatchOkStays DEF Bracket, Decides
  <2> QED
    BY <1>4, <2>1 DEF Decides
<1>6. Bracket(e)
  BY <1>3, <1>5 DEF Bracket, Decides
<1>7. Lasts(d, e, i)
  <2> SUFFICES ASSUME d.matches[i].winner # None, OneRoom(e, i)
               PROVE  d.matches[i].winner = w /\ d.matches[i].loser = Other(d.matches[i], w)
    BY DEF Lasts, Decides
  <2>1. OneRoom(d, i)
    BY DEF OneRoom, Decides
  <2>2. /\ Earned(d, i, d.matches[i].winner)
        /\ d.matches[i].loser = Other(d.matches[i], d.matches[i].winner)
    BY DEF Bracket, MatchOk
  <2> QED
    BY <2>1, <2>2, EarnedOnce
<1>8. \A j \in DOMAIN d.matches : Lasts(d, e, j) /\ e.matches[j].room = d.matches[j].room
  BY <1>7, SameLasts DEF Decides
<1> QED
  BY <1>2, <1>6, <1>8 DEF Moves

(* A match of two is opened a room. *)
LEMMA RoomMove ==
  ASSUME NEW d, Bracket(d), NEW i \in DOMAIN d.matches, Full(d.matches[i]), NEW room, DOMAIN room = RoomFields,
         room.match = i, room.winner = None,
         NEW e, e.matches = d.matches, e.rooms = Append(d.rooms, room)
  PROVE  /\ Moves(d, e, 0) /\ Len(d.rooms) + 1 \in DOMAIN e.rooms /\ Len(d.rooms) + 1 \notin DOMAIN d.rooms
         /\ e.rooms[Len(d.rooms) + 1] = room /\ Len(d.rooms) + 1 # 0
<1> DEFINE k == Len(d.rooms) + 1
           rs == Append(d.rooms, room)
<1>1. /\ Docs(rs, RoomFields) /\ k \notin DOMAIN d.rooms /\ DOMAIN rs = DOMAIN d.rooms \cup {k}
      /\ rs[k] = room /\ \A r \in DOMAIN d.rooms : rs[r] = d.rooms[r]
  BY DocsAppended DEF Bracket
<1>2. k # 0
  BY DocsLength DEF Bracket
<1> HIDE DEF k, rs
<1>3. e.rooms = rs
  BY DEF rs
<1>4. Grown(d, e)
  BY <1>1, <1>3 DEF Grown, SamePlace
<1>5. \A r \in DOMAIN e.rooms : RoomOk(e, r)
  <2>1. \A r \in DOMAIN d.rooms : RoomOk(e, r)
    BY <1>1, <1>3, <1>4, RoomOkStays DEF Bracket, RoomOk
  <2>2. RoomOk(e, k)
    BY <1>1, <1>3 DEF RoomOk
  <2> QED
    BY <1>1, <1>3, <2>1, <2>2
<1>6. \A j \in DOMAIN e.matches : MatchOk(e, j)
  BY <1>4, MatchOkStays DEF Bracket
<1>7. Bracket(e)
  BY <1>1, <1>3, <1>5, <1>6 DEF Bracket
<1>8. Moves(d, e, 0)
  BY <1>4, <1>7, SameLasts DEF Moves
<1> QED
  BY <1>1, <1>2, <1>3, <1>8 DEF k

(* A match is saved with a room of it, which it did not have. *)
LEMMA ReadyMove ==
  ASSUME NEW d, Bracket(d), NEW i \in DOMAIN d.matches, NEW r \in DOMAIN d.rooms, d.rooms[r].match = i,
         d.matches[i].room # r, r # 0,
         NEW n, n = [[d.matches[i] EXCEPT !.room = r] EXCEPT !.status = "ready"],
         NEW e, e.matches = [d.matches EXCEPT ![i] = n], e.rooms = d.rooms
  PROVE  Moves(d, e, r)
<1> DEFINE m == d.matches[i]
           ms == [d.matches EXCEPT ![i] = n]
<1>1. DOMAIN m = MatchFields
  BY DEF Bracket, Docs
<1> HIDE DEF m
<1>2. /\ DOMAIN n = MatchFields /\ SamePlace(m, n) /\ n.winner = m.winner /\ n.loser = m.loser
      /\ n.room = r /\ n.status = "ready"
  BY <1>1 DEF MatchFields, SamePlace, m
<1>3. Docs(ms, MatchFields) /\ DOMAIN ms = DOMAIN d.matches
  <2>1. Docs(d.matches, MatchFields) /\ DOMAIN n = MatchFields
    BY <1>2 DEF Bracket
  <2> QED
    BY ONLY <2>1, DocsChanged
<1>4. ms[i] = n /\ \A j \in DOMAIN d.matches : j # i => ms[j] = d.matches[j]
  OBVIOUS
<1> HIDE DEF ms
<1>5. e.matches = ms
  BY DEF ms
<1>6. Grown(d, e)
  BY <1>2, <1>3, <1>4, <1>5 DEF Grown, SamePlace, m
<1>7. \A q \in DOMAIN e.rooms : RoomOk(e, q)
  BY <1>6, RoomOkStays DEF Bracket, RoomOk
<1>8. MatchOk(e, i)
  <2>1. m.winner # None => Earned(e, i, m.winner) /\ m.loser = Other(m, m.winner)
    BY <1>6, EarnedStays DEF Bracket, MatchOk, m
  <2>2. Other(n, m.winner) = Other(m, m.winner)
    BY <1>2 DEF Other, SamePlace
  <2>3. ~Decided(n)
    BY <1>2, DecidedStatus
  <2> QED
    BY <1>2, <1>4, <1>5, <2>1, <2>2, <2>3 DEF MatchOk
<1>9. \A j \in DOMAIN e.matches : MatchOk(e, j)
  <2>1. \A j \in DOMAIN d.matches : j # i => MatchOk(e, j)
    BY <1>4, <1>5, <1>6, MatchOkStays DEF Bracket
  <2> QED
    BY <1>3, <1>5, <1>8, <2>1
<1>10. Bracket(e)
  BY <1>3, <1>5, <1>7, <1>9 DEF Bracket
<1>11. Lasts(d, e, i)
  <2>1. ~Unplayed(e, i)
    BY DEF Unplayed
  <2>2. OneRoom(e, i) => m.room = 0
    <3>1. m.room # 0 => m.room \in DOMAIN d.rooms /\ d.rooms[m.room].match = i
      BY DEF Bracket, MatchOk, m
    <3> QED
      BY <3>1 DEF OneRoom, m
  <2> QED
    BY <1>2, <1>4, <1>5, <2>1, <2>2 DEF Lasts, m
<1>12. \A j \in DOMAIN d.matches : Lasts(d, e, j) /\ (e.matches[j].room = d.matches[j].room \/ e.matches[j].room = r)
  <2>1. \A j \in DOMAIN d.matches : j # i => Lasts(d, e, j) /\ e.matches[j].room = d.matches[j].room
    BY <1>4, <1>5, SameLasts
  <2> QED
    BY <1>2, <1>4, <1>5, <1>11, <2>1
<1> QED
  BY <1>6, <1>10, <1>12 DEF Moves

(* One step after the other, which save no match with a room. *)
LEMMA MovesMove ==
  ASSUME NEW d, NEW f, NEW e, Moves(d, f, 0), Moves(f, e, 0)
  PROVE  Moves(d, e, 0)
<1>1. Grown(d, e)
  BY DEF Moves, Grown, SamePlace
<1>2. ASSUME NEW i \in DOMAIN d.matches
      PROVE  Lasts(d, e, i) /\ e.matches[i].room = d.matches[i].room
  <2>1. /\ Lasts(d, f, i) /\ Lasts(f, e, i) /\ e.matches[i].room = d.matches[i].room
        /\ f.matches[i].room = d.matches[i].room
    BY DEF Moves, Grown
  <2>2. (OneRoom(e, i) => OneRoom(f, i)) /\ (Unplayed(e, i) => Unplayed(f, i))
    BY DEF Moves, Grown, OneRoom, Unplayed
  <2> QED
    BY <2>1, <2>2 DEF Lasts
<1> QED
  BY <1>1, <1>2 DEF Moves

----------------------------------------------------------------------------
(* The jobs. *)

JobFields == {"step", "key", "fresh", "round", "todo", "match", "winner", "room"}
Working == {"activating", "opening", "deciding", "saving", "eliminating", "closing"}

\* A job goes through matches that are there; it opens one a room that the match does
\* not have yet, or decides it for who has won it.
JobOk(d, j) ==
  /\ DOMAIN j = JobFields
  /\ j.step \in Working => j.todo \subseteq DOMAIN d.matches
  /\ j.step = "opening" => /\ j.match \in DOMAIN d.matches /\ d.matches[j.match].room # j.room
                           /\ j.room \in DOMAIN d.rooms /\ d.rooms[j.room].match = j.match /\ j.room # 0
  /\ j.step \in {"deciding", "saving"} =>
       j.match \in DOMAIN d.matches /\ j.winner # None /\ Earned(d, j.match, j.winner)
  /\ j.step \in {"eliminating", "closing"} => j.match \in DOMAIN d.matches
Jobs ==
  /\ \A s \in Schedulers : JobOk(db, sched[s])
  /\ \A s, t \in Schedulers :
       sched[s].step = "opening" /\ sched[t].step = "opening" /\ sched[s].room = sched[t].room => s = t

\* A command that will end a room has read it open; rooms keep their matches.
Reads ==
  \A x \in tx :
    /\ Bracket(x.read) /\ x.room \in DOMAIN x.read.rooms /\ x.read.rooms[x.room].open = TRUE
    /\ \A r \in DOMAIN x.read.rooms : r \in DOMAIN db.rooms /\ db.rooms[r].match = x.read.rooms[r].match
ResultsInv == MoneyInv /\ Bracket(db) /\ Jobs /\ Reads

\* A job is not about to save a match with room R.
Apart(j, R) == R # 0 /\ j.step = "opening" => j.room # R

(* A job finds its matches as it left them. *)
LEMMA JobStays ==
  ASSUME NEW d, NEW e, NEW R, Moves(d, e, R), NEW j, JobOk(d, j), Apart(j, R)
  PROVE  JobOk(e, j)
<1>1. Grown(d, e) /\ DOMAIN d.matches \subseteq DOMAIN e.matches
  BY DEF Moves, Grown
<1>2. ASSUME j.step = "opening"
      PROVE  /\ e.matches[j.match].room # j.room
             /\ j.room \in DOMAIN e.rooms /\ e.rooms[j.room].match = j.match
  BY <1>1, <1>2 DEF JobOk, Apart, Moves, Grown
<1>3. j.step \in {"deciding", "saving"} => Earned(e, j.match, j.winner)
  BY <1>1, EarnedStays DEF JobOk
<1> QED
  BY <1>1, <1>2, <1>3 DEF JobOk

(* One job goes on, and no other is about to save what it saves. *)
LEMMA JobsStep ==
  ASSUME DOMAIN sched = Schedulers, Jobs, NEW R, Moves(db, db', R), NEW s \in Schedulers,
         \A t \in Schedulers \ {s} : Apart(sched[t], R),
         NEW j, sched' = [sched EXCEPT ![s] = j], JobOk(db', j),
         j.step = "opening" => \A t \in Schedulers \ {s} : sched[t].step = "opening" => sched[t].room # j.room
  PROVE  Jobs'
<1>1. \A t \in Schedulers : sched'[t] = IF t = s THEN j ELSE sched[t]
  OBVIOUS
<1>2. \A t \in Schedulers : JobOk(db', sched'[t])
  BY <1>1, JobStays DEF Jobs
<1> QED
  BY <1>1, <1>2 DEF Jobs

(* No job goes on. *)
LEMMA JobsStay ==
  ASSUME Jobs, Moves(db, db', 0), UNCHANGED sched
  PROVE  Jobs'
<1>1. \A s \in Schedulers : JobOk(db', sched[s])
  BY JobStays DEF Jobs, Apart
<1> QED
  BY <1>1 DEF Jobs

(* A job that has no match in hand. *)
LEMMA StartingOk ==
  ASSUME NEW d, NEW j, DOMAIN j = JobFields, j.step \notin Working
  PROVE  JobOk(d, j)
BY DEF JobOk, Working

\* What a step keeps.
Advances == Jobs' /\ \E R : Moves(db, db', R)

(* One document more is not the same. *)
LEMMA LongerDocs ==
  ASSUME NEW s, NEW F, Docs(s, F), NEW v
  PROVE  s # Append(s, v)
<1> DEFINE S == {s[i] : i \in DOMAIN s} \cup {v}
<1>1. s \in Seq(S) /\ Len(s) \in Nat
  <2>1. s \in [1..Len(s) -> S] /\ Len(s) \in Nat
    BY DocsLength
  <2> HIDE DEF S
  <2> QED
    BY <2>1
<1>2. v \in S
  OBVIOUS
<1> HIDE DEF S
<1>3. Len(Append(s, v)) = Len(s) + 1
  BY <1>1, <1>2
<1> QED
  BY <1>1, <1>3

(* Steps that write neither a match nor a room. *)
LEMMA DocsStay ==
  ASSUME MoneyInv,
         \/ openTournament \/ StartsAtPasses
         \/ \E u : register(u) \/ unregister(u) \/ refundCancelled(u)
         \/ \E r : BeginCommand(r)
         \/ \E x : AbortCommand(x)
         \/ \E s : SaveLocking(s) \/ CancelStart(s) \/ RefundNext(s) \/ Run(s) \/ EndActivation(s) \/ EliminateLoser(s)
  PROVE  db'.matches = db.matches /\ db'.rooms = db.rooms
<1>1. DOMAIN db = {"t", "parts", "back", "matches", "rooms", "money", "escrow", "house"}
  BY DEF MoneyInv, Sound, Shape
<1>2. ASSUME NEW d, DOMAIN d = DOMAIN db, NEW u, NEW amount
      PROVE  LET e == Move(d, u, amount) IN DOMAIN e = DOMAIN db /\ e.matches = d.matches /\ e.rooms = d.rooms
  BY <1>1, <1>2 DEF Move
<1>3. ASSUME NEW u, NEW e, e = refundCancelledParticipant(db, u)
      PROVE  e.matches = db.matches /\ e.rooms = db.rooms
  <2> DEFINE m == Marked(db, u, "refunded")
             n == Move(m, u, -Stake)
  <2>1. DOMAIN m = DOMAIN db /\ m.matches = db.matches /\ m.rooms = db.rooms
    BY <1>1, MarkedGrows
  <2>2. e \in {db, m, [n EXCEPT !.back = @ \cup {u}]}
    BY <1>3 DEF refundCancelledParticipant
  <2> HIDE DEF m
  <2>3. DOMAIN n = DOMAIN db /\ n.matches = db.matches /\ n.rooms = db.rooms
    BY <1>2, <2>1
  <2> HIDE DEF n
  <2> QED
    BY <1>1, <2>1, <2>2, <2>3
<1>4. CASE openTournament
  BY <1>1, <1>4 DEF openTournament
<1>5. ASSUME NEW u, register(u)
      PROVE  db'.matches = db.matches /\ db'.rooms = db.rooms
  <2> DEFINE n == Move(db, u, Stake)
  <2>1. DOMAIN n = DOMAIN db /\ n.matches = db.matches /\ n.rooms = db.rooms
    BY <1>2
  <2>2. PICK ps, c, status : db' = [n EXCEPT !.parts = ps, !.t.count = c, !.t.status = status]
    BY <1>5 DEF register
  <2> HIDE DEF n
  <2> QED
    BY <1>1, <2>1, <2>2
<1>6. ASSUME NEW u, unregister(u)
      PROVE  db'.matches = db.matches /\ db'.rooms = db.rooms
  <2> DEFINE n == Move(db, u, -Stake)
  <2>1. DOMAIN n = DOMAIN db /\ n.matches = db.matches /\ n.rooms = db.rooms
    BY <1>2
  <2>2. PICK ps, c : db' = [n EXCEPT !.parts = ps, !.t.count = c, !.t.status = "open"]
    BY <1>6 DEF unregister
  <2> HIDE DEF n
  <2> QED
    BY <1>1, <2>1, <2>2
<1>7. ASSUME NEW s, SaveLocking(s) \/ CancelStart(s) \/ Run(s) \/ EndActivation(s)
      PROVE  db'.matches = db.matches /\ db'.rooms = db.rooms
  <2>1. CASE \E status : db' = [db EXCEPT !.t.status = status]
    BY <1>1, <2>1
  <2>2. CASE EndActivation(s)
    BY <1>1, <2>2 DEF EndActivation
  <2>3. CASE SaveLocking(s) \/ CancelStart(s) \/ Run(s)
    BY <2>1, <2>3 DEF SaveLocking, CancelStart, Run
  <2> QED
    BY <1>7, <2>2, <2>3
<1>8. ASSUME NEW s, RefundNext(s)
      PROVE  db'.matches = db.matches /\ db'.rooms = db.rooms
  BY <1>3, <1>8 DEF RefundNext
<1>9. ASSUME NEW s, EliminateLoser(s)
      PROVE  db'.matches = db.matches /\ db'.rooms = db.rooms
  BY <1>1, <1>9, MarkedGrows DEF EliminateLoser
<1>10. ASSUME NEW u, refundCancelled(u)
       PROVE  db'.matches = db.matches /\ db'.rooms = db.rooms
  BY <1>3, <1>10 DEF refundCancelled
<1>11. CASE StartsAtPasses \/ (\E r : BeginCommand(r)) \/ (\E x : AbortCommand(x))
  BY <1>11 DEF StartsAtPasses, BeginCommand, AbortCommand
<1> QED
  BY <1>4, <1>5, <1>6, <1>7, <1>8, <1>9, <1>10, <1>11

(* Rooms that are closed: cancel, LeaveRoom and EndWithoutWinner. *)
LEMMA RoomsEnd ==
  ASSUME MoneyInv, Bracket(db), cancel \/ (\E r \in Rooms : EndWithoutWinner(r) \/ \E w \in Pair(db, r) : LeaveRoom(r, w))
  PROVE  Moves(db, db', 0)
<1>1. DOMAIN db = {"t", "parts", "back", "matches", "rooms", "money", "escrow", "house"}
  BY DEF MoneyInv, Sound, Shape
<1>2. Docs(db.rooms, RoomFields)
  BY DEF Bracket
<1>3. CASE cancel
  <2> DEFINE n == Len(db.rooms)
             rs == [r \in DOMAIN db.rooms |-> [db.rooms[r] EXCEPT !.open = FALSE]]
  <2>1. db'.matches = db.matches /\ db'.rooms = rs
    BY <1>1, <1>3 DEF cancel
  <2>2. n \in Nat /\ DOMAIN db.rooms = 1..n
    BY <1>2, DocsLength
  <2>3. \A r \in 1..n : /\ DOMAIN rs[r] = RoomFields /\ rs[r].match = db.rooms[r].match /\ ~rs[r].open
                        /\ rs[r].winner = db.rooms[r].winner
    BY <1>2, <2>2 DEF Docs, RoomFields
  <2>4. rs = [r \in 1..n |-> rs[r]] /\ DOMAIN rs = 1..n
    BY <2>2
  <2> HIDE DEF rs, n
  <2>5. Docs(rs, RoomFields)
    BY <2>2, <2>3, <2>4, DocsMade
  <2>6. \A r \in 1..n : rs[r].winner \in {None, db.matches[db.rooms[r].match].a, db.matches[db.rooms[r].match].b}
    BY <2>2, <2>3 DEF Bracket, RoomOk
  <2> QED
    BY <2>1, <2>2, <2>3, <2>4, <2>5, <2>6, RoomsMove
<1>4. ASSUME NEW r \in DOMAIN db.rooms, NEW w \in Pair(db, r) \cup {None}, db.rooms[r].open, db' = Finished(db, r, w)
      PROVE  Moves(db, db', 0)
  <2>1. Closes(db, db', r, w)
    BY <1>1, <1>2, <1>4, FinishedCloses
  <2> QED
    BY <1>4, <2>1, ClosesMove
<1> QED
  BY <1>3, <1>4 DEF LeaveRoom, EndWithoutWinner, Rooms

Inserted(from, to) == SubSeq(to.matches, Len(from.matches) + 1, Len(to.matches))

(* The matches and the rooms after the commit. *)
LEMMA WrittenDocs ==
  ASSUME NEW now, Shape(now), NEW from, NEW to
  PROVE  /\ Written(now, from, to).rooms = Overwritten(now.rooms, from.rooms, to.rooms)
         /\ Written(now, from, to).matches = Overwritten(now.matches, from.matches, to.matches) \o Inserted(from, to)
<1> DEFINE ms == Overwritten(now.matches, from.matches, to.matches) \o Inserted(from, to)
           ps == Overwritten(now.parts, from.parts, to.parts)
           rs == Overwritten(now.rooms, from.rooms, to.rooms)
           mo == Overwritten(now.money, from.money, to.money)
           tt == IF to.t = from.t THEN now.t ELSE to.t
           es == now.escrow + to.escrow - from.escrow
           ho == now.house + to.house - from.house
<1>1. Written(now, from, to) =
        [now EXCEPT !.t = tt, !.escrow = es, !.house = ho, !.parts = ps, !.matches = ms, !.rooms = rs, !.money = mo]
  BY DEF Written, Overwritten, Inserted
<1> HIDE DEF ms, ps, rs, mo, tt, es, ho
<1>2. Written(now, from, to).rooms = rs /\ Written(now, from, to).matches = ms
  BY <1>1 DEF Shape
<1> QED
  BY <1>2 DEF ms, rs

(* The matches that a command inserts are fresh. *)
LEMMA InsertedFresh ==
  ASSUME NEW from, Docs(from.matches, MatchFields), NEW f, Docs(f.matches, MatchFields),
         DOMAIN f.matches = DOMAIN from.matches, NEW to, Grows(f, to)
  PROVE  /\ Docs(Inserted(from, to), MatchFields)
         /\ \A i \in DOMAIN Inserted(from, to) : Fresh(Inserted(from, to)[i])
         /\ \A j \in DOMAIN from.matches : to.matches[j] = f.matches[j]
<1> DEFINE m == Len(from.matches)
           t == SubSeq(to.matches, m + 1, Len(to.matches))
<1>1. m \in Nat /\ DOMAIN f.matches = 1..m /\ Len(f.matches) = m
  <2>1. /\ m \in Nat /\ DOMAIN from.matches = 1..m
        /\ Len(f.matches) \in Nat /\ DOMAIN f.matches = 1..Len(f.matches)
    BY DocsLength
  <2> HIDE DEF m
  <2>2. \A k, n \in Nat : 1..k = 1..n => k = n
    <3> SUFFICES ASSUME NEW k \in Nat, NEW n \in Nat, 1..k = 1..n, k # n
                 PROVE  FALSE
      OBVIOUS
    <3>1. k + 1 \in 1..n \/ n + 1 \in 1..k
      OBVIOUS
    <3> QED
      BY <3>1
  <2> QED
    BY <2>1, <2>2
<1>2. /\ Docs(to.matches, MatchFields) /\ Len(to.matches) \in Nat /\ m <= Len(to.matches)
      /\ \A j \in 1..m : to.matches[j] = f.matches[j]
      /\ \A j \in DOMAIN to.matches : j > m => Fresh(to.matches[j])
  <2>1. CASE to.matches = f.matches
    BY <1>1, <2>1
  <2>2. CASE to.matches # f.matches
    <3>1. PICK g : /\ Docs(g, MatchFields) /\ \A j \in DOMAIN g : Fresh(g[j])
                   /\ to.matches = f.matches \o g
      BY <2>2 DEF Grows
    <3> DEFINE u == f.matches \o g
    <3>2. /\ Docs(u, MatchFields) /\ DOMAIN u = 1..(Len(f.matches) + Len(g))
          /\ \A i \in DOMAIN f.matches : u[i] = f.matches[i]
          /\ \A i \in DOMAIN u \ DOMAIN f.matches : \E j \in DOMAIN g : u[i] = g[j]
      BY <3>1, DocsConcat
    <3> HIDE DEF u
    <3>3. Len(g) \in Nat /\ Len(u) \in Nat /\ DOMAIN u = 1..Len(u)
      BY <3>1, <3>2, DocsLength
    <3>4. \A j \in DOMAIN u : j > m => Fresh(u[j])
      BY <1>1, <3>1, <3>2, <3>3
    <3>5. m <= Len(u)
      <4>1. m = 0 \/ m \in DOMAIN u
        BY <1>1, <3>2, <3>3
      <4> QED
        BY <1>1, <3>3, <4>1
    <3> QED
      BY <1>1, <3>1, <3>2, <3>3, <3>4, <3>5 DEF u
  <2> QED
    BY <2>1, <2>2
<1>3. /\ Docs(t, MatchFields)
      /\ \A i \in DOMAIN t : \E j \in DOMAIN to.matches : j > m /\ t[i] = to.matches[j]
  <2> HIDE DEF m
  <2> QED
    BY <1>1, <1>2, DocsRest
<1>4. DOMAIN from.matches = 1..m
  BY <1>1
<1> QED
  BY <1>2, <1>3, <1>4 DEF Inserted

(* The earliest of some places is one of them. *)
LEMMA EarliestIn ==
  ASSUME NEW S, S \subseteq Nat, S # {}
  PROVE  Earliest(S) \in S
<1> DEFINE R == {ss \in Nat \X Nat : ss[1] < ss[2]}
<1>1. IsWellFoundedOn(R, Nat)
  BY NatLessThanWellFounded DEF OpToRel
<1> HIDE DEF R
<1>2. PICK m \in S : \A n \in S : <<n, m>> \notin R
  BY <1>1, WFMin
<1>3. \A n \in S : m <= n
  <2>1. ASSUME NEW n \in S, ~(m <= n)
        PROVE  FALSE
    <3>1. n < m /\ n \in Nat /\ m \in Nat
      BY <2>1
    <3>2. <<n, m>> \in R
      BY <3>1 DEF R
    <3> QED
      BY <1>2, <3>2
  <2> QED
    BY <2>1
<1> QED
  BY <1>3 DEF Earliest

(* Two players are two. *)
LEMMA FullTwo ==
  ASSUME NEW m, Full(m)
  PROVE  m.a # None /\ m.b # None /\ m.a # m.b
<1> DEFINE S == {m.a, m.b} \ {None}
<1>1. Cardinality(S) = 2
  BY DEF Full
<1>2. \A x : Cardinality({x}) # 2
  <2>1. \A x : Cardinality({x}) = 1
    BY FS_Singleton
  <2> QED
    BY <2>1
<1>3. Cardinality({}) # 2
  BY FS_EmptySet
<1>4. ~(m.a # None /\ m.b # None /\ m.a # m.b) => S = {} \/ S = {m.a} \/ S = {m.b}
  OBVIOUS
<1> HIDE DEF S
<1> QED
  BY <1>1, <1>2, <1>3, <1>4

(* The commit of a command that ends a room: what it overwrites and what it inserts. *)
LEMMA WrittenMove ==
  ASSUME NEW now, Shape(now), Bracket(now), NEW from, Bracket(from), NEW r \in DOMAIN from.rooms \cap DOMAIN now.rooms,
         now.rooms[r] = from.rooms[r], from.rooms[r].open = TRUE, {"matches", "rooms"} \subseteq DOMAIN from,
         NEW i, i = now.rooms[r].match, NEW w \in Pair(now, r), NEW f0, f0 = Finished(from, r, w),
         NEW to, to = f0 \/ (~Decided(f0.matches[i]) /\ \E f : Decides(f0, f, i, w) /\ Grows(f, to)),
         ~Conflicts(now, from, to)
  PROVE  Moves(now, Written(now, from, to), 0)
<1> DEFINE rs == Overwritten(now.rooms, from.rooms, to.rooms)
           ms == Overwritten(now.matches, from.matches, to.matches)
           new == Inserted(from, to)
           e == Written(now, from, to)
<1>1. e.rooms = rs /\ e.matches = ms \o new
  <2> HIDE DEF rs, ms, new
  <2> QED
    BY ONLY Shape(now), WrittenDocs DEF rs, ms, new
<1>2. /\ f0.matches = from.matches /\ Docs(f0.rooms, RoomFields) /\ DOMAIN f0.rooms = DOMAIN from.rooms
      /\ f0.rooms[r].match = from.rooms[r].match /\ f0.rooms[r].open = FALSE /\ f0.rooms[r].winner = w
      /\ \A q \in DOMAIN from.rooms : q # r => f0.rooms[q] = from.rooms[q]
  <2>1. Closes(from, f0, r, w)
    BY FinishedCloses DEF Bracket
  <2> QED
    BY <2>1 DEF Closes
<1>3. to.rooms = f0.rooms
  BY DEF Decides, Grows
<1>4. Docs(from.matches, MatchFields) /\ Docs(now.matches, MatchFields) /\ Docs(now.rooms, RoomFields)
  BY DEF Bracket
<1>5. i \in DOMAIN from.matches /\ i \in DOMAIN now.matches /\ Full(now.matches[i])
  BY DEF Bracket, RoomOk
<1> DEFINE k == Len(now.rooms)
<1>6. k \in Nat /\ DOMAIN now.rooms = 1..k
  BY <1>4, DocsLength
<1>7. /\ DOMAIN rs = 1..k /\ rs = [q \in 1..k |-> rs[q]]
      /\ \A q \in 1..k : rs[q] = IF q \in DOMAIN from.rooms /\ to.rooms[q] # from.rooms[q] THEN to.rooms[q] ELSE now.rooms[q]
  BY <1>6 DEF Overwritten
<1> HIDE DEF rs, k
<1>8. \A q \in 1..k : rs[q] = IF q = r THEN f0.rooms[r] ELSE now.rooms[q]
  BY <1>2, <1>3, <1>6, <1>7
<1>9. \A q \in 1..k : DOMAIN rs[q] = RoomFields
  <2>1. \A q \in 1..k : DOMAIN now.rooms[q] = RoomFields
    BY <1>4, <1>6 DEF Docs
  <2>2. DOMAIN f0.rooms[r] = RoomFields
    BY <1>2 DEF Docs
  <2> QED
    BY <1>8, <2>1, <2>2
<1>10. Docs(rs, RoomFields)
  BY <1>6, <1>7, <1>9, DocsMade
<1> DEFINE g == [now EXCEPT !.rooms = rs]
<1>11. DOMAIN g = DOMAIN now /\ g.matches = now.matches /\ g.rooms = rs
  BY DEF Shape
<1> HIDE DEF g
<1>12. Closes(now, g, r, w)
  BY <1>2, <1>6, <1>7, <1>8, <1>10, <1>11 DEF Closes
<1>13. Moves(now, g, 0)
  BY <1>12, ClosesMove
<1>14. Earned(g, i, w) /\ w # None
  <2>1. w # None
    BY <1>5, FullTwo DEF Pair
  <2> QED
    BY <1>6, <1>11, <1>12, <2>1 DEF Earned, Closes
<1>15. CASE to = f0
  <2>1. to.matches = from.matches
    BY <1>2, <1>15
  <2>2. ms = now.matches
    <3>1. ms = [q \in DOMAIN now.matches |-> now.matches[q]]
      BY <2>1 DEF Overwritten
    <3> QED
      BY <1>4, <3>1, DocsLength
  <2>3. Docs(new, MatchFields) /\ \A q \in DOMAIN new : Fresh(new[q])
    <3> DEFINE f == [matches |-> from.matches, rooms |-> to.rooms]
    <3>1. f.matches = from.matches /\ Grows(f, to)
      BY <2>1 DEF Grows
    <3> HIDE DEF f
    <3> QED
      BY <1>4, <3>1, InsertedFresh
  <2> HIDE DEF new, ms, e
  <2>4. Grows(g, e)
    BY <1>1, <1>11, <2>2, <2>3 DEF Grows
  <2>5. Moves(g, e, 0)
    BY <1>13, <2>4, GrowsMove DEF Moves
  <2>6. Moves(now, e, 0)
    BY <1>13, <2>5, MovesMove
  <2> QED
    BY <2>6 DEF e
<1>16. CASE to # f0
  <2>1. PICK f : Decides(f0, f, i, w) /\ Grows(f, to)
    BY <1>16
  <2>2. /\ Docs(new, MatchFields) /\ \A q \in DOMAIN new : Fresh(new[q])
        /\ \A j \in DOMAIN from.matches : to.matches[j] = f.matches[j]
    <3>1. Docs(f.matches, MatchFields) /\ DOMAIN f.matches = DOMAIN from.matches
      BY <1>2, <2>1 DEF Decides
    <3> QED
      BY <1>4, <2>1, <3>1, InsertedFresh
  <2> DEFINE n == Len(now.matches)
  <2>3. n \in Nat /\ DOMAIN now.matches = 1..n
    BY <1>4, DocsLength
  <2>4. /\ DOMAIN ms = 1..n /\ ms = [q \in 1..n |-> ms[q]]
        /\ \A q \in 1..n : ms[q] = IF q \in DOMAIN from.matches /\ to.matches[q] # from.matches[q]
                                     THEN to.matches[q] ELSE now.matches[q]
    BY <2>3 DEF Overwritten
  <2> HIDE DEF n, ms, new
  <2>5. to.matches[i] # from.matches[i] /\ to.matches[i] = f.matches[i]
    BY <1>2, <1>5, <1>16, <2>1, <2>2 DEF Decides
  <2>6. now.matches[i] = from.matches[i]
    BY <1>5, <2>5, NoClash
  <2>7. \A q \in 1..n : ms[q] = IF q = i THEN f.matches[i] ELSE now.matches[q]
    <3>1. \A q \in DOMAIN from.matches : q # i => to.matches[q] = from.matches[q]
      BY <1>2, <2>1, <2>2 DEF Decides
    <3> QED
      BY <1>5, <2>4, <2>5, <3>1
  <2>8. DOMAIN f.matches[i] = MatchFields
    BY <1>2, <1>5, <2>1 DEF Decides, Docs
  <2>9. \A q \in 1..n : DOMAIN ms[q] = MatchFields
    BY <1>4, <2>3, <2>7, <2>8 DEF Docs
  <2>10. Docs(ms, MatchFields)
    BY <2>3, <2>4, <2>9, DocsMade
  <2> DEFINE h == [matches |-> ms, rooms |-> rs]
  <2>11. Decides(g, h, i, w)
    BY <1>2, <1>5, <1>11, <2>1, <2>3, <2>4, <2>6, <2>7, <2>10 DEF Decides
  <2>12. Moves(g, h, 0)
    BY <1>5, <1>11, <1>13, <1>14, <2>11, DecidesMove DEF Moves
  <2> HIDE DEF e
  <2>13. Grows(h, e)
    BY <1>1, <2>2 DEF Grows
  <2>14. Moves(h, e, 0)
    BY <2>12, <2>13, GrowsMove DEF Moves
  <2>15. Moves(now, h, 0)
    BY <1>13, <2>12, MovesMove
  <2>16. Moves(now, e, 0)
    BY <2>14, <2>15, MovesMove
  <2> QED
    BY <2>16 DEF e
<1> QED
  BY <1>15, <1>16

(* FinishGame. *)
LEMMA FinishGameAdvances ==
  ASSUME ResultsInv, NEW x \in tx, FinishGame(x)
  PROVE  Advances
<1>1. Shape(db) /\ Shape(x.read) /\ Bracket(db) /\ Bracket(x.read) /\ Jobs
  BY DEF ResultsInv, MoneyInv, Sound, Seen, Reads
<1> DEFINE r == x.room
           i == x.read.rooms[r].match
<1>2. PICK w, reason, d : /\ w \in Pair(db, r) /\ d \in advanceWinner(Finished(x.read, r, w), i, w, reason)
                          /\ ~Conflicts(db, x.read, d) /\ db' = Written(db, x.read, d)
  BY DEF FinishGame
<1>3. /\ r \in DOMAIN x.read.rooms /\ r \in DOMAIN db.rooms /\ db.rooms[r].match = i
      /\ x.read.rooms[r].open = TRUE
  BY DEF ResultsInv, Reads
<1> DEFINE f == Finished(x.read, r, w)
<1>4. DOMAIN f = DOMAIN x.read /\ f.matches = x.read.matches /\ f.rooms[r].open = FALSE
  <2>1. {"matches", "rooms"} \subseteq DOMAIN x.read /\ Docs(x.read.rooms, RoomFields)
    BY <1>1 DEF Shape, Bracket
  <2> QED
    <3>1. Closes(x.read, f, r, w)
      BY <1>3, <2>1, FinishedCloses
    <3> HIDE DEF f
    <3> QED
      BY <3>1 DEF Closes
<1>5. Shape(f)
  <2>1. PICK rs : f = [x.read EXCEPT !.rooms = rs]
    BY DEF Finished
  <2> HIDE DEF f
  <2> QED
    BY <1>1, <2>1 DEF Shape
<1>6. i \in DOMAIN x.read.matches /\ Docs(x.read.matches, MatchFields)
  BY <1>1, <1>3 DEF Bracket, RoomOk
<1>7. d = f \/ (~Decided(f.matches[i]) /\ \E g : Decides(f, g, i, w) /\ Grows(g, d))
  <2> HIDE DEF f, i
  <2> QED
    BY <1>2, <1>4, <1>5, <1>6, advanceWinnerDocs DEF f
<1>8. d.rooms = f.rooms
  BY <1>7 DEF Decides, Grows
<1>9. db.rooms[r] = x.read.rooms[r]
  BY <1>2, <1>3, <1>4, <1>8, NoClash
<1>10. Moves(db, db', 0)
  <2>1. {"matches", "rooms"} \subseteq DOMAIN x.read
    BY <1>1 DEF Shape
  <2> HIDE DEF f, i, r
  <2> QED
    BY <1>1, <1>2, <1>3, <1>7, <1>9, <2>1, WrittenMove DEF f
<1>11. Jobs'
  BY <1>1, <1>10, JobsStay DEF FinishGame
<1> QED
  BY <1>10, <1>11 DEF Advances

(* The other steps that no job takes. *)
LEMMA OthersAdvance ==
  ASSUME ResultsInv,
         \/ openTournament \/ StartsAtPasses \/ cancel
         \/ \E u \in Players : register(u) \/ unregister(u) \/ refundCancelled(u)
         \/ \E r \in Rooms : BeginCommand(r) \/ EndWithoutWinner(r) \/ \E w \in Pair(db, r) : LeaveRoom(r, w)
         \/ \E x \in tx : AbortCommand(x)
         \/ \E key \in locks : LockExpires(key)
         \/ UNCHANGED vars
  PROVE  Advances
<1>1. MoneyInv /\ Bracket(db) /\ Jobs
  BY DEF ResultsInv
<1>2. UNCHANGED sched
  BY DEF openTournament, StartsAtPasses, cancel, register, unregister, refundCancelled, BeginCommand,
     EndWithoutWinner, LeaveRoom, AbortCommand, LockExpires, vars
<1>3. Moves(db, db', 0)
  <2>1. CASE UNCHANGED vars \/ \E key \in locks : LockExpires(key)
    BY <1>1, <2>1, StaysMove DEF vars, LockExpires
  <2>2. CASE cancel \/ (\E r \in Rooms : EndWithoutWinner(r) \/ \E w \in Pair(db, r) : LeaveRoom(r, w))
    BY <1>1, <2>2, RoomsEnd
  <2>3. CASE \/ openTournament \/ StartsAtPasses
             \/ \E u \in Players : register(u) \/ unregister(u) \/ refundCancelled(u)
             \/ \E r \in Rooms : BeginCommand(r)
             \/ \E x \in tx : AbortCommand(x)
    BY <1>1, <2>3, DocsStay, StaysMove
  <2> QED
    BY <2>1, <2>2, <2>3
<1>4. Jobs'
  BY <1>1, <1>2, <1>3, JobsStay
<1> QED
  BY <1>3, <1>4 DEF Advances

(* A job that goes on, or begins. *)
LEMMA StepAdvances ==
  ASSUME ResultsInv, NEW s \in Schedulers, NEW j, sched' = [sched EXCEPT ![s] = j], j.step # "opening",
         NEW R, Moves(db, db', R), \A t \in Schedulers \ {s} : Apart(sched[t], R), JobOk(db', j)
  PROVE  Advances
<1>1. DOMAIN sched = Schedulers /\ Jobs
  BY DEF ResultsInv, MoneyInv
<1>2. Jobs'
  BY <1>1, JobsStep
<1> QED
  BY <1>2 DEF Advances

(* The same, where no match is saved with a room. *)
LEMMA PlainAdvances ==
  ASSUME ResultsInv, NEW s \in Schedulers, NEW j, sched' = [sched EXCEPT ![s] = j], j.step # "opening",
         Moves(db, db', 0), JobOk(db', j)
  PROVE  Advances
<1>1. \A t \in Schedulers \ {s} : Apart(sched[t], 0)
  BY DEF Apart
<1> QED
  BY <1>1, StepAdvances

(* A job that ends, or dies. *)
LEMMA EndAdvances ==
  ASSUME ResultsInv, NEW s \in Schedulers, End(s), Moves(db, db', 0)
  PROVE  Advances
<1>1. Idle.step = "idle" /\ DOMAIN Idle = JobFields
  BY DEF Idle, JobFields
<1>2. JobOk(db', Idle)
  BY <1>1, StartingOk DEF Working
<1>3. sched' = [sched EXCEPT ![s] = Idle]
  BY DEF End
<1> QED
  BY <1>1, <1>2, <1>3, PlainAdvances

(* ListDue, TakeUpStart, SaveLocking, CancelStart and RefundNext. *)
LEMMA StartAdvances ==
  ASSUME ResultsInv, NEW s \in Schedulers,
         ListDue(s) \/ TakeUpStart(s) \/ SaveLocking(s) \/ CancelStart(s) \/ RefundNext(s)
  PROVE  Advances
<1>1. MoneyInv /\ Bracket(db) /\ DOMAIN sched[s] = JobFields
  BY DEF ResultsInv, Jobs, JobOk
<1>2. Idle.step = "idle" /\ DOMAIN Idle = JobFields
  BY DEF Idle, JobFields
<1>3. Moves(db, db', 0)
  <2>1. db' = db \/ SaveLocking(s) \/ CancelStart(s) \/ RefundNext(s)
    BY DEF ListDue, TakeUpStart
  <2>2. db'.matches = db.matches /\ db'.rooms = db.rooms
    BY <1>1, <2>1, DocsStay
  <2> QED
    BY <1>1, <2>2, StaysMove
<1>4. ASSUME NEW j, sched' = [sched EXCEPT ![s] = j], DOMAIN j = JobFields, j.step \notin Working
      PROVE  Advances
  BY <1>3, <1>4, StartingOk, PlainAdvances DEF Working
<1>5. CASE ListDue(s)
  <2> DEFINE j == [Idle EXCEPT !.step = "listed"]
  <2>1. j.step = "listed" /\ DOMAIN j = JobFields
    BY <1>2 DEF JobFields
  <2>2. sched' = [sched EXCEPT ![s] = j]
    BY <1>5 DEF ListDue, Step
  <2> HIDE DEF j
  <2> QED
    BY <1>4, <2>1, <2>2 DEF Working
<1>6. CASE TakeUpStart(s)
  <2> DEFINE j == [[Idle EXCEPT !.step = "locking", !.fresh = db.t] EXCEPT !.key = TournamentKey]
  <2>1. j.step = "locking" /\ DOMAIN j = JobFields
    BY <1>2 DEF JobFields
  <2>2. sched' = [sched EXCEPT ![s] = Idle] \/ sched' = [sched EXCEPT ![s] = j]
    BY <1>6 DEF TakeUpStart, Acquire, Step
  <2> HIDE DEF j
  <2> QED
    BY <1>2, <1>4, <2>1, <2>2 DEF Working
<1>7. CASE SaveLocking(s)
  <2> DEFINE j == [sched[s] EXCEPT !.step = IF sched[s].fresh.count < MinPlayers THEN "cancelling" ELSE "drawing"]
  <2>1. j.step \in {"cancelling", "drawing"} /\ DOMAIN j = JobFields
    BY <1>1 DEF JobFields
  <2>2. sched' = [sched EXCEPT ![s] = j]
    BY <1>7 DEF SaveLocking, Step
  <2> HIDE DEF j
  <2> QED
    BY <1>4, <2>1, <2>2 DEF Working
<1>8. CASE CancelStart(s)
  <2> DEFINE j == [sched[s] EXCEPT !.step = "refunding", !.todo = DOMAIN db.parts]
  <2>1. j.step = "refunding" /\ DOMAIN j = JobFields
    BY <1>1 DEF JobFields
  <2>2. sched' = [sched EXCEPT ![s] = j]
    BY <1>8 DEF CancelStart, Step
  <2> HIDE DEF j
  <2> QED
    BY <1>4, <2>1, <2>2 DEF Working
<1>9. CASE RefundNext(s)
  <2> DEFINE j == [sched[s] EXCEPT !.todo = @ \ {Earliest(sched[s].todo)}]
  <2>1. sched[s].step = "refunding" /\ (End(s) \/ sched' = [sched EXCEPT ![s] = j])
    BY <1>9 DEF RefundNext, Step
  <2>2. j.step = sched[s].step /\ DOMAIN j = JobFields
    BY <1>1 DEF JobFields
  <2> HIDE DEF j
  <2> QED
    BY <1>3, <1>4, <2>1, <2>2, EndAdvances DEF Working
<1> QED
  BY <1>5, <1>6, <1>7, <1>8, <1>9

(* generateGroupsAndBrackets. *)
LEMMA generateAdvances ==
  ASSUME ResultsInv, NEW s \in Schedulers, generateGroupsAndBrackets(s)
  PROVE  Advances
<1>1. Shape(db) /\ Bracket(db) /\ JobOk(db, sched[s])
  BY DEF ResultsInv, Jobs, MoneyInv, Sound
<1> DEFINE f == buildGroupBracketDefs(db)
<1>2. Docs(f, MatchFields) /\ \A i \in DOMAIN f : Fresh(f[i])
  <2>1. Groups \in Nat
    BY TournamentAssumption DEF Groups, TwoPower
  <2>2. \A x1, x2, x3, x4, x5 : LET m == Match(x1, x2, x3, x4, x5) IN DOMAIN m = MatchFields /\ Fresh(m)
    BY DEF Match, MatchFields, Fresh
  <2>3. /\ f = [g \in 1..Groups |-> f[g]]
        /\ \A g \in 1..Groups : \E x1, x2, x3, x4, x5 : f[g] = Match(x1, x2, x3, x4, x5)
    BY DEF buildGroupBracketDefs
  <2> HIDE DEF f
  <2>4. \A g \in 1..Groups : DOMAIN f[g] = MatchFields /\ Fresh(f[g])
    BY <2>2, <2>3
  <2> QED
    BY <2>1, <2>3, <2>4, DocsMade
<1> HIDE DEF f
<1>3. PICK ps, finals, round :
        db' = [db EXCEPT !.matches = db.matches \o f, !.parts = ps, !.t.finals = finals, !.t.round = round]
  BY DEF generateGroupsAndBrackets, f
<1>4. db'.matches = db.matches \o f /\ db'.rooms = db.rooms
  BY <1>1, <1>3 DEF Shape
<1>5. Moves(db, db', 0)
  BY <1>1, <1>2, <1>4, GrowsMove DEF Grows
<1> DEFINE j == [sched[s] EXCEPT !.step = "running", !.fresh.finals = FALSE, !.fresh.round = 0]
<1>6. sched' = [sched EXCEPT ![s] = j]
  BY DEF generateGroupsAndBrackets, Step
<1>7. j.step = "running" /\ DOMAIN j = JobFields
  BY <1>1 DEF JobOk, JobFields
<1> HIDE DEF j
<1>8. JobOk(db', j)
  BY <1>7, StartingOk DEF Working
<1> QED
  BY <1>5, <1>6, <1>7, <1>8, PlainAdvances

(* Run, and the jobs of a round that is due: they go through the matches that wait. *)
LEMMA ActivationAdvances ==
  ASSUME ResultsInv, NEW s \in Schedulers, Run(s) \/ processBetweenRounds(s) \/ activatePendingFinalsMatches(s)
  PROVE  Advances
<1>1. MoneyInv /\ Bracket(db)
  BY DEF ResultsInv
<1>2. db'.matches = db.matches /\ db'.rooms = db.rooms
  BY <1>1, DocsStay DEF processBetweenRounds, activatePendingFinalsMatches
<1>3. Moves(db, db', 0)
  BY <1>1, <1>2, StaysMove
<1>4. PICK t, round : sched' = [sched EXCEPT ![s] = [Activation(t, round) EXCEPT !.key = TournamentKey]]
  BY DEF Run, processBetweenRounds, activatePendingFinalsMatches, Step, Acquire
<1> DEFINE j == Activation(t, round)
           n == [j EXCEPT !.key = TournamentKey]
<1>5. j.step = "activating" /\ DOMAIN j = JobFields /\ j.todo = pendingMatches(db, round)
  BY DEF Activation, Idle, JobFields
<1> HIDE DEF j
<1>6. n.step = "activating" /\ n.todo = pendingMatches(db, round) /\ DOMAIN n = JobFields
  BY <1>5 DEF JobFields
<1>7. sched' = [sched EXCEPT ![s] = n]
  BY <1>4 DEF j
<1> HIDE DEF n
<1>8. JobOk(db', n)
  BY <1>2, <1>6 DEF pendingMatches, JobOk
<1> QED
  BY <1>3, <1>6, <1>7, <1>8, PlainAdvances

(* ActivateMatch: the first of the matches that wait gets its room, or is a bye. *)
LEMMA ActivateMatchAdvances ==
  ASSUME ResultsInv, NEW s \in Schedulers, ActivateMatch(s)
  PROVE  Advances
<1>1. Shape(db) /\ Bracket(db) /\ Jobs /\ JobOk(db, sched[s]) /\ DOMAIN sched = Schedulers
  BY DEF ResultsInv, Jobs, MoneyInv, Sound
<1>2. sched[s].step = "activating" /\ sched[s].todo # {}
  BY DEF ActivateMatch
<1>3. DOMAIN sched[s] = JobFields /\ sched[s].todo \subseteq DOMAIN db.matches
  BY <1>1, <1>2 DEF JobOk, Working
<1> DEFINE i == Earliest(sched[s].todo)
           m == db.matches[i]
           here == {m.a, m.b} \ {None}
           rest == [sched[s] EXCEPT !.todo = @ \ {i}]
<1>4. i \in sched[s].todo /\ i \in DOMAIN db.matches
  <2>1. sched[s].todo \subseteq Nat
    BY <1>1, <1>3, DocsLength DEF Bracket
  <2>2. i \in sched[s].todo
    BY <1>2, <2>1, EarliestIn
  <2> QED
    BY <1>3, <2>2
<1>5. rest.step = "activating" /\ rest.todo = sched[s].todo \ {i} /\ DOMAIN rest = JobFields
  BY <1>2, <1>3 DEF JobFields
<1>6. CASE db' = db
  <2> DEFINE w == CHOOSE u \in here : TRUE
             j == [rest EXCEPT !.step = "deciding", !.match = i, !.winner = w]
  <2>1. Moves(db, db', 0)
    BY <1>1, <1>6, StaysMove
  <2>2. CASE End(s)
    BY <2>1, <2>2, EndAdvances
  <2>3. CASE Step(s, rest)
    <3>1. JobOk(db', rest)
      BY <1>3, <1>5, <1>6 DEF JobOk
    <3> HIDE DEF rest
    <3> QED
      BY <1>5, <2>1, <2>3, <3>1, PlainAdvances DEF Step
  <2>4. CASE Cardinality(here) = 1 /\ Step(s, j)
    <3>1. w \in here
      <4>1. here # {}
        BY <2>4, FS_EmptySet
      <4> HIDE DEF here
      <4> QED
        BY <4>1
    <3>2. Earned(db, i, w) /\ w # None
      <4>1. ~Full(m)
        BY <2>4 DEF Full
      <4> HIDE DEF w, i
      <4> QED
        BY <3>1, <4>1 DEF Earned
    <3> HIDE DEF rest, here, w
    <3>3. j.step = "deciding" /\ j.todo = sched[s].todo \ {i} /\ j.match = i /\ j.winner = w /\ DOMAIN j = JobFields
      BY <1>5 DEF JobFields
    <3> HIDE DEF j, i
    <3>4. JobOk(db', j)
      BY <1>3, <1>4, <1>6, <3>2, <3>3 DEF JobOk
    <3> QED
      BY <2>1, <2>4, <3>3, <3>4, PlainAdvances DEF Step
  <2>5. \/ End(s) \/ Step(s, rest) \/ (Cardinality(here) = 1 /\ Step(s, j))
        \/ \E room : db' = [db EXCEPT !.rooms = Append(@, room)]
    <3> HIDE DEF rest, here
    <3> QED
      BY DEF ActivateMatch, rest, here
  <2>6. ~\E room : db' = [db EXCEPT !.rooms = Append(@, room)]
    <3> SUFFICES ASSUME NEW room, db' = [db EXCEPT !.rooms = Append(@, room)]
                 PROVE  FALSE
      OBVIOUS
    <3>1. db.rooms = Append(db.rooms, room)
      BY <1>1, <1>6 DEF Shape
    <3> QED
      BY <1>1, <3>1, DocsLength, LongerDocs DEF Bracket
  <2> QED
    BY <2>2, <2>3, <2>4, <2>5, <2>6
<1>7. CASE db' # db
  <2> DEFINE room == [match |-> i, open |-> TRUE, winner |-> None]
             k == Len(db.rooms) + 1
             j == [rest EXCEPT !.step = "opening", !.match = i, !.room = k]
  <2>1. /\ Cardinality(here) = 2 /\ db' = [db EXCEPT !.rooms = Append(@, room)]
        /\ sched' = [sched EXCEPT ![s] = j]
    <3> HIDE DEF rest
    <3> QED
      BY <1>7 DEF ActivateMatch, Step, rest
  <2>2. Full(m)
    BY <2>1 DEF Full
  <2> HIDE DEF rest, here, i
  <2>3. db'.rooms = Append(db.rooms, room) /\ db'.matches = db.matches
    BY <1>1, <2>1 DEF Shape
  <2>4. DOMAIN room = RoomFields /\ room.match = i /\ room.winner = None
    BY DEF RoomFields
  <2> HIDE DEF room
  <2>5. /\ Moves(db, db', 0) /\ k \in DOMAIN db'.rooms /\ k \notin DOMAIN db.rooms
        /\ db'.rooms[k] = room /\ k # 0
    <3> HIDE DEF k
    <3> QED
      BY <1>1, <1>4, <2>2, <2>3, <2>4, RoomMove DEF k
  <2> HIDE DEF k
  <2>6. j.step = "opening" /\ j.todo = sched[s].todo \ {i} /\ j.match = i /\ j.room = k /\ DOMAIN j = JobFields
    BY <1>5 DEF JobFields
  <2> HIDE DEF j
  <2>7. db.matches[i].room # k
    BY <1>1, <1>4, <2>5 DEF Bracket, MatchOk
  <2>8. JobOk(db', j)
    BY <1>3, <1>4, <2>3, <2>4, <2>5, <2>6, <2>7 DEF JobOk
  <2>9. \A t \in Schedulers \ {s} : Apart(sched[t], 0) /\ (sched[t].step = "opening" => sched[t].room # j.room)
    BY <1>1, <2>5, <2>6 DEF Apart, Jobs, JobOk
  <2>10. Jobs'
    BY <1>1, <2>1, <2>5, <2>8, <2>9, JobsStep
  <2> QED
    BY <2>5, <2>10 DEF Advances
<1> QED
  BY <1>6, <1>7

(* SaveReady: the job's new room is that of one match. *)
LEMMA SaveReadyAdvances ==
  ASSUME ResultsInv, NEW s \in Schedulers, SaveReady(s)
  PROVE  Advances /\ Moves(db, db', sched[s].room)
<1>1. Shape(db) /\ Bracket(db) /\ Jobs /\ JobOk(db, sched[s])
  BY DEF ResultsInv, Jobs, MoneyInv, Sound
<1> DEFINE i == sched[s].match
           r == sched[s].room
           m == db.matches[i]
           n == [[m EXCEPT !.room = r] EXCEPT !.status = "ready"]
           j == [sched[s] EXCEPT !.step = "activating"]
<1>2. /\ sched[s].step = "opening" /\ sched' = [sched EXCEPT ![s] = j]
      /\ db' = [db EXCEPT !.matches[i].room = r, !.matches[i].status = "ready"]
  BY DEF SaveReady, Step
<1>3. /\ i \in DOMAIN db.matches /\ m.room # r /\ r \in DOMAIN db.rooms /\ db.rooms[r].match = i /\ r # 0
      /\ DOMAIN sched[s] = JobFields /\ sched[s].todo \subseteq DOMAIN db.matches
  BY <1>1, <1>2 DEF JobOk, Working
<1>4. DOMAIN m = MatchFields
  BY <1>1, <1>3 DEF Bracket, Docs
<1>5. j.step = "activating" /\ j.todo = sched[s].todo /\ DOMAIN j = JobFields
  BY <1>3 DEF JobFields
<1> HIDE DEF i, r, m, j
<1>6. db'.matches = [db.matches EXCEPT ![i] = n] /\ db'.rooms = db.rooms
  BY <1>1, <1>2, <1>3, <1>4 DEF Shape, MatchFields, m
<1> HIDE DEF n
<1>7. Moves(db, db', r)
  <2>1. n = [[db.matches[i] EXCEPT !.room = r] EXCEPT !.status = "ready"] /\ db.matches[i].room # r
    BY <1>3 DEF n, m
  <2>2. Bracket(db) /\ i \in DOMAIN db.matches /\ r \in DOMAIN db.rooms /\ db.rooms[r].match = i /\ r # 0
    BY <1>1, <1>3
  <2> QED
    BY ONLY <1>6, <2>1, <2>2, ReadyMove
<1>8. JobOk(db', j)
  <2>1. DOMAIN db.matches \subseteq DOMAIN db'.matches
    BY <1>7 DEF Moves, Grown
  <2> QED
    BY <1>3, <1>5, <2>1 DEF JobOk
<1>9. \A t \in Schedulers \ {s} : Apart(sched[t], r)
  BY <1>1, <1>2 DEF Apart, Jobs, r
<1> QED
  BY <1>2, <1>5, <1>7, <1>8, <1>9, StepAdvances DEF r

(* repairStuckMatchesFromFinishedRooms: the room of the match is over. *)
LEMMA repairAdvances ==
  ASSUME ResultsInv, NEW s \in Schedulers, NEW i \in DOMAIN db.matches, repairStuckMatchesFromFinishedRooms(s, i)
  PROVE  Advances
<1>1. Bracket(db)
  BY DEF ResultsInv
<1> DEFINE r == db.matches[i].room
           w == db.rooms[r].winner
           j == [Idle EXCEPT !.step = "deciding", !.match = i, !.winner = w]
           n == [j EXCEPT !.key = <<"stuck", i>>]
<1>2. /\ db.matches[i].status = "ready" /\ ~db.rooms[r].open /\ w # None
      /\ sched' = [sched EXCEPT ![s] = n] /\ db' = db
  BY DEF repairStuckMatchesFromFinishedRooms, Acquire
<1> HIDE DEF w
<1>3. j.step = "deciding" /\ j.match = i /\ j.winner = w /\ j.todo = {} /\ DOMAIN j = JobFields
  BY DEF Idle, JobFields
<1> HIDE DEF j
<1>4. n.step = "deciding" /\ n.match = i /\ n.winner = w /\ n.todo = {} /\ DOMAIN n = JobFields
  BY <1>3 DEF JobFields
<1>5. r \in DOMAIN db.rooms /\ db.rooms[r].match = i
  BY <1>1, <1>2 DEF Bracket, MatchOk
<1> HIDE DEF n, r
<1>6. Earned(db, i, w)
  BY <1>2, <1>5 DEF Earned, w
<1>7. JobOk(db', n)
  BY <1>2, <1>4, <1>6 DEF JobOk
<1>8. Moves(db, db', 0)
  BY <1>1, <1>2, StaysMove
<1> QED
  BY <1>2, <1>4, <1>7, <1>8, PlainAdvances

(* The job returns to its round, or ends. *)
LEMMA ReturnAdvances ==
  ASSUME ResultsInv, NEW s \in Schedulers, sched[s].step \in Working, Return(s), Moves(db, db', 0)
  PROVE  Advances
<1> DEFINE j == [sched[s] EXCEPT !.step = "activating"]
<1>1. End(s) \/ sched' = [sched EXCEPT ![s] = j]
  BY DEF Return, Step
<1>2. JobOk(db, sched[s])
  BY DEF ResultsInv, Jobs
<1>3. j.step = "activating" /\ j.todo = sched[s].todo /\ DOMAIN j = JobFields
  BY <1>2 DEF JobOk, JobFields
<1> HIDE DEF j
<1>4. JobOk(db, j)
  BY <1>2, <1>3 DEF JobOk
<1>5. JobOk(db', j)
  BY <1>4, JobStays DEF Apart
<1> QED
  BY <1>1, <1>3, <1>5, PlainAdvances, EndAdvances

(* ReadMatch, EliminateLoser, CloseRound, EndActivation, and the death of the process. *)
LEMMA RestAdvances ==
  ASSUME ResultsInv, NEW s \in Schedulers,
         ReadMatch(s) \/ EliminateLoser(s) \/ CloseRound(s) \/ EndActivation(s) \/ SchedulerDies(s)
  PROVE  Advances /\ Moves(db, db', 0)
<1>1. MoneyInv /\ Shape(db) /\ Bracket(db) /\ JobOk(db, sched[s])
  BY DEF ResultsInv, Jobs, MoneyInv, Sound
<1>2. DOMAIN sched[s] = JobFields
  BY <1>1 DEF JobOk
<1>3. CASE ReadMatch(s)
  <2>1. Moves(db, db', 0) /\ db' = db /\ sched[s].step = "deciding"
    BY <1>1, <1>3, StaysMove DEF ReadMatch
  <2> DEFINE j == [sched[s] EXCEPT !.step = "saving"]
  <2>2. Return(s) \/ sched' = [sched EXCEPT ![s] = j]
    BY <1>3 DEF ReadMatch, Step
  <2>3. /\ j.step = "saving" /\ j.todo = sched[s].todo /\ j.match = sched[s].match /\ j.winner = sched[s].winner
        /\ DOMAIN j = JobFields
    BY <1>2 DEF JobFields
  <2> HIDE DEF j
  <2>4. JobOk(db', j)
    BY <1>1, <2>1, <2>3 DEF JobOk, Working
  <2>5. Advances
    BY <2>1, <2>2, <2>3, <2>4, PlainAdvances, ReturnAdvances DEF Working
  <2> QED
    BY <2>1, <2>5
<1>4. CASE EliminateLoser(s)
  <2> DEFINE j == [sched[s] EXCEPT !.step = "closing"]
  <2>1. sched' = [sched EXCEPT ![s] = j] /\ sched[s].step = "eliminating"
    BY <1>4 DEF EliminateLoser, Step
  <2>2. j.step = "closing" /\ j.todo = sched[s].todo /\ j.match = sched[s].match /\ DOMAIN j = JobFields
    BY <1>2 DEF JobFields
  <2> HIDE DEF j
  <2>3. JobOk(db, j)
    BY <1>1, <2>1, <2>2 DEF JobOk, Working
  <2>4. Moves(db, db', 0)
    BY <1>1, <1>4, DocsStay, StaysMove
  <2>5. JobOk(db', j)
    BY <2>3, <2>4, JobStays DEF Apart
  <2>6. Advances
    BY <2>1, <2>2, <2>4, <2>5, PlainAdvances
  <2> QED
    BY <2>4, <2>6
<1>5. CASE CloseRound(s)
  <2>1. db' \in checkRoundComplete(db, sched[s].match) \/ db' = markGroupWinners(db) \/ db' = db
    BY <1>5 DEF CloseRound
  <2>2. Grows(db, db')
    <3>1. {"parts", "matches", "rooms"} \subseteq DOMAIN db
      BY <1>1 DEF Shape
    <3>2. db' = markGroupWinners(db) \/ db' = db => db'.matches = db.matches /\ db'.rooms = db.rooms
      BY <3>1, MarkedGrows
    <3> QED
      BY <1>1, <2>1, <3>2, checkRoundCompleteGrows DEF Grows
  <2>3. Moves(db, db', 0)
    BY <1>1, <2>2, GrowsMove
  <2>4. sched[s].step = "closing" /\ (Return(s) \/ End(s))
    BY <1>5 DEF CloseRound
  <2>5. Advances
    BY <2>3, <2>4, ReturnAdvances, EndAdvances DEF Working
  <2> QED
    BY <2>3, <2>5
<1>6. CASE EndActivation(s) \/ SchedulerDies(s)
  <2>1. End(s) /\ (db' = db \/ EndActivation(s))
    BY <1>6 DEF EndActivation, SchedulerDies
  <2>2. Moves(db, db', 0)
    BY <1>1, <2>1, DocsStay, StaysMove
  <2>3. Advances
    BY <2>1, <2>2, EndAdvances
  <2> QED
    BY <2>2, <2>3
<1> QED
  BY <1>3, <1>4, <1>5, <1>6

(* SaveMatch: whoever the job decides the match for has won it. *)
LEMMA SaveMatchAdvances ==
  ASSUME ResultsInv, NEW s \in Schedulers, SaveMatch(s)
  PROVE  Advances
<1>1. Shape(db) /\ Bracket(db) /\ JobOk(db, sched[s])
  BY DEF ResultsInv, Jobs, MoneyInv, Sound
<1> DEFINE i == sched[s].match
           w == sched[s].winner
           j == [sched[s] EXCEPT !.step = "eliminating"]
<1>2. sched[s].step = "saving" /\ sched' = [sched EXCEPT ![s] = j] /\ db' = decide(db, i, w, Reason(s))
  BY DEF SaveMatch, Step
<1>3. j.step = "eliminating" /\ j.todo = sched[s].todo /\ j.match = i /\ DOMAIN j = JobFields
  BY <1>1 DEF JobOk, JobFields
<1>4. i \in DOMAIN db.matches /\ w # None /\ Earned(db, i, w)
  BY <1>1, <1>2 DEF JobOk
<1> HIDE DEF i, w, j
<1>5. Decides(db, db', i, w)
  <2>1. {"matches", "rooms"} \subseteq DOMAIN db /\ Docs(db.matches, MatchFields)
    BY <1>1 DEF Shape, Bracket
  <2> QED
    BY <1>2, <1>4, <2>1, decideDocs
<1>6. Moves(db, db', 0)
  BY <1>1, <1>4, <1>5, DecidesMove
<1>7. JobOk(db', j)
  <2>1. DOMAIN db'.matches = DOMAIN db.matches
    BY <1>5 DEF Decides
  <2> QED
    BY <1>1, <1>2, <1>3, <1>4, <2>1 DEF JobOk, Working
<1> QED
  BY <1>2, <1>3, <1>6, <1>7, PlainAdvances

(* Every step. *)
LEMMA NextAdvances ==
  ASSUME ResultsInv, [Next]_vars
  PROVE  Advances
<1>1. ASSUME NEW s \in Schedulers,
             \/ ListDue(s) \/ TakeUpStart(s) \/ SaveLocking(s) \/ CancelStart(s) \/ RefundNext(s)
             \/ generateGroupsAndBrackets(s)
             \/ Run(s) \/ processBetweenRounds(s) \/ activatePendingFinalsMatches(s)
             \/ ActivateMatch(s) \/ SaveReady(s)
             \/ \E i \in DOMAIN db.matches : repairStuckMatchesFromFinishedRooms(s, i)
             \/ SaveMatch(s)
             \/ ReadMatch(s) \/ EliminateLoser(s) \/ CloseRound(s) \/ EndActivation(s) \/ SchedulerDies(s)
      PROVE  Advances
  BY <1>1, StartAdvances, generateAdvances, ActivationAdvances, ActivateMatchAdvances, SaveReadyAdvances, repairAdvances,
     SaveMatchAdvances, RestAdvances
<1>2. CASE \/ openTournament \/ StartsAtPasses \/ cancel
           \/ \E u \in Players : register(u) \/ unregister(u) \/ refundCancelled(u)
           \/ \E r \in Rooms : BeginCommand(r) \/ EndWithoutWinner(r) \/ \E w \in Pair(db, r) : LeaveRoom(r, w)
           \/ \E x \in tx : AbortCommand(x)
           \/ \E key \in locks : LockExpires(key)
           \/ UNCHANGED vars
  BY <1>2, OthersAdvance
<1>3. CASE \E x \in tx : FinishGame(x)
  BY <1>3, FinishGameAdvances
<1> QED
  BY <1>1, <1>2, <1>3 DEF Next

(* Who begins to read reads what is there. *)
LEMMA TxStep ==
  ASSUME [Next]_vars
  PROVE  tx' \subseteq tx \/ \E r \in Rooms : BeginCommand(r)
BY DEF Next, openTournament, StartsAtPasses, cancel, register, unregister, refundCancelled, FinishGame, AbortCommand,
   LeaveRoom, EndWithoutWinner, ListDue, TakeUpStart, SaveLocking, CancelStart, RefundNext, generateGroupsAndBrackets,
   Run, processBetweenRounds, activatePendingFinalsMatches, ActivateMatch, SaveReady, EndActivation,
   repairStuckMatchesFromFinishedRooms, ReadMatch, SaveMatch, EliminateLoser, CloseRound, SchedulerDies, LockExpires, vars

(* What a command has read is a tournament as it was, and its rooms are still there. *)
LEMMA ReadsStep ==
  ASSUME ResultsInv, [Next]_vars, Advances
  PROVE  Reads'
<1>1. PICK R : Moves(db, db', R)
  BY DEF Advances
<1>2. tx' \subseteq tx \/ \E r \in Rooms : BeginCommand(r)
  BY TxStep
<1>3. ASSUME NEW x \in tx
      PROVE  /\ Bracket(x.read) /\ x.room \in DOMAIN x.read.rooms /\ x.read.rooms[x.room].open = TRUE
             /\ \A r \in DOMAIN x.read.rooms : r \in DOMAIN db'.rooms /\ db'.rooms[r].match = x.read.rooms[r].match
  BY <1>1 DEF ResultsInv, Reads, Moves, Grown
<1>4. CASE tx' \subseteq tx
  BY <1>3, <1>4 DEF Reads
<1>5. CASE \E r \in Rooms : BeginCommand(r)
  <2>1. PICK r \in Rooms : db.rooms[r].open = TRUE /\ tx' = tx \cup {[room |-> r, read |-> db]} /\ db' = db
    BY <1>5 DEF BeginCommand
  <2>2. Bracket(db) /\ r \in DOMAIN db.rooms
    BY <2>1 DEF ResultsInv, Rooms
  <2> DEFINE y == [room |-> r, read |-> db]
  <2>3. /\ Bracket(y.read) /\ y.room \in DOMAIN y.read.rooms /\ y.read.rooms[y.room].open = TRUE
        /\ \A q \in DOMAIN y.read.rooms : q \in DOMAIN db'.rooms /\ db'.rooms[q].match = y.read.rooms[q].match
    BY <2>1, <2>2
  <2> HIDE DEF y
  <2>4. \A x \in tx' : x \in tx \/ x = y
    BY <2>1 DEF y
  <2> QED
    BY <1>3, <2>3, <2>4 DEF Reads
<1> QED
  BY <1>2, <1>4, <1>5

(* The start: there is no match and no job. *)
LEMMA ResultsInit ==
  ASSUME Init
  PROVE  ResultsInv
<1>1. db.matches = <<>> /\ db.rooms = <<>> /\ tx = {} /\ sched = [s \in Schedulers |-> Idle]
  BY DEF Init
<1>2. Idle.step = "idle" /\ DOMAIN Idle = JobFields
  BY DEF Idle, JobFields
<1>3. Bracket(db)
  BY <1>1 DEF Bracket, Docs
<1>4. JobOk(db, Idle)
  BY <1>2, StartingOk DEF Working
<1>5. Jobs /\ Reads
  BY <1>1, <1>2, <1>4 DEF Jobs, Reads
<1> QED
  BY <1>3, <1>5, MoneyInit DEF ResultsInv

(* Every step keeps the invariant. *)
LEMMA ResultsInvariant == Spec => []ResultsInv
<1>1. Init => ResultsInv
  BY ResultsInit
<1>2. ResultsInv /\ [Next]_vars => ResultsInv'
  <2> SUFFICES ASSUME ResultsInv, [Next]_vars
               PROVE  ResultsInv'
    OBVIOUS
  <2>1. Advances
    BY NextAdvances
  <2>2. Bracket(db)' /\ Jobs'
    BY <2>1 DEF Advances, Moves
  <2>3. MoneyInv' /\ Reads'
    BY <2>1, MoneyStep, ReadsStep DEF ResultsInv
  <2> QED
    BY <2>2, <2>3 DEF ResultsInv
<1> QED
  BY <1>1, <1>2, PTL DEF Spec

(* A match with one room at most, by their number. *)
LEMMA OneRoomCounted ==
  ASSUME NEW d, Docs(d.rooms, RoomFields), NEW i, Cardinality(RoomsOf(d, i)) <= 1
  PROVE  OneRoom(d, i)
<1>1. IsFiniteSet(RoomsOf(d, i))
  <2>1. IsFiniteSet(DOMAIN d.rooms)
    BY DocsLength, FS_Interval
  <2> QED
    BY <2>1, FS_Subset DEF RoomsOf
<1>2. SUFFICES ASSUME NEW r \in RoomsOf(d, i), NEW q \in RoomsOf(d, i), r # q
               PROVE  FALSE
  BY DEF OneRoom, RoomsOf
<1>3. Cardinality({r, q}) = 2
  <2>1. Cardinality({r}) = 1 /\ IsFiniteSet({r})
    BY FS_Singleton
  <2>2. Cardinality({r} \cup {q}) = Cardinality({r}) + 1
    BY <1>2, <2>1, FS_AddElement
  <2>3. {r, q} = {r} \cup {q}
    OBVIOUS
  <2> QED
    BY <2>1, <2>2, <2>3
<1>4. Cardinality({r, q}) <= Cardinality(RoomsOf(d, i)) /\ Cardinality(RoomsOf(d, i)) \in Nat
  <2>1. {r, q} \subseteq RoomsOf(d, i)
    OBVIOUS
  <2> QED
    BY <1>1, <2>1, FS_Subset, FS_CardinalityType
<1> QED
  BY <1>3, <1>4

(* ResultStands: for any number of users, schedulers and commands, and every trouble. *)
THEOREM TournamentResultsStand == Spec => ResultStands
<1>1. ASSUME ResultsInv, Next, NEW i \in DOMAIN db.matches,
             db.matches[i].winner # None, Cardinality(RoomsOf(db', i)) <= 1
      PROVE  /\ db'.matches[i].winner = db.matches[i].winner /\ db'.matches[i].loser = db.matches[i].loser
             /\ Decided(db.matches[i]) /\ (db.matches[i].room # 0 \/ RoomsOf(db', i) = {}) => Decided(db'.matches[i])
  <2>1. PICK R : Moves(db, db', R)
    BY <1>1, NextAdvances DEF Advances
  <2>2. OneRoom(db', i)
    BY <1>1, <2>1, OneRoomCounted DEF Moves, Bracket
  <2>3. RoomsOf(db', i) = {} => Unplayed(db', i)
    BY DEF RoomsOf, Unplayed
  <2> QED
    BY <1>1, <2>1, <2>2, <2>3 DEF Moves, Lasts
<1>2. ResultsInv /\ [Next]_vars =>
        [\A i \in DOMAIN db.matches :
           LET m == db.matches[i]
               next == db'.matches[i]
           IN m.winner # None /\ Cardinality(RoomsOf(db', i)) <= 1 =>
                /\ next.winner = m.winner /\ next.loser = m.loser
                /\ Decided(m) /\ (m.room # 0 \/ RoomsOf(db', i) = {}) => Decided(next)]_vars
  BY <1>1
<1> QED
  BY <1>2, ResultsInvariant, PTL DEF Spec, ResultStands

\* Whoever is the winner of a match had no opponent, or a room of the match ended with
\* him as the winner; the loser is who was there besides him.
WinnersEarned ==
  \A i \in DOMAIN db.matches :
    LET m == db.matches[i]
    IN m.winner # None =>
         /\ \/ Cardinality({m.a, m.b} \ {None}) # 2 /\ m.winner \in {m.a, m.b}
            \/ \E r \in RoomsOf(db, i) : ~db.rooms[r].open /\ db.rooms[r].winner = m.winner
         /\ m.winner \in {m.a, m.b} /\ m.loser = IF m.a = m.winner THEN m.b ELSE m.a

(* advanceWinner: nobody is put through who has not won his match, however many rooms
   it was opened and whoever decides it: its game, a bye or a repair. *)
THEOREM TournamentWinnersEarned == Spec => []WinnersEarned
<1>1. ResultsInv => WinnersEarned
  <2> SUFFICES ASSUME Bracket(db), NEW i \in DOMAIN db.matches, db.matches[i].winner # None
               PROVE  LET m == db.matches[i]
                      IN /\ \/ Cardinality({m.a, m.b} \ {None}) # 2 /\ m.winner \in {m.a, m.b}
                            \/ \E r \in RoomsOf(db, i) : ~db.rooms[r].open /\ db.rooms[r].winner = m.winner
                         /\ m.winner \in {m.a, m.b} /\ m.loser = IF m.a = m.winner THEN m.b ELSE m.a
    BY DEF ResultsInv, WinnersEarned
  <2> DEFINE m == db.matches[i]
  <2>1. Earned(db, i, m.winner) /\ m.loser = IF m.a = m.winner THEN m.b ELSE m.a
    BY DEF Bracket, MatchOk, Other
  <2>2. CASE ~Full(m) /\ m.winner \in {m.a, m.b} \ {None}
    BY <2>1, <2>2 DEF Full
  <2>3. ASSUME NEW r \in DOMAIN db.rooms, db.rooms[r].match = i, ~db.rooms[r].open, db.rooms[r].winner = m.winner
        PROVE  r \in RoomsOf(db, i) /\ m.winner \in {m.a, m.b}
    BY <2>3 DEF Bracket, RoomOk, RoomsOf
  <2> QED
    BY <2>1, <2>2, <2>3 DEF Earned
<1> QED
  BY <1>1, ResultsInvariant, PTL
----------------------------------------------------------------------------
(* Who meets whom. *)

(* Some participants in the order of their seeds: every rank is taken. *)
LEMMA Ranks ==
  ASSUME NEW d, Shape(d), NEW P, P \subseteq DOMAIN d.parts
  PROVE  /\ IsFiniteSet(P) /\ Cardinality(P) \in Nat
         /\ \A n \in 1..Cardinality(P) : \E i \in P : Cardinality({j \in P : Before(d, j, i)}) = n - 1
<1> DEFINE N == Cardinality(P)
           Below(i) == {j \in P : Before(d, j, i)}
           R == [i \in P |-> Cardinality(Below(i))]
<1>1. IsFiniteSet(P) /\ N \in Nat /\ P \subseteq Nat
  <2>1. DOMAIN d.parts = 1..Len(d.parts) /\ Len(d.parts) \in Nat
    BY DEF Shape
  <2>2. IsFiniteSet(DOMAIN d.parts)
    BY <2>1, FS_Interval
  <2>3. DOMAIN d.parts \subseteq Nat
    BY <2>1
  <2> QED
    BY <2>2, <2>3, FS_Subset, FS_CardinalityType
<1>2. \A i \in P : d.parts[i].seed \in Int /\ i \in Nat
  BY <1>1, PartsTyped DEF Participant
<1>3. ASSUME NEW i \in P
      PROVE  IsFiniteSet(Below(i)) /\ i \notin Below(i) /\ Cardinality(Below(i)) \in 0..(N - 1)
  <2>1. i \notin Below(i)
    BY <1>2 DEF Before
  <2>2. Below(i) \subseteq P \ {i}
    BY <2>1
  <2>3. IsFiniteSet(P \ {i}) /\ Cardinality(P \ {i}) = N - 1
    BY <1>1, FS_RemoveElement
  <2> HIDE DEF Below, N
  <2>4. IsFiniteSet(Below(i)) /\ Cardinality(Below(i)) <= N - 1 /\ Cardinality(Below(i)) \in Nat
    BY <2>2, <2>3, FS_Subset, FS_CardinalityType
  <2> QED
    BY <1>1, <2>1, <2>4
<1>4. ASSUME NEW i \in P, NEW k \in P, Before(d, i, k)
      PROVE  Cardinality(Below(i)) < Cardinality(Below(k))
  <2>1. Below(i) \cup {i} \subseteq Below(k)
    BY <1>2, <1>4 DEF Before
  <2> HIDE DEF Below
  <2>2. Cardinality(Below(i) \cup {i}) = Cardinality(Below(i)) + 1
    BY <1>3, FS_AddElement
  <2>3. Cardinality(Below(i) \cup {i}) <= Cardinality(Below(k))
    BY <1>3, <2>1, FS_Subset
  <2>4. Cardinality(Below(i)) \in Nat /\ Cardinality(Below(k)) \in Nat
    BY <1>3, FS_CardinalityType
  <2> QED
    BY <2>2, <2>3, <2>4
<1>5. ASSUME NEW i \in P, NEW k \in P, R[i] = R[k]
      PROVE  i = k
  <2>1. i # k => Before(d, i, k) \/ Before(d, k, i)
    BY <1>2 DEF Before
  <2> HIDE DEF Below
  <2>2. Cardinality(Below(i)) = Cardinality(Below(k)) /\ Cardinality(Below(i)) \in Int
    BY <1>1, <1>3, <1>5
  <2>3. \A x \in Int : ~(x < x)
    OBVIOUS
  <2> QED
    BY <1>4, <2>1, <2>2, <2>3
<1> HIDE DEF Below, N
<1>6. R \in Injection(P, 0..(N - 1))
  BY <1>3, <1>5 DEF Injection, IsInjective
<1>7. IsFiniteSet(0..(N - 1)) /\ Cardinality(0..(N - 1)) = N
  <2>1. 0 \in Int /\ N - 1 \in Int /\ (IF 0 > N - 1 THEN 0 ELSE (N - 1) - 0 + 1) = N
    BY <1>1
  <2> QED
    BY <2>1, FS_Interval
<1>8. R \in Surjection(P, 0..(N - 1))
  BY <1>6, <1>7, FS_Injection DEF N
<1>9. \A n \in 1..N : \E i \in P : R[i] = n - 1
  <2>1. \A n \in 1..N : n - 1 \in 0..(N - 1)
    BY <1>1
  <2> QED
    BY <1>8, <2>1 DEF Surjection
<1> QED
  BY <1>1, <1>9 DEF N, Below

(* BySeed: users of these places, one of each. *)
LEMMA BySeedPlaces ==
  ASSUME NEW d, Shape(d), Single(d), NEW P, P \subseteq DOMAIN d.parts
  PROVE  LET us == BySeed(d, P)
         IN /\ Len(us) = Cardinality(P) /\ Len(us) \in Nat
            /\ \A n \in 1..Len(us) : \E i \in P : us[n] = d.parts[i].user
            /\ \A n, m \in 1..Len(us) : us[n] = us[m] => n = m
<1> DEFINE N == Cardinality(P)
           Rank(i) == Cardinality({j \in P : Before(d, j, i)})
           Place(n) == CHOOSE i \in P : Rank(i) = n - 1
           us == BySeed(d, P)
<1>1. N \in Nat /\ \A n \in 1..N : \E i \in P : Rank(i) = n - 1
  BY Ranks
<1> HIDE DEF Rank
<1>2. \A n \in 1..N : Place(n) \in P /\ Rank(Place(n)) = n - 1
  BY <1>1
<1>3. us = [n \in 1..N |-> d.parts[Place(n)].user]
  BY DEF BySeed, Rank
<1> HIDE DEF us, N, Place
<1>4. Len(us) = N
  BY <1>1, <1>3
<1>5. \A n \in 1..N : us[n] = d.parts[Place(n)].user
  BY <1>3
<1>6. ASSUME NEW n \in 1..N, NEW m \in 1..N, us[n] = us[m]
      PROVE  n = m
  <2>1. Place(n) = Place(m)
    BY <1>2, <1>5, <1>6 DEF Single
  <2>2. n - 1 = m - 1
    BY <1>2, <2>1
  <2> QED
    BY <1>1, <2>2
<1> QED
  BY <1>1, <1>2, <1>4, <1>5, <1>6 DEF us, N

(* The numbers of groups. *)
LEMMA GroupNumbers == Groups \in Nat \ {0} /\ Groups \in {1} \cup TwoPower
BY TournamentAssumption DEF Groups, TwoPower

(* One sequence alone. *)
LEMMA FlattenOne ==
  ASSUME NEW ss, Len(ss) = 1
  PROVE  FlattenSeq(ss) = ss[1]
<1> DEFINE Next1(f) == [i \in 1..1 |-> IF i = 1 THEN ss[i] ELSE f[i - 1] \o ss[i]]
<1>1. FlattenSeq(ss) = (CHOOSE f : f = Next1(f))[1]
  BY DEF FlattenSeq
<1>2. \E f : f = Next1(f)
  <2> DEFINE g == [i \in 1..1 |-> ss[i]]
  <2>1. g = Next1(g)
    OBVIOUS
  <2> QED
    BY <2>1
<1>3. LET f == CHOOSE f : f = Next1(f) IN f = Next1(f)
  BY <1>2
<1>4. (CHOOSE f : f = Next1(f))[1] = ss[1]
  BY <1>3
<1> QED
  BY <1>1, <1>4

(* bracketSeedOrder: of two, the first meets the second. *)
LEMMA SeedsOfTwo == seedOrder[2] = <<1, 2>>
<1> DEFINE D == {1} \cup TwoPower
           Paired(p, n) == FlattenSeq([i \in 1..(n \div 2) |-> <<p[i], n + 1 - p[i]>>])
           Order(f, n) == IF n <= 1 THEN <<1>> ELSE Paired(f[n \div 2], n)
           IsOrder(f) == f = [n \in D |-> Order(f, n)]
<1>1. seedOrder = CHOOSE f : IsOrder(f)
  BY DEF seedOrder
<1>2. \E f : IsOrder(f)
  <2> DEFINE s1 == <<1>>
             s2 == Paired(s1, 2)
             s4 == Paired(s2, 4)
             s8 == Paired(s4, 8)
             s16 == Paired(s8, 16)
             s32 == Paired(s16, 32)
             s64 == Paired(s32, 64)
             s128 == Paired(s64, 128)
             s256 == Paired(s128, 256)
             s512 == Paired(s256, 512)
             Value(n) == CASE n = 1 -> s1
                           [] n = 2 -> s2
                           [] n = 4 -> s4
                           [] n = 8 -> s8
                           [] n = 16 -> s16
                           [] n = 32 -> s32
                           [] n = 64 -> s64
                           [] n = 128 -> s128
                           [] n = 256 -> s256
                           [] n = 512 -> s512
             f == [n \in D |-> Value(n)]
  <2> HIDE DEF Paired, s1, s2, s4, s8, s16, s32, s64, s128, s256, s512
  <2>1. /\ f[1] = s1 /\ f[2] = s2 /\ f[4] = s4 /\ f[8] = s8 /\ f[16] = s16
        /\ f[32] = s32 /\ f[64] = s64 /\ f[128] = s128 /\ f[256] = s256 /\ f[512] = s512
    BY DEF TwoPower
  <2>2. f = [n \in D |-> f[n]]
    <3> HIDE DEF Value
    <3> QED
      OBVIOUS
  <2> HIDE DEF f
  <2>3. /\ Order(f, 1) = s1 /\ Order(f, 2) = s2 /\ Order(f, 4) = s4 /\ Order(f, 8) = s8 /\ Order(f, 16) = s16
        /\ Order(f, 32) = s32 /\ Order(f, 64) = s64 /\ Order(f, 128) = s128 /\ Order(f, 256) = s256 /\ Order(f, 512) = s512
    BY <2>1 DEF s1, s2, s4, s8, s16, s32, s64, s128, s256, s512
  <2>4. \A n \in D : f[n] = Order(f, n)
    BY <2>1, <2>3 DEF TwoPower
  <2> HIDE DEF Order
  <2>5. IsOrder(f)
    BY <2>2, <2>4
  <2> QED
    BY <2>5
<1>3. IsOrder(seedOrder)
  BY <1>1, <1>2
<1>4. seedOrder[1] = <<1>> /\ seedOrder[2] = Paired(seedOrder[1], 2)
  <2> HIDE DEF Paired
  <2>1. 1 \in D /\ 2 \in D /\ 2 \div 2 = 1
    BY DEF TwoPower
  <2>2. \A n \in D : seedOrder[n] = Order(seedOrder, n)
    BY <1>3
  <2> QED
    BY <2>1, <2>2
<1>5. Paired(<<1>>, 2) = <<1, 2>>
  <2> DEFINE ss == [i \in 1..(2 \div 2) |-> <<(<<1>>)[i], 2 + 1 - (<<1>>)[i]>>]
  <2>1. Len(ss) = 1 /\ ss[1] = <<1, 2>>
    OBVIOUS
  <2> HIDE DEF ss
  <2>2. FlattenSeq(ss) = <<1, 2>>
    BY <2>1, FlattenOne
  <2> QED
    BY <2>2 DEF ss
<1> QED
  BY <1>4, <1>5
----------------------------------------------------------------------------
(* What the prizes rest on. *)

\* A match has a winner: also when a late save has set it back to ready.
Has(m) == m.winner # None

\* A match is between two players or a bye; its winner is one of them.
Fair(m) ==
  /\ m.name \in {"group_final", "grand_final", "finals_round"}
  /\ m.name = "group_final" => m.group \in 1..Groups
  /\ m.name = "grand_final" => Groups = 2
  /\ m.name = "finals_round" => Groups \notin {1, 2}
  /\ m.name # "finals_round" /\ m.a = m.b => m.a = None
  /\ Has(m) => /\ m.winner \in {m.a, m.b} \ {None}
               /\ m.name # "finals_round" => m.loser \in {m.a, m.b} \ {m.winner}
  /\ Decided(m) => Has(m)

Won(d, u) ==
  \E i \in DOMAIN d.matches :
    d.matches[i].name = "group_final" /\ Has(d.matches[i]) /\ d.matches[i].winner = u
Closing(m) == m.name = "grand_final" \/ Groups = 1
Champions(d, w, l) ==
  \E i \in DOMAIN d.matches :
    Has(d.matches[i]) /\ Closing(d.matches[i]) /\ d.matches[i].winner = w /\ d.matches[i].loser = l

\* Group winners have won their groups, they alone meet in the grand final, and the
\* prizes went by the match that ends the tournament.
Merited(d) ==
  /\ \A i \in DOMAIN d.matches : Fair(d.matches[i])
  /\ \A i \in DOMAIN d.matches :
       d.matches[i].name = "grand_final" => Won(d, d.matches[i].a) /\ Won(d, d.matches[i].b)
  /\ \A k \in DOMAIN d.parts : d.parts[k].status = "group_winner" => Won(d, d.parts[k].user)
  /\ d.t.settled => Champions(d, d.t.winner, d.t.runnerUp)

\* Match j of d is in e, with its winner if it had one.
Carried(d, e, j) ==
  /\ j \in DOMAIN e.matches /\ SamePlace(d.matches[j], e.matches[j])
  /\ Has(d.matches[j]) => /\ e.matches[j].winner = d.matches[j].winner
                          /\ e.matches[j].loser = d.matches[j].loser
Follows(d, e) == \A j \in DOMAIN d.matches : Carried(d, e, j)
\* The finals that d has added may be elsewhere in e.
Open(m) == m.name # "group_final" /\ ~Has(m)
Keeps(d, e) == \A j \in DOMAIN d.matches : Open(d.matches[j]) \/ Carried(d, e, j)

(* Who has won keeps it. *)
LEMMA WonStays ==
  ASSUME NEW d, NEW e, Keeps(d, e)
  PROVE  /\ \A u : Won(d, u) => Won(e, u)
         /\ \A w, l : Champions(d, w, l) => Champions(e, w, l)
BY DEF Keeps, Carried, Open, Won, Champions, SamePlace, Closing, Has

(* Nothing is lost where every match is carried on. *)
LEMMA FollowsKeeps ==
  ASSUME NEW d, NEW e, Follows(d, e)
  PROVE  Keeps(d, e)
BY DEF Follows, Keeps

(* A step carries the matches on that have one room at most. *)
LEMMA MovesFollow ==
  ASSUME NEW d, NEW e, NEW R, Moves(d, e, R), \A i \in DOMAIN d.matches : OneRoom(e, i)
  PROVE  Follows(d, e)
BY DEF Moves, Grown, Lasts, Follows, Carried, Has

(* So do two. *)
LEMMA FollowsAgain ==
  ASSUME NEW d, NEW e, NEW f, Follows(d, e), Follows(e, f)
  PROVE  Follows(d, f)
BY DEF Follows, Carried, SamePlace, Has

\* The documents of e come from d and c.
FromMatches(d, c, e) ==
  \A j \in DOMAIN e.matches :
    \/ \E q \in DOMAIN d.matches : e.matches[j] = d.matches[q]
    \/ \E q \in DOMAIN c.matches : e.matches[j] = c.matches[q]
FromPart(d, p) ==
  p.status = "group_winner" => \E k \in DOMAIN d.parts : d.parts[k].user = p.user /\ d.parts[k].status = "group_winner"
FromVerdict(d, e) == e.t.settled => d.t.settled /\ e.t.winner = d.t.winner /\ e.t.runnerUp = d.t.runnerUp

(* What is put together from two states that were merited is so. *)
LEMMA MergedMerited ==
  ASSUME NEW d, NEW c, NEW e, Merited(d), Merited(c), Keeps(d, e), Keeps(c, e), FromMatches(d, c, e),
         \A k \in DOMAIN e.parts : FromPart(d, e.parts[k]) \/ FromPart(c, e.parts[k]),
         FromVerdict(d, e) \/ FromVerdict(c, e)
  PROVE  Merited(e)
<1>1. /\ \A u : Won(d, u) \/ Won(c, u) => Won(e, u)
      /\ \A w, l : Champions(d, w, l) \/ Champions(c, w, l) => Champions(e, w, l)
  BY WonStays
<1>2. \A j \in DOMAIN e.matches :
        Fair(e.matches[j]) /\ (e.matches[j].name = "grand_final" => Won(e, e.matches[j].a) /\ Won(e, e.matches[j].b))
  BY <1>1 DEF FromMatches, Merited
<1>3. \A k \in DOMAIN e.parts : e.parts[k].status = "group_winner" => Won(e, e.parts[k].user)
  BY <1>1 DEF FromPart, Merited
<1>4. e.t.settled => Champions(e, e.t.winner, e.t.runnerUp)
  BY <1>1 DEF FromVerdict, Merited
<1> QED
  BY <1>2, <1>3, <1>4 DEF Merited

(* No match is written, no participant becomes a group winner and no prize is given. *)
LEMMA PartsMerited ==
  ASSUME NEW d, Merited(d), NEW e, e.matches = d.matches, FromVerdict(d, e), \A k \in DOMAIN e.parts : FromPart(d, e.parts[k])
  PROVE  Merited(e)
<1>1. Keeps(d, e) /\ FromMatches(d, d, e)
  BY DEF Keeps, Carried, FromMatches, SamePlace
<1> QED
  BY <1>1, MergedMerited

(* Marked, but not as a group winner. *)
LEMMA MarkedFrom ==
  ASSUME NEW d, Shape(d), NEW u, NEW status, status # "group_winner"
  PROVE  LET e == Marked(d, u, status)
         IN /\ DOMAIN e = DOMAIN d /\ e.t = d.t /\ e.matches = d.matches /\ e.rooms = d.rooms
            /\ DOMAIN e.parts = DOMAIN d.parts
            /\ \A k \in DOMAIN e.parts : e.parts[k].user = d.parts[k].user
                                         /\ (e.parts[k].status = "group_winner" => d.parts[k].status = "group_winner")
<1> DEFINE e == Marked(d, u, status)
           ps == [i \in DOMAIN d.parts |-> IF d.parts[i].user = u THEN [d.parts[i] EXCEPT !.status = status] ELSE d.parts[i]]
<1>1. \A i \in DOMAIN d.parts : "status" \in DOMAIN d.parts[i]
  BY PartsTyped DEF Participant
<1>2. \A i \in DOMAIN d.parts :
        ps[i].user = d.parts[i].user /\ (ps[i].status = "group_winner" => d.parts[i].status = "group_winner")
  BY <1>1
<1>3. e = [d EXCEPT !.parts = ps] /\ DOMAIN ps = DOMAIN d.parts
  BY DEF Marked
<1> HIDE DEF e, ps
<1>4. DOMAIN e = DOMAIN d /\ e.t = d.t /\ e.matches = d.matches /\ e.rooms = d.rooms /\ e.parts = ps
  BY <1>3 DEF Shape
<1> QED
  BY <1>2, <1>3, <1>4 DEF e

(* eliminate. *)
LEMMA eliminateMerited ==
  ASSUME NEW d, Shape(d), Bracket(d), Merited(d), NEW i, NEW reason
  PROVE  Merited(eliminate(d, i, reason))
<1> DEFINE u == d.matches[i].loser
           e == Marked(d, u, "eliminated")
<1>1. eliminate(d, i, reason) = d \/ eliminate(d, i, reason) = e
  BY DEF eliminate
<1>2. /\ e.t = d.t /\ e.matches = d.matches /\ e.rooms = d.rooms /\ DOMAIN e.parts = DOMAIN d.parts
      /\ \A k \in DOMAIN e.parts : e.parts[k].user = d.parts[k].user
                                   /\ (e.parts[k].status = "group_winner" => d.parts[k].status = "group_winner")
  BY MarkedFrom
<1> HIDE DEF e
<1>3. FromVerdict(d, e) /\ \A k \in DOMAIN e.parts : FromPart(d, e.parts[k])
  BY <1>2 DEF FromVerdict, FromPart
<1>4. Merited(e)
  BY <1>2, <1>3, PartsMerited
<1> QED
  BY <1>1, <1>4

(* settleTournament: the prizes of the match that ends the tournament. *)
LEMMA settleTournamentMerited ==
  ASSUME NEW d, Shape(d), Bracket(d), Merited(d), NEW w, NEW l, Champions(d, w, l), NEW e \in settleTournament(d, w, l)
  PROVE  Merited(e) /\ e.matches = d.matches
<1> DEFINE n == Marked(d, w, "winner")
           m == Marked(n, l, "runner_up")
<1>1. CASE d.t.settled \/ d.t.status = "cancelled"
  BY <1>1 DEF settleTournament
<1>2. CASE ~(d.t.settled \/ d.t.status = "cancelled")
  <2> DEFINE pot == d.escrow
             fee == (pot * Fee) \div 100
             first == (pot * First) \div 100
  <2>1. e = [m EXCEPT !.t.status = "finished", !.t.settled = TRUE, !.t.winner = w, !.t.runnerUp = l,
                      !.escrow = 0, !.house = @ + fee, !.money[w] = @ + first, !.money[l] = @ + pot - fee - first]
    BY <1>2 DEF settleTournament
  <2> HIDE DEF pot, fee, first
  <2>2. /\ DOMAIN n = DOMAIN d /\ n.t = d.t /\ n.matches = d.matches /\ n.rooms = d.rooms /\ DOMAIN n.parts = DOMAIN d.parts
        /\ \A k \in DOMAIN n.parts : n.parts[k].user = d.parts[k].user
                                     /\ (n.parts[k].status = "group_winner" => d.parts[k].status = "group_winner")
        /\ Shape(n)
    BY MarkedFrom, MarkedCalm DEF Calm, Statuses
  <2> HIDE DEF n
  <2>3. /\ DOMAIN m = DOMAIN d /\ m.t = d.t /\ m.matches = d.matches /\ m.rooms = d.rooms /\ DOMAIN m.parts = DOMAIN d.parts
        /\ \A k \in DOMAIN m.parts : m.parts[k].user = d.parts[k].user
                                     /\ (m.parts[k].status = "group_winner" => d.parts[k].status = "group_winner")
    BY <2>2, MarkedFrom
  <2> HIDE DEF m
  <2>4. /\ e.matches = d.matches /\ e.rooms = d.rooms /\ e.parts = m.parts
        /\ e.t = [d.t EXCEPT !.status = "finished", !.settled = TRUE, !.winner = w, !.runnerUp = l]
    BY <2>1, <2>3 DEF Shape
  <2>5. e.t.settled /\ e.t.winner = w /\ e.t.runnerUp = l
    BY <2>4 DEF Shape
  <2>6. Keeps(d, e)
    BY <2>4 DEF Keeps, Carried, SamePlace
  <2>7. Champions(e, w, l) /\ \A u : Won(d, u) => Won(e, u)
    BY <2>6, WonStays
  <2>8. \A k \in DOMAIN e.parts : e.parts[k].status = "group_winner" => Won(e, e.parts[k].user)
    BY <2>3, <2>4, <2>7 DEF Merited
  <2> QED
    BY <2>4, <2>5, <2>7, <2>8 DEF Merited
<1> QED
  BY <1>1, <1>2

(* markGroupWinners: those who have won their groups. *)
LEMMA markGroupWinnersMerited ==
  ASSUME NEW d, Shape(d), Bracket(d), Merited(d)
  PROVE  Merited(markGroupWinners(d))
<1> DEFINE e == markGroupWinners(d)
           won == {d.matches[j].winner : j \in {k \in DOMAIN d.matches : d.matches[k].name = "group_final"}}
           ps == [i \in DOMAIN d.parts |-> IF d.parts[i].user \in won THEN [d.parts[i] EXCEPT !.status = "group_winner"]
                                                                       ELSE d.parts[i]]
<1>1. \A u \in won : u = None \/ Won(d, u)
  BY DEF Won, Has
<1>2. \A i \in DOMAIN d.parts : d.parts[i].user # None /\ "status" \in DOMAIN d.parts[i]
  BY PartsTyped, Numbers DEF Participant
<1> HIDE DEF won
<1>3. \A i \in DOMAIN d.parts : ps[i].user = d.parts[i].user /\ (ps[i].status = "group_winner" => Won(d, d.parts[i].user))
  BY <1>1, <1>2 DEF Merited
<1>4. e = [d EXCEPT !.parts = ps] /\ DOMAIN ps = DOMAIN d.parts
  BY DEF markGroupWinners, won
<1> HIDE DEF ps, e
<1>5. e.t = d.t /\ e.matches = d.matches /\ e.rooms = d.rooms /\ e.parts = ps
  BY <1>4 DEF Shape
<1>6. Keeps(d, e)
  BY <1>5 DEF Keeps, Carried, SamePlace
<1>7. \A u : Won(d, u) => Won(e, u)
  BY <1>6, WonStays
<1>8. \A w, l : Champions(d, w, l) => Champions(e, w, l)
  BY <1>6, WonStays
<1>9. \A k \in DOMAIN e.parts : e.parts[k].status = "group_winner" => Won(e, e.parts[k].user)
  BY <1>3, <1>4, <1>5, <1>7
<1>10. Merited(e)
  BY <1>5, <1>7, <1>8, <1>9 DEF Merited
<1> QED
  BY <1>10 DEF e

\* New matches are finals.
Finalists(d, e) == \A j \in DOMAIN e.matches \ DOMAIN d.matches : Open(e.matches[j])

(* The status and the phase of the tournament decide nothing. *)
LEMMA PhaseMerited ==
  ASSUME NEW d, Shape(d), Bracket(d), Merited(d), NEW status, NEW e, e = [d EXCEPT !.t.status = status]
  PROVE  Merited(e) /\ e.matches = d.matches
<1>1. e.matches = d.matches /\ e.rooms = d.rooms /\ e.parts = d.parts /\ e.t.settled = d.t.settled
      /\ e.t.winner = d.t.winner /\ e.t.runnerUp = d.t.runnerUp
  BY DEF Shape
<1>2. FromVerdict(d, e) /\ \A k \in DOMAIN e.parts : FromPart(d, e.parts[k])
  BY <1>1 DEF FromVerdict, FromPart
<1> QED
  BY <1>1, <1>2, PartsMerited

(* buildFinalsDefs: the finals of the group winners, each of whom appears once. *)
LEMMA FinalsFair ==
  ASSUME NEW us, Len(us) = Groups, Groups # 1,
         \A n, m \in 1..Groups : us[n] = us[m] => n = m
  PROVE  LET f == buildFinalsDefs(us)
         IN /\ Docs(f, MatchFields)
            /\ \A j \in DOMAIN f :
                 /\ Fair(f[j]) /\ Open(f[j])
                 /\ f[j].name = "grand_final" =>
                      \E n, m \in 1..Groups : f[j].a = us[n] /\ f[j].b = us[m]
<1> DEFINE k == Groups \div 2
           f == buildFinalsDefs(us)
           name == IF Groups = 2 THEN "grand_final" ELSE "finals_round"
           a(j) == us[seedOrder[Groups][2 * j - 1]]
           b(j) == us[seedOrder[Groups][2 * j]]
<1>1. k \in Nat /\ Groups \in Nat /\ (Groups = 2 => k = 1)
  BY GroupNumbers
<1>2. f = [j \in 1..k |-> Match(0, name, 1000, a(j), b(j))]
  BY DEF buildFinalsDefs
<1>3. ASSUME NEW j \in 1..k, Groups = 2
      PROVE  a(j) = us[1] /\ b(j) = us[2] /\ us[1] # us[2]
  <2>1. j = 1 /\ 2 * j - 1 = 1 /\ 2 * j = 2
    BY <1>1, <1>3
  <2>2. seedOrder[Groups][1] = 1 /\ seedOrder[Groups][2] = 2
    BY <1>3, SeedsOfTwo
  <2> QED
    BY <1>3, <2>1, <2>2
<1> HIDE DEF f, a, b, k
<1>4. \A x1, x2, x3, x4, x5 :
        LET m == Match(x1, x2, x3, x4, x5)
        IN /\ DOMAIN m = MatchFields /\ m.name = x2 /\ m.a = x4 /\ m.b = x5 /\ m.winner = None /\ m.status = "pending"
  BY DEF Match, MatchFields
<1>5. f = [j \in 1..k |-> f[j]] /\ \A j \in 1..k : f[j] = Match(0, name, 1000, a(j), b(j))
  BY <1>2
<1>6. \A j \in 1..k : /\ DOMAIN f[j] = MatchFields /\ f[j].name = name /\ f[j].a = a(j) /\ f[j].b = b(j)
                      /\ ~Has(f[j]) /\ ~Decided(f[j])
  BY <1>4, <1>5 DEF Decided, Has
<1>7. Docs(f, MatchFields) /\ DOMAIN f = 1..k
  BY <1>1, <1>5, <1>6, DocsMade
<1>8. ASSUME NEW j \in 1..k
      PROVE  /\ Fair(f[j]) /\ Open(f[j])
             /\ f[j].name = "grand_final" => \E n, m \in 1..Groups : f[j].a = us[n] /\ f[j].b = us[m]
  <2>1. CASE Groups = 2
    <3>1. 1 \in 1..Groups /\ 2 \in 1..Groups
      BY <2>1
    <3> QED
      BY <1>3, <1>6, <2>1, <3>1 DEF Fair, Open
  <2>2. CASE Groups # 2
    BY <1>6, <2>2 DEF Fair, Open
  <2> QED
    BY <2>1, <2>2
<1> QED
  BY <1>7, <1>8 DEF f

(* handleGroupFinalsComplete: a single group has its champion, two winners meet. *)
LEMMA handleGroupFinalsCompleteMerited ==
  ASSUME NEW d, Shape(d), Single(d), Bracket(d), Merited(d), NEW e \in handleGroupFinalsComplete(d)
  PROVE  Merited(e) /\ Finalists(d, e)
<1> DEFINE P == With(d, "group_winner")
           us == BySeed(d, P)
           S == {j \in DOMAIN d.matches : d.matches[j].name = "group_final" /\ d.matches[j].winner # None}
           k == Earliest(S)
           w == d.matches[k].winner
           loser == d.matches[k].loser
           l == IF loser = None THEN w ELSE loser
<1>1. P \subseteq DOMAIN d.parts
  BY DEF With
<1>2. /\ Len(us) \in Nat /\ \A n \in 1..Len(us) : Won(d, us[n])
      /\ \A n, m \in 1..Len(us) : us[n] = us[m] => n = m
  <2>1. /\ Len(us) \in Nat
        /\ \A n \in 1..Len(us) : \E i \in P : us[n] = d.parts[i].user
        /\ \A n, m \in 1..Len(us) : us[n] = us[m] => n = m
    <3> HIDE DEF P
    <3> QED
      BY <1>1, BySeedPlaces
  <2>2. \A i \in P : Won(d, d.parts[i].user)
    BY DEF With, Merited
  <2> HIDE DEF us, P
  <2> QED
    BY <2>1, <2>2
<1> HIDE DEF us, P
<1>3. \/ e = [d EXCEPT !.t.status = "between_rounds"]
      \/ Len(us) >= Groups /\ Groups = 1 /\ e \in settleTournament(d, w, l)
      \/ Len(us) = Groups /\ Groups # 1 /\ Drawn(d, e, d.matches \o buildFinalsDefs(us))
  <2>1. handleGroupFinalsComplete(d) =
          IF Len(us) < Groups THEN {[d EXCEPT !.t.status = "between_rounds"]}
          ELSE IF Groups = 1 THEN settleTournament(d, w, l)
          ELSE IF Len(us) # Groups THEN {}
          ELSE {[d EXCEPT !.matches = @ \o buildFinalsDefs(us), !.t.finals = TRUE, !.t.round = 1000,
                          !.t.status = "finals_pending"]}
    BY DEF handleGroupFinalsComplete, us, P
  <2> HIDE DEF w, l
  <2>2. Len(us) < Groups \/ Len(us) >= Groups
    BY <1>2, GroupNumbers
  <2> QED
    BY <2>1, <2>2 DEF Drawn
<1>4. CASE e = [d EXCEPT !.t.status = "between_rounds"]
  BY <1>4, PhaseMerited DEF Finalists
<1>5. CASE Len(us) >= Groups /\ Groups = 1 /\ e \in settleTournament(d, w, l)
  <2>1. PICK i \in DOMAIN d.matches : d.matches[i].name = "group_final" /\ Has(d.matches[i])
    <3>1. 1 \in 1..Len(us)
      BY <1>2, <1>5
    <3> QED
      BY <1>2, <3>1 DEF Won
  <2>2. S # {} /\ S \subseteq Nat /\ S \subseteq DOMAIN d.matches
    <3>1. d.matches[i].winner # None
      BY <2>1 DEF Has
    <3>2. DOMAIN d.matches \subseteq Nat
      BY DocsLength DEF Bracket
    <3> QED
      BY <2>1, <3>1, <3>2
  <2>3. k \in S
    <3> HIDE DEF S
    <3> QED
      BY <2>2, EarliestIn
  <2> HIDE DEF k
  <2>4. k \in DOMAIN d.matches /\ Has(d.matches[k])
    BY <2>3 DEF Has
  <2>5. loser # None => Champions(d, w, l)
    BY <1>5, <2>4 DEF Champions, Closing
  <2>6. loser = None => FALSE
    BY <1>5 DEF settleTournament
  <2> HIDE DEF w, l, loser
  <2>7. Merited(e) /\ e.matches = d.matches
    BY <1>5, <2>5, <2>6, settleTournamentMerited
  <2> QED
    BY <2>7 DEF Finalists
<1>6. CASE Len(us) = Groups /\ Groups # 1 /\ Drawn(d, e, d.matches \o buildFinalsDefs(us))
  <2> DEFINE f == buildFinalsDefs(us)
             ms == d.matches \o f
  <2>1. /\ Docs(f, MatchFields)
        /\ \A j \in DOMAIN f :
             /\ Fair(f[j]) /\ Open(f[j])
             /\ f[j].name = "grand_final" => \E n, m \in 1..Groups : f[j].a = us[n] /\ f[j].b = us[m]
    BY <1>2, <1>6, FinalsFair
  <2> HIDE DEF f
  <2>2. Docs(d.matches, MatchFields)
    BY DEF Bracket
  <2>3. /\ DOMAIN ms = 1..(Len(d.matches) + Len(f))
        /\ \A i \in DOMAIN d.matches : ms[i] = d.matches[i]
        /\ \A i \in DOMAIN ms \ DOMAIN d.matches : \E j \in DOMAIN f : ms[i] = f[j]
    BY <2>1, <2>2, DocsConcat
  <2>4. DOMAIN d.matches \subseteq DOMAIN ms
    <3>1. Len(d.matches) \in Nat /\ DOMAIN d.matches = 1..Len(d.matches) /\ Len(f) \in Nat
      BY <2>1, <2>2, DocsLength
    <3> HIDE DEF ms
    <3> QED
      BY <2>3, <3>1
  <2>5. e.matches = ms /\ e.rooms = d.rooms /\ e.parts = d.parts
        /\ e.t = [d.t EXCEPT !.finals = TRUE, !.round = 1000, !.status = "finals_pending"]
    BY <1>6 DEF Drawn, Shape, f
  <2> HIDE DEF ms
  <2>6. e.t.settled = d.t.settled /\ e.t.winner = d.t.winner /\ e.t.runnerUp = d.t.runnerUp
    BY <2>5 DEF Shape
  <2>7. Keeps(d, e)
    BY <2>3, <2>4, <2>5 DEF Keeps, Carried, SamePlace
  <2>8. (\A u : Won(d, u) => Won(e, u)) /\ \A x, y : Champions(d, x, y) => Champions(e, x, y)
    BY <2>7, WonStays
  <2>9. \A i \in DOMAIN e.matches :
          Fair(e.matches[i]) /\ (e.matches[i].name = "grand_final" => Won(e, e.matches[i].a) /\ Won(e, e.matches[i].b))
    <3>1. \A i \in DOMAIN ms \ DOMAIN d.matches :
            Fair(ms[i]) /\ (ms[i].name = "grand_final" => Won(d, ms[i].a) /\ Won(d, ms[i].b))
      BY <1>2, <1>6, <2>1, <2>3
    <3> QED
      BY <2>3, <2>5, <2>8, <3>1 DEF Merited
  <2>10. Merited(e)
    BY <2>5, <2>6, <2>8, <2>9 DEF Merited
  <2>11. Finalists(d, e)
    BY <2>1, <2>3, <2>5 DEF Finalists
  <2> QED
    BY <2>10, <2>11
<1> QED
  BY <1>3, <1>4, <1>5, <1>6

(* checkRoundComplete: a match that closes its round has its result. *)
LEMMA checkRoundCompleteMerited ==
  ASSUME NEW d, Shape(d), Single(d), Bracket(d), Merited(d), NEW i \in DOMAIN d.matches, NEW e \in checkRoundComplete(d, i)
  PROVE  Merited(e) /\ Finalists(d, e)
<1> DEFINE m == d.matches[i]
           g == markGroupWinners(d)
<1>1. \/ e = d
      \/ ~pendingIn(d, m.round) /\ m.name = "grand_final" /\ e \in settleTournament(d, m.winner, m.loser)
      \/ e \in handleGroupFinalsComplete(g)
      \/ e = [d EXCEPT !.t.status = "between_rounds"]
  BY DEF checkRoundComplete
<1>2. CASE e = d
  BY <1>2 DEF Finalists
<1>3. CASE ~pendingIn(d, m.round) /\ m.name = "grand_final" /\ e \in settleTournament(d, m.winner, m.loser)
  <2>1. Has(m)
    BY <1>3 DEF pendingIn, Merited, Fair
  <2>2. Champions(d, m.winner, m.loser)
    BY <1>3, <2>1 DEF Champions, Closing
  <2> HIDE DEF m
  <2>3. Merited(e) /\ e.matches = d.matches
    BY <1>3, <2>2, settleTournamentMerited
  <2> QED
    BY <2>3 DEF Finalists
<1>4. CASE e \in handleGroupFinalsComplete(g)
  <2>1. Shape(g) /\ Single(g)
    BY markGroupWinnersCalm, SeatsRegistered DEF Calm
  <2>2. g.matches = d.matches /\ g.rooms = d.rooms
    BY MarkedGrows DEF Shape
  <2>3. Merited(g)
    BY markGroupWinnersMerited
  <2> HIDE DEF g
  <2>4. Bracket(g)
    BY <2>2, StaysMove DEF Moves
  <2>5. Merited(e) /\ Finalists(g, e)
    BY <1>4, <2>1, <2>3, <2>4, handleGroupFinalsCompleteMerited
  <2> QED
    BY <2>2, <2>5 DEF Finalists
<1>5. CASE e = [d EXCEPT !.t.status = "between_rounds"]
  BY <1>5, PhaseMerited DEF Finalists
<1> QED
  BY <1>1, <1>2, <1>3, <1>4, <1>5

(* Who has won a match is one of its players. *)
LEMMA EarnedPlayer ==
  ASSUME NEW d, Bracket(d), NEW i \in DOMAIN d.matches, NEW w, w # None, Earned(d, i, w)
  PROVE  w \in {d.matches[i].a, d.matches[i].b} \ {None}
BY DEF Bracket, RoomOk, Earned

(* decide: who has won the match, as its winner if it has one. *)
LEMMA decideMerited ==
  ASSUME NEW d, Shape(d), Bracket(d), Merited(d), NEW i \in DOMAIN d.matches, NEW w, w # None, Earned(d, i, w),
         d.matches[i].winner \in {None, w}, NEW reason
  PROVE  LET e == decide(d, i, w, reason)
         IN Merited(e) /\ Bracket(e) /\ DOMAIN e.matches = DOMAIN d.matches
<1> DEFINE m == d.matches[i]
           e == decide(d, i, w, reason)
           n == e.matches[i]
<1>1. Fair(m) /\ w \in {m.a, m.b} \ {None} /\ (Has(m) => m.winner = w /\ m.loser = Other(m, w))
  BY EarnedPlayer DEF Bracket, MatchOk, Merited, Has
<1>2. Decides(d, e, i, w)
  <2>1. {"matches", "rooms"} \subseteq DOMAIN d /\ Docs(d.matches, MatchFields)
    BY DEF Shape, Bracket
  <2> QED
    BY <2>1, decideDocs
<1>3. e.t = d.t /\ e.parts = d.parts
  BY DEF decide, Shape
<1> HIDE DEF m, e
<1>4. /\ SamePlace(m, n) /\ n.winner = w /\ n.loser = Other(m, w)
      /\ DOMAIN e.matches = DOMAIN d.matches /\ \A j \in DOMAIN d.matches : j # i => e.matches[j] = d.matches[j]
  BY <1>2 DEF Decides, m
<1> HIDE DEF n
<1>5. Fair(n)
  BY <1>1, <1>4 DEF Fair, Has, Other, SamePlace
<1>6. Moves(d, e, 0)
  BY <1>2, DecidesMove
<1>7. Follows(d, e)
  BY <1>1, <1>4 DEF Follows, Carried, Has, SamePlace, m, n
<1>8. (\A u : Won(d, u) => Won(e, u)) /\ \A x, y : Champions(d, x, y) => Champions(e, x, y)
  BY <1>7, FollowsKeeps, WonStays
<1>9. \A j \in DOMAIN e.matches : Fair(e.matches[j]) /\ SamePlace(d.matches[j], e.matches[j])
  BY <1>4, <1>5 DEF Merited, SamePlace, m, n
<1>10. \A j \in DOMAIN e.matches : e.matches[j].name = "grand_final" => Won(e, e.matches[j].a) /\ Won(e, e.matches[j].b)
  BY <1>4, <1>8, <1>9 DEF Merited, SamePlace
<1>11. Merited(e)
  BY <1>3, <1>8, <1>9, <1>10 DEF Merited
<1> QED
  BY <1>4, <1>6, <1>11 DEF Moves, e

(* advanceWinner, by who has won. *)
LEMMA advanceWinnerMerited ==
  ASSUME NEW d, Shape(d), Single(d), Bracket(d), Merited(d), NEW i \in DOMAIN d.matches, NEW w, w # None, Earned(d, i, w),
         d.matches[i].winner \in {None, w}, NEW reason, NEW e \in advanceWinner(d, i, w, reason)
  PROVE  Merited(e) /\ Finalists(d, e)
<1> DEFINE f == decide(d, i, w, reason)
           g == eliminate(f, i, reason)
<1>1. e = d \/ e \in checkRoundComplete(g, i)
  BY DEF advanceWinner
<1>2. CASE e = d
  BY <1>2 DEF Finalists
<1>3. CASE e \in checkRoundComplete(g, i)
  <2>1. Merited(f) /\ Bracket(f) /\ DOMAIN f.matches = DOMAIN d.matches
    BY decideMerited
  <2>2. Shape(f) /\ Single(f)
    BY decideCalm, SeatsRegistered DEF Calm
  <2> HIDE DEF f
  <2>3. Merited(g) /\ Shape(g) /\ Single(g)
    BY <2>1, <2>2, eliminateMerited, eliminateCalm, SeatsRegistered DEF Calm
  <2>4. g.matches = f.matches /\ g.rooms = f.rooms
    <3>1. {"parts", "matches", "rooms"} \subseteq DOMAIN f
      BY <2>2 DEF Shape
    <3> QED
      BY <3>1, MarkedGrows
  <2> HIDE DEF g
  <2>5. Bracket(g)
    BY <2>1, <2>4, StaysMove DEF Moves
  <2>6. Merited(e) /\ Finalists(g, e)
    BY <1>3, <2>1, <2>3, <2>4, <2>5, checkRoundCompleteMerited
  <2> QED
    BY <2>1, <2>4, <2>6 DEF Finalists
<1> QED
  BY <1>1, <1>2, <1>3

(* advanceWinner: the matches after it are documents of the bracket. *)
LEMMA advanceWinnerBracket ==
  ASSUME NEW d, Shape(d), Bracket(d), NEW i \in DOMAIN d.matches, NEW w, w # None, Earned(d, i, w),
         NEW reason, NEW e \in advanceWinner(d, i, w, reason)
  PROVE  Moves(d, e, 0)
<1>1. e = d \/ \E f : Decides(d, f, i, w) /\ Grows(f, e)
  BY advanceWinnerDocs DEF Bracket
<1>2. CASE e = d
  BY <1>2, StaysMove
<1>3. ASSUME NEW f, Decides(d, f, i, w), Grows(f, e)
      PROVE  Moves(d, e, 0)
  <2>1. Moves(d, f, 0)
    BY <1>3, DecidesMove
  <2>2. Moves(f, e, 0)
    BY <1>3, <2>1, GrowsMove DEF Moves
  <2> QED
    BY <2>1, <2>2, MovesMove
<1> QED
  BY <1>1, <1>2, <1>3

(* The matches after the commit, one by one. *)
LEMMA WrittenMatches ==
  ASSUME NEW now, Shape(now), Docs(now.matches, MatchFields), NEW from, Docs(from.matches, MatchFields),
         NEW to, Docs(to.matches, MatchFields), DOMAIN from.matches \subseteq DOMAIN to.matches
  PROVE  LET e == Written(now, from, to)
         IN /\ \A j \in DOMAIN now.matches :
                 e.matches[j] = IF j \in DOMAIN from.matches /\ to.matches[j] # from.matches[j]
                                  THEN to.matches[j] ELSE now.matches[j]
            /\ \A j \in DOMAIN e.matches \ DOMAIN now.matches :
                 \E q \in DOMAIN to.matches \ DOMAIN from.matches : e.matches[j] = to.matches[q]
<1> DEFINE ms == Overwritten(now.matches, from.matches, to.matches)
           new == Inserted(from, to)
           n == Len(now.matches)
           m == Len(from.matches)
<1>1. Written(now, from, to).matches = ms \o new
  BY WrittenDocs
<1>2. n \in Nat /\ DOMAIN now.matches = 1..n
  BY DocsLength
<1>3. /\ DOMAIN ms = 1..n /\ ms = [j \in 1..n |-> ms[j]]
      /\ \A j \in 1..n : ms[j] = IF j \in DOMAIN from.matches /\ to.matches[j] # from.matches[j]
                                   THEN to.matches[j] ELSE now.matches[j]
  BY <1>2 DEF Overwritten
<1> HIDE DEF ms, n
<1>4. \A j \in 1..n : DOMAIN ms[j] = MatchFields
  BY <1>2, <1>3 DEF Docs
<1>5. Docs(ms, MatchFields)
  BY <1>2, <1>3, <1>4, DocsMade
<1>6. m \in Nat /\ DOMAIN from.matches = 1..m /\ Len(to.matches) \in Nat /\ DOMAIN to.matches = 1..Len(to.matches)
  BY DocsLength
<1> HIDE DEF m
<1>7. m <= Len(to.matches)
  <2>1. m = 0 \/ m \in 1..Len(to.matches)
    BY <1>6
  <2> QED
    BY <1>6, <2>1
<1>8. /\ Docs(new, MatchFields)
      /\ \A j \in DOMAIN new : \E q \in DOMAIN to.matches : q > m /\ new[j] = to.matches[q]
  BY <1>6, <1>7, DocsRest DEF Inserted, m
<1> HIDE DEF new
<1>9. \A q \in DOMAIN to.matches : q > m => q \notin DOMAIN from.matches
  BY <1>6
<1>10. /\ \A j \in DOMAIN ms : (ms \o new)[j] = ms[j]
       /\ \A j \in DOMAIN (ms \o new) \ DOMAIN ms : \E q \in DOMAIN new : (ms \o new)[j] = new[q]
  BY <1>5, <1>8, DocsConcat
<1> QED
  BY <1>1, <1>2, <1>3, <1>8, <1>9, <1>10

\* What a command has read was merited, and its matches are still there.
ReadsMerited == \A x \in tx : Merited(x.read) /\ Follows(x.read, db)

(* FinishGame: what the command decided on what it read holds of what is there. *)
LEMMA FinishGameMerited ==
  ASSUME ResultsInv, Merited(db), ReadsMerited, NEW x \in tx, FinishGame(x), Follows(db, db'),
         \A i \in DOMAIN db.matches : OneRoom(db, i)
  PROVE  Merited(db') /\ Finalists(db, db')
<1>1. /\ Shape(db) /\ Single(db) /\ Bracket(db) /\ Shape(x.read) /\ x.read.escrow \in Nat /\ SameSeats(x.read, db)
      /\ Bracket(x.read) /\ Merited(x.read) /\ Follows(x.read, db)
  BY DEF ResultsInv, MoneyInv, Sound, Seen, Reads, ReadsMerited
<1>2. PICK w, reason, to :
        /\ w \in Pair(db, x.room)
        /\ to \in advanceWinner(Finished(x.read, x.room, w), x.read.rooms[x.room].match, w, reason)
        /\ ~Conflicts(db, x.read, to) /\ db' = Written(db, x.read, to)
  BY DEF FinishGame
<1> DEFINE from == x.read
           room == x.room
           k == x.read.rooms[x.room].match
           ended == Finished(x.read, x.room, w)
<1>3. /\ room \in DOMAIN from.rooms /\ from.rooms[room].open = TRUE /\ db.rooms[room].match = k
      /\ k \in DOMAIN from.matches /\ Full(from.matches[k])
      /\ \A q \in DOMAIN from.rooms : q \in DOMAIN db.rooms /\ db.rooms[q].match = from.rooms[q].match
  BY <1>1 DEF ResultsInv, Reads, Bracket, RoomOk
<1>4. w \in Pair(from, room) \ {None}
  <2>1. SamePlace(from.matches[k], db.matches[k])
    BY <1>1, <1>3 DEF Follows, Carried
  <2>2. from.matches[k].a # None /\ from.matches[k].b # None
    BY <1>3, FullTwo
  <2> QED
    BY <1>2, <1>3, <2>1, <2>2 DEF Pair, SamePlace
<1>5. from.matches[k].winner = None
  <2>1. k \in DOMAIN db.matches
    BY <1>1, <1>3 DEF Follows, Carried
  <2>2. \A q \in DOMAIN from.rooms : from.rooms[q].match = k => q = room
    BY <1>3, <2>1 DEF OneRoom
  <2> HIDE DEF k, from, room
  <2> QED
    BY <1>1, <1>3, <2>2 DEF Bracket, MatchOk, Earned, from
<1>6. Closes(from, ended, room, w)
  <2>1. {"matches", "rooms"} \subseteq DOMAIN from /\ Docs(from.rooms, RoomFields)
    BY <1>1 DEF Shape, Bracket
  <2> QED
    BY <1>3, <2>1, FinishedCloses
<1>7. Shape(ended) /\ ended.parts = from.parts /\ ended.t = from.t /\ ended.escrow = from.escrow
  <2>1. PICK rs : ended = [from EXCEPT !.rooms = rs]
    BY DEF Finished
  <2> HIDE DEF ended, from
  <2>2. Shape(from)
    BY <1>1 DEF from
  <2> QED
    BY <2>1, <2>2 DEF Shape
<1>8. /\ to \in advanceWinner(ended, k, w, reason) /\ ~Conflicts(db, from, to) /\ db' = Written(db, from, to)
      /\ Shape(from) /\ Bracket(from) /\ Merited(from) /\ Follows(from, db) /\ from.escrow \in Nat /\ SameSeats(from, db)
  BY <1>1, <1>2
<1>9. from.rooms[room].match = k
  OBVIOUS
<1> HIDE DEF ended, from, room, k
<1>10. /\ Bracket(ended) /\ ended.matches = from.matches /\ k \in DOMAIN ended.matches /\ w # None /\ Earned(ended, k, w)
       /\ ended.matches[k].winner = None
  <2>1. Moves(from, ended, 0)
    BY <1>3, <1>4, <1>6, <1>8, ClosesMove
  <2>2. Earned(ended, k, w)
    BY <1>3, <1>6, <1>9 DEF Closes, Earned
  <2> QED
    BY <1>3, <1>4, <1>5, <1>6, <2>1, <2>2 DEF Closes, Moves
<1>11. Single(ended)
  BY <1>1, <1>7, <1>8 DEF Single, SameSeats
<1>12. Merited(ended)
  <2>1. FromVerdict(from, ended) /\ \A p \in DOMAIN ended.parts : FromPart(from, ended.parts[p])
    BY <1>7 DEF FromVerdict, FromPart
  <2> QED
    BY <1>8, <1>10, <2>1, PartsMerited
<1>13. Merited(to) /\ Finalists(ended, to) /\ Moves(ended, to, 0)
  <2>1. ended.matches[k].winner \in {None, w}
    BY <1>10
  <2> QED
    BY <1>7, <1>8, <1>10, <1>11, <1>12, <2>1, advanceWinnerMerited, advanceWinnerBracket
<1>14. DOMAIN to.parts = DOMAIN from.parts
  <2>1. Ends(ended, to)
    BY <1>7, <1>8, advanceWinnerEnds
  <2>2. SameSeats(ended, to)
    BY <2>1 DEF Ends, Calm, Settles, Prizes
  <2> QED
    BY <1>7, <2>2 DEF SameSeats
<1>15. Docs(db.matches, MatchFields) /\ Docs(from.matches, MatchFields) /\ Docs(to.matches, MatchFields)
       /\ DOMAIN from.matches \subseteq DOMAIN to.matches
  BY <1>1, <1>8, <1>10, <1>13 DEF Bracket, Moves, Grown
<1>16. /\ \A j \in DOMAIN db.matches :
            db'.matches[j] = IF j \in DOMAIN from.matches /\ to.matches[j] # from.matches[j]
                               THEN to.matches[j] ELSE db.matches[j]
       /\ \A j \in DOMAIN db'.matches \ DOMAIN db.matches :
            \E q \in DOMAIN to.matches \ DOMAIN from.matches : db'.matches[j] = to.matches[q]
  BY <1>1, <1>8, <1>15, WrittenMatches
<1>17. /\ db'.parts = Overwritten(db.parts, from.parts, to.parts)
       /\ db'.t = IF to.t = from.t THEN db.t ELSE to.t
  BY <1>1, <1>8, WrittenFields
<1>18. Keeps(db, db') /\ \A j \in DOMAIN from.matches : Carried(from, db', j)
  BY <1>8, FollowsKeeps, FollowsAgain DEF Follows
<1>19. \A j \in DOMAIN from.matches : Carried(to, db', j)
  <2> SUFFICES ASSUME NEW j \in DOMAIN from.matches
               PROVE  Carried(to, db', j)
    OBVIOUS
  <2>1. j \in DOMAIN db.matches /\ j \in DOMAIN db'.matches
    BY <1>8, <1>18 DEF Follows, Carried
  <2>2. CASE to.matches[j] = from.matches[j]
    BY <1>18, <2>2 DEF Carried
  <2>3. CASE to.matches[j] # from.matches[j]
    BY <1>16, <2>1, <2>3 DEF Carried, SamePlace
  <2> QED
    BY <2>2, <2>3
<1>20. Keeps(to, db')
  BY <1>10, <1>13, <1>19 DEF Keeps, Finalists
<1>21. FromMatches(db, to, db')
  BY <1>15, <1>16 DEF FromMatches
<1>22. \A q \in DOMAIN db'.parts : FromPart(db, db'.parts[q]) \/ FromPart(to, db'.parts[q])
  BY <1>14, <1>17 DEF Overwritten, FromPart
<1>23. FromVerdict(db, db') \/ FromVerdict(to, db')
  BY <1>17 DEF FromVerdict
<1>24. Merited(db')
  BY <1>1, <1>13, <1>18, <1>20, <1>21, <1>22, <1>23, MergedMerited
<1>25. Finalists(db, db')
  BY <1>10, <1>13, <1>16 DEF Finalists
<1> QED
  BY <1>24, <1>25

\* Where the groups were drawn once, nobody is in two of them.
Separate ==
  DrawnOnce =>
    \A i, j \in Finals("group_final") :
      db.matches[i].group # db.matches[j].group =>
        {db.matches[i].a, db.matches[i].b} \cap {db.matches[j].a, db.matches[j].b} \subseteq {None}

\* Where no match was opened two rooms.
Alone == ResultsInv /\ Merited(db) /\ ReadsMerited /\ Separate /\ \A i \in DOMAIN db.matches : OneRoom(db, i)
ChampionInv == ResultsInv /\ (PlayedOnce => Alone)

(* Matches that are carried on, and finals that are added, leave the groups as they were. *)
LEMMA SeparateStays ==
  ASSUME Separate, Follows(db, db'), Finalists(db, db')
  PROVE  Separate'
<1>1. \A j \in DOMAIN db.matches : j \in DOMAIN db'.matches /\ SamePlace(db.matches[j], db'.matches[j])
  BY DEF Follows, Carried
<1>2. \A j \in DOMAIN db'.matches : db'.matches[j].name = "group_final" => j \in DOMAIN db.matches
  BY DEF Finalists, Open
<1>3. DrawnOnce' => DrawnOnce
  BY <1>1 DEF DrawnOnce, Finals, SamePlace
<1> QED
  BY <1>1, <1>2, <1>3 DEF Separate, Finals, SamePlace

(* What a command has read was merited. *)
LEMMA ReadsMeritedStep ==
  ASSUME Alone, [Next]_vars, Follows(db, db')
  PROVE  ReadsMerited'
<1>1. \A x \in tx : Merited(x.read) /\ Follows(x.read, db')
  BY FollowsAgain DEF Alone, ReadsMerited
<1>2. CASE tx' \subseteq tx
  BY <1>1, <1>2 DEF ReadsMerited
<1>3. CASE \E r \in Rooms : BeginCommand(r)
  <2>1. PICK r : tx' = tx \cup {[room |-> r, read |-> db]}
    BY <1>3 DEF BeginCommand
  <2> DEFINE y == [room |-> r, read |-> db]
  <2>2. Merited(y.read) /\ Follows(y.read, db')
    BY DEF Alone
  <2> HIDE DEF y
  <2>3. \A x \in tx' : x \in tx \/ x = y
    BY <2>1 DEF y
  <2> QED
    BY <1>1, <2>2, <2>3 DEF ReadsMerited
<1> QED
  BY <1>2, <1>3, TxStep

(* The steps that write neither a match nor a room, nor a result of the tournament. *)
LEMMA PlainMerited ==
  ASSUME Alone,
         \/ openTournament
         \/ \E u \in Players : register(u) \/ unregister(u) \/ refundCancelled(u)
         \/ \E s : SaveLocking(s) \/ CancelStart(s) \/ RefundNext(s) \/ Run(s) \/ EndActivation(s) \/ EliminateLoser(s)
  PROVE  Merited(db') /\ db'.matches = db.matches
<1>1. Shape(db) /\ Bracket(db) /\ Merited(db) /\ MoneyInv
  BY DEF Alone, ResultsInv, MoneyInv, Sound
<1>2. db'.matches = db.matches /\ db'.rooms = db.rooms
  BY <1>1, DocsStay
<1>3. ASSUME FromVerdict(db, db'), \A k \in DOMAIN db'.parts : FromPart(db, db'.parts[k])
      PROVE  Merited(db')
  BY <1>1, <1>2, <1>3, PartsMerited
<1>4. ASSUME NEW status, db' = [db EXCEPT !.t.status = status]
      PROVE  Merited(db')
  BY <1>1, <1>4, PhaseMerited
<1>5. ASSUME NEW u, db' = refundCancelledParticipant(db, u)
      PROVE  Merited(db')
  <2> DEFINE m == Marked(db, u, "refunded")
  <2>1. /\ DOMAIN m = DOMAIN db /\ m.t = db.t /\ DOMAIN m.parts = DOMAIN db.parts
        /\ \A k \in DOMAIN m.parts : m.parts[k].user = db.parts[k].user
                                     /\ (m.parts[k].status = "group_winner" => db.parts[k].status = "group_winner")
    BY <1>1, MarkedFrom
  <2>2. db' \in {db, m, [Move(m, u, -Stake) EXCEPT !.back = @ \cup {u}]}
    BY <1>5 DEF refundCancelledParticipant
  <2> HIDE DEF m
  <2>3. db'.t = db.t /\ db'.parts \in {db.parts, m.parts}
    BY <1>1, <2>1, <2>2 DEF Move, Shape
  <2> QED
    BY <1>3, <2>1, <2>3 DEF FromVerdict, FromPart
<1>6. CASE openTournament \/ \E s : SaveLocking(s) \/ CancelStart(s) \/ Run(s)
  BY <1>2, <1>4, <1>6 DEF openTournament, SaveLocking, CancelStart, Run
<1>7. ASSUME NEW s, EndActivation(s)
      PROVE  Merited(db')
  <2>1. PICK status, round : db' = [db EXCEPT !.t.status = status, !.t.round = round]
    BY <1>7 DEF EndActivation
  <2>2. db'.parts = db.parts /\ db'.t = [db.t EXCEPT !.status = status, !.round = round]
    BY <1>1, <2>1 DEF Shape
  <2>3. db'.t.settled = db.t.settled /\ db'.t.winner = db.t.winner /\ db'.t.runnerUp = db.t.runnerUp
    BY <1>1, <2>2 DEF Shape
  <2> QED
    BY <1>3, <2>2, <2>3 DEF FromVerdict, FromPart
<1>8. ASSUME NEW u \in Players, register(u)
      PROVE  Merited(db')
  <2> DEFINE n == db.t.count + 1
             seat == [user |-> u, status |-> "registered", seed |-> n, group |-> ((n - 1) % Groups) + 1]
  <2>1. seat.status # "group_winner"
    OBVIOUS
  <2>2. PICK status : db' = [Move(db, u, Stake) EXCEPT !.parts = Append(@, seat), !.t.count = n, !.t.status = status]
    BY <1>8 DEF register
  <2> HIDE DEF n, seat
  <2>3. db'.parts = Append(db.parts, seat) /\ db'.t = [db.t EXCEPT !.count = n, !.status = status]
    BY <1>1, <2>2 DEF Move, Shape
  <2>4. db'.t.settled = db.t.settled /\ db'.t.winner = db.t.winner /\ db'.t.runnerUp = db.t.runnerUp
    BY <1>1, <2>3 DEF Shape
  <2>5. \A k \in DOMAIN db'.parts : db'.parts[k] = seat \/ (k \in DOMAIN db.parts /\ db'.parts[k] = db.parts[k])
    BY <1>1, <2>3 DEF Shape
  <2> QED
    BY <1>3, <2>1, <2>4, <2>5 DEF FromVerdict, FromPart
<1>9. ASSUME NEW u \in Players, unregister(u)
      PROVE  Merited(db')
  <2> DEFINE k == CHOOSE i \in DOMAIN db.parts : db.parts[i].user = u
             n == Len(db.parts)
  <2>1. k \in DOMAIN db.parts
    BY <1>9 DEF unregister, Registered
  <2>2. db' = [Move(db, u, -Stake) EXCEPT !.parts = RemoveAt(@, k), !.t.count = @ - 1, !.t.status = "open"]
    BY <1>9 DEF unregister, Move
  <2> HIDE DEF k
  <2>3. db'.parts = RemoveAt(db.parts, k) /\ db'.t = [db.t EXCEPT !.count = @ - 1, !.status = "open"]
    BY <1>1, <2>2 DEF Move, Shape
  <2>4. db'.t.settled = db.t.settled /\ db'.t.winner = db.t.winner /\ db'.t.runnerUp = db.t.runnerUp
    BY <1>1, <2>3 DEF Shape
  <2>5. /\ n \in Nat /\ DOMAIN db.parts = 1..n /\ DOMAIN db'.parts = 1..(n - 1)
        /\ \A i \in 1..(n - 1) : db'.parts[i] = IF i < k THEN db.parts[i] ELSE db.parts[i + 1]
    BY <1>1, <2>1, <2>3, Removed DEF Shape
  <2> HIDE DEF n
  <2>6. \A i \in DOMAIN db'.parts : \E j \in DOMAIN db.parts : db'.parts[i] = db.parts[j]
    <3>1. \A i \in 1..(n - 1) : i \in 1..n /\ i + 1 \in 1..n
      BY <2>5
    <3> QED
      BY <2>5, <3>1
  <2> QED
    BY <1>3, <2>4, <2>6 DEF FromVerdict, FromPart
<1>10. ASSUME NEW u, refundCancelled(u)
       PROVE  Merited(db')
  BY <1>5, <1>10 DEF refundCancelled
<1>11. ASSUME NEW s, RefundNext(s)
       PROVE  Merited(db')
  BY <1>1, <1>5, <1>11 DEF RefundNext
<1>12. ASSUME NEW s, EliminateLoser(s)
       PROVE  Merited(db')
  BY <1>1, <1>12, eliminateMerited DEF EliminateLoser
<1> QED
  BY <1>2, <1>6, <1>7, <1>8, <1>9, <1>10, <1>11, <1>12

(* A room ends, by a player who leaves, without a winner, or with the tournament; or it
   is opened. *)
LEMMA RoomsMerited ==
  ASSUME Alone,
         \/ cancel \/ (\E r \in Rooms : EndWithoutWinner(r) \/ \E w \in Pair(db, r) : LeaveRoom(r, w))
         \/ \E s \in Schedulers : ActivateMatch(s)
  PROVE  Merited(db') /\ db'.matches = db.matches
<1>1. Shape(db) /\ Merited(db)
  BY DEF Alone, ResultsInv, MoneyInv, Sound
<1>2. /\ db'.matches = db.matches /\ db'.parts = db.parts
      /\ db'.t = db.t \/ \E status : db'.t = [db.t EXCEPT !.status = status]
  <2>1. CASE cancel
    BY <1>1, <2>1 DEF cancel, Shape
  <2>2. CASE \E rs : db' = [db EXCEPT !.rooms = rs]
    BY <1>1, <2>2 DEF Shape
  <2>3. ASSUME NEW r, NEW w, db' = Finished(db, r, w)
        PROVE  \E rs : db' = [db EXCEPT !.rooms = rs]
    BY <2>3 DEF Finished
  <2>4. ASSUME NEW s \in Schedulers, ActivateMatch(s)
        PROVE  db' = db \/ \E rs : db' = [db EXCEPT !.rooms = rs]
    BY <2>4 DEF ActivateMatch
  <2> QED
    BY <2>1, <2>2, <2>3, <2>4 DEF LeaveRoom, EndWithoutWinner
<1>3. db'.t.settled = db.t.settled /\ db'.t.winner = db.t.winner /\ db'.t.runnerUp = db.t.runnerUp
  BY <1>1, <1>2 DEF Shape
<1>4. FromVerdict(db, db') /\ \A k \in DOMAIN db'.parts : FromPart(db, db'.parts[k])
  BY <1>2, <1>3 DEF FromVerdict, FromPart
<1> QED
  BY <1>1, <1>2, <1>4, PartsMerited

(* SaveReady: the match keeps its players and its winner, if it has one. *)
LEMMA SaveReadyMerited ==
  ASSUME Alone, Follows(db, db'), NEW s \in Schedulers, SaveReady(s)
  PROVE  Merited(db') /\ Finalists(db, db')
<1>1. Shape(db) /\ Bracket(db) /\ Merited(db) /\ JobOk(db, sched[s])
  BY DEF Alone, ResultsInv, MoneyInv, Sound, Jobs
<1> DEFINE i == sched[s].match
           r == sched[s].room
           m == db.matches[i]
           n == [[m EXCEPT !.room = r] EXCEPT !.status = "ready"]
<1>2. sched[s].step = "opening" /\ db' = [db EXCEPT !.matches[i].room = r, !.matches[i].status = "ready"]
  BY DEF SaveReady
<1>3. i \in DOMAIN db.matches
  BY <1>1, <1>2 DEF JobOk
<1>4. DOMAIN m = MatchFields
  BY <1>1, <1>3 DEF Bracket, Docs
<1> HIDE DEF i, r
<1>5. n.status = "ready" /\ SamePlace(m, n) /\ n.winner = m.winner /\ n.loser = m.loser
  BY <1>4 DEF MatchFields, SamePlace
<1>6. db'.matches = [db.matches EXCEPT ![i] = n] /\ db'.parts = db.parts /\ db'.t = db.t
  BY <1>1, <1>2, <1>3, <1>4 DEF Shape, MatchFields
<1> HIDE DEF n
<1>7. Fair(n)
  <2>1. ~Decided(n) /\ Fair(m)
    BY <1>1, <1>3, <1>5 DEF Decided, Merited
  <2> QED
    BY <1>5, <2>1 DEF Fair, Has, SamePlace
<1> HIDE DEF m
<1>8. /\ DOMAIN db'.matches = DOMAIN db.matches /\ db'.matches[i] = n
      /\ \A j \in DOMAIN db.matches : j # i => db'.matches[j] = db.matches[j]
  BY <1>3, <1>6
<1>9. \A j \in DOMAIN db'.matches : Fair(db'.matches[j]) /\ SamePlace(db.matches[j], db'.matches[j])
  BY <1>1, <1>5, <1>7, <1>8 DEF Merited, SamePlace, m
<1>10. (\A u : Won(db, u) => Won(db', u)) /\ \A x, y : Champions(db, x, y) => Champions(db', x, y)
  BY FollowsKeeps, WonStays
<1>11. \A j \in DOMAIN db'.matches :
         db'.matches[j].name = "grand_final" => Won(db', db'.matches[j].a) /\ Won(db', db'.matches[j].b)
  BY <1>1, <1>8, <1>9, <1>10 DEF Merited, SamePlace
<1>12. Merited(db')
  BY <1>1, <1>6, <1>9, <1>10, <1>11 DEF Merited
<1> QED
  BY <1>8, <1>12 DEF Finalists

(* SaveMatch and CloseRound. *)
LEMMA AdvanceMerited ==
  ASSUME Alone, NEW s \in Schedulers, SaveMatch(s) \/ CloseRound(s)
  PROVE  Merited(db') /\ Finalists(db, db')
<1>1. Shape(db) /\ Single(db) /\ Bracket(db) /\ Merited(db) /\ JobOk(db, sched[s])
  BY DEF Alone, ResultsInv, MoneyInv, Sound, Jobs
<1> DEFINE i == sched[s].match
<1>2. CASE SaveMatch(s)
  <2> DEFINE w == sched[s].winner
  <2>1. db' = decide(db, i, w, Reason(s)) /\ sched[s].step = "saving"
    BY <1>2 DEF SaveMatch
  <2>2. i \in DOMAIN db.matches /\ w # None /\ Earned(db, i, w)
    BY <1>1, <2>1 DEF JobOk
  <2> HIDE DEF i, w
  <2>3. db.matches[i].winner \in {None, w}
    <3>1. db.matches[i].winner # None => Earned(db, i, db.matches[i].winner)
      BY <1>1, <2>2 DEF Bracket, MatchOk
    <3>2. OneRoom(db, i)
      BY <2>2 DEF Alone
    <3> QED
      BY <1>1, <2>2, <3>1, <3>2, EarnedOnce
  <2>4. Merited(db') /\ DOMAIN db'.matches = DOMAIN db.matches
    BY <1>1, <2>1, <2>2, <2>3, decideMerited
  <2> QED
    BY <2>4 DEF Finalists
<1>3. CASE CloseRound(s)
  <2>1. i \in DOMAIN db.matches
    BY <1>1, <1>3 DEF CloseRound, JobOk
  <2>2. db' \in checkRoundComplete(db, i) \/ db' = markGroupWinners(db) \/ db' = db
    BY <1>3 DEF CloseRound
  <2>3. CASE db' \in checkRoundComplete(db, i)
    BY <1>1, <2>1, <2>3, checkRoundCompleteMerited
  <2>4. CASE db' = markGroupWinners(db)
    <3>1. db'.matches = db.matches
      <4>1. {"parts", "matches", "rooms"} \subseteq DOMAIN db
        BY <1>1 DEF Shape
      <4> QED
        BY <2>4, <4>1, MarkedGrows
    <3>2. Merited(db')
      BY <1>1, <2>4, markGroupWinnersMerited
    <3> QED
      BY <3>1, <3>2 DEF Finalists
  <2>5. CASE db' = db
    BY <1>1, <2>5 DEF Finalists
  <2> QED
    BY <2>2, <2>3, <2>4, <2>5
<1> QED
  BY <1>2, <1>3

(* buildGroupBracketDefs: a final for every group, of two of its players. *)
LEMMA GroupsFair ==
  ASSUME NEW d, Shape(d), Single(d)
  PROVE  LET f == buildGroupBracketDefs(d)
         IN /\ Docs(f, MatchFields) /\ Len(f) = Groups /\ DOMAIN f = 1..Groups
            /\ \A g \in 1..Groups :
                 /\ Fair(f[g]) /\ f[g].name = "group_final" /\ f[g].group = g
                 /\ \A u \in {f[g].a, f[g].b} \ {None} :
                      \E i \in DOMAIN d.parts : d.parts[i].user = u /\ d.parts[i].group = g
<1> DEFINE Of(g) == {i \in DOMAIN d.parts : d.parts[i].group = g}
           us(g) == BySeed(d, Of(g))
           At(g, n) == IF n <= Len(us(g)) THEN us(g)[n] ELSE None
           f == buildGroupBracketDefs(d)
<1>1. Groups \in Nat
  BY GroupNumbers
<1>2. ASSUME NEW g \in 1..Groups
      PROVE  /\ At(g, 1) = At(g, 2) => At(g, 1) = None
             /\ \A u \in {At(g, 1), At(g, 2)} \ {None} :
                  \E i \in DOMAIN d.parts : d.parts[i].user = u /\ d.parts[i].group = g
  <2>1. /\ Len(us(g)) \in Nat
        /\ \A n \in 1..Len(us(g)) : \E i \in Of(g) : us(g)[n] = d.parts[i].user
        /\ \A n, m \in 1..Len(us(g)) : us(g)[n] = us(g)[m] => n = m
    <3>1. Of(g) \subseteq DOMAIN d.parts
      OBVIOUS
    <3> HIDE DEF Of
    <3> QED
      BY <3>1, BySeedPlaces
  <2> HIDE DEF us
  <2>2. \A n \in {1, 2} : n <= Len(us(g)) => n \in 1..Len(us(g))
    BY <2>1
  <2>3. \A n \in {1, 2} : At(g, n) # None => n \in 1..Len(us(g)) /\ At(g, n) = us(g)[n]
    BY <2>2
  <2> HIDE DEF At
  <2>4. At(g, 1) = At(g, 2) => At(g, 1) = None
    BY <2>1, <2>3
  <2>5. \A n \in {1, 2} : At(g, n) # None => \E i \in Of(g) : At(g, n) = d.parts[i].user
    BY <2>1, <2>3
  <2> QED
    BY <2>4, <2>5
<1>3. f = [g \in 1..Groups |-> Match(g, "group_final", 0, At(g, 1), At(g, 2))]
  BY DEF buildGroupBracketDefs
<1> HIDE DEF At, us, f, Of
<1>4. \A g, a, b : LET m == Match(g, "group_final", 0, a, b)
                   IN /\ DOMAIN m = MatchFields /\ m.group = g /\ m.name = "group_final" /\ m.a = a /\ m.b = b
                      /\ m.status = "pending" /\ m.winner = None
  BY DEF Match, MatchFields
<1>5. \A g \in 1..Groups :
        /\ DOMAIN f[g] = MatchFields /\ f[g].group = g /\ f[g].name = "group_final" /\ f[g].status = "pending"
        /\ f[g].winner = None /\ f[g].a = At(g, 1) /\ f[g].b = At(g, 2)
  BY <1>3, <1>4
<1>6. f = [g \in 1..Groups |-> f[g]]
  BY <1>3
<1>7. Docs(f, MatchFields) /\ Len(f) = Groups /\ DOMAIN f = 1..Groups
  BY <1>1, <1>3, <1>5, <1>6, DocsMade
<1>8. \A g \in 1..Groups : Fair(f[g])
  BY <1>2, <1>5 DEF Fair, Decided, Has
<1> QED
  BY <1>2, <1>5, <1>7, <1>8 DEF f

(* generateGroupsAndBrackets: nobody has won yet what is drawn, and groups drawn once
   are apart. *)
LEMMA generateMerited ==
  ASSUME Alone, NEW s \in Schedulers, generateGroupsAndBrackets(s)
  PROVE  Merited(db') /\ Separate'
<1>1. Shape(db) /\ Single(db) /\ Bracket(db) /\ Merited(db) /\ Docs(db.matches, MatchFields)
  BY DEF Alone, ResultsInv, MoneyInv, Sound, Bracket
<1> DEFINE f == buildGroupBracketDefs(db)
           n == Len(db.matches)
           ms == db.matches \o f
           ps == [i \in DOMAIN db.parts |-> [db.parts[i] EXCEPT !.status = "active"]]
<1>2. /\ Docs(f, MatchFields) /\ Len(f) = Groups /\ DOMAIN f = 1..Groups
      /\ \A g \in 1..Groups :
           /\ Fair(f[g]) /\ f[g].name = "group_final" /\ f[g].group = g
           /\ \A u \in {f[g].a, f[g].b} \ {None} :
                \E i \in DOMAIN db.parts : db.parts[i].user = u /\ db.parts[i].group = g
  BY <1>1, GroupsFair
<1>3. PICK finals, round : db' = [db EXCEPT !.matches = ms, !.parts = ps, !.t.finals = finals, !.t.round = round]
  BY DEF generateGroupsAndBrackets
<1>4. \A i \in DOMAIN ps : ps[i].status = "active"
  BY <1>1, PartsTyped DEF Participant
<1> HIDE DEF f, ps
<1>5. /\ db'.matches = ms /\ db'.parts = ps /\ db'.rooms = db.rooms
      /\ db'.t = [db.t EXCEPT !.finals = finals, !.round = round]
  BY <1>1, <1>3 DEF Shape
<1>6. db'.t.settled = db.t.settled /\ db'.t.winner = db.t.winner /\ db'.t.runnerUp = db.t.runnerUp
  BY <1>1, <1>5 DEF Shape
<1>7. n \in Nat /\ DOMAIN db.matches = 1..n /\ Groups \in Nat
  BY <1>1, DocsLength, GroupNumbers
<1>8. /\ DOMAIN ms = 1..(n + Groups)
      /\ \A i \in DOMAIN db.matches : ms[i] = db.matches[i]
      /\ \A i \in DOMAIN ms \ DOMAIN db.matches : \E g \in 1..Groups : ms[i] = f[g]
  <2>1. Docs(f, MatchFields) /\ Docs(db.matches, MatchFields)
    BY <1>1, <1>2
  <2>2. /\ DOMAIN ms = 1..(n + Len(f))
        /\ \A i \in DOMAIN db.matches : ms[i] = db.matches[i]
        /\ \A i \in DOMAIN ms \ DOMAIN db.matches : \E g \in DOMAIN f : ms[i] = f[g]
    BY <2>1, DocsConcat
  <2> HIDE DEF ms, n
  <2> QED
    BY <1>2, <2>2
<1>9. \A g \in 1..Groups : ms[n + g] = f[g]
  BY <1>1, <1>2, <1>7 DEF Docs
<1> HIDE DEF n, ms
<1>10. DOMAIN db.matches \subseteq DOMAIN ms
  BY <1>7, <1>8
<1>11. Keeps(db, db')
  BY <1>5, <1>8, <1>10 DEF Keeps, Carried, SamePlace
<1>12. (\A u : Won(db, u) => Won(db', u)) /\ \A x, y : Champions(db, x, y) => Champions(db', x, y)
  BY <1>11, WonStays
<1>13. \A j \in DOMAIN db'.matches :
         Fair(db'.matches[j])
         /\ (db'.matches[j].name = "grand_final" => Won(db', db'.matches[j].a) /\ Won(db', db'.matches[j].b))
  BY <1>1, <1>2, <1>5, <1>8, <1>12 DEF Merited
<1>14. Merited(db')
  BY <1>1, <1>4, <1>5, <1>6, <1>12, <1>13 DEF Merited
<1>15. CASE \E i \in DOMAIN db.matches : db.matches[i].name = "group_final"
  <2>1. PICK i \in DOMAIN db.matches : db.matches[i].name = "group_final"
    BY <1>15
  <2> DEFINE g == db.matches[i].group
             k == n + g
  <2>2. g \in 1..Groups
    BY <1>1, <2>1 DEF Merited, Fair
  <2>3. k \in DOMAIN ms /\ k # i
    BY <1>7, <1>8, <2>2
  <2>4. ms[i].name = "group_final" /\ ms[i].group = g /\ ms[k].name = "group_final" /\ ms[k].group = g /\ i \in DOMAIN ms
    BY <1>2, <1>8, <1>9, <1>10, <2>1, <2>2
  <2>5. ~DrawnOnce'
    BY <1>5, <2>3, <2>4 DEF DrawnOnce, Finals
  <2> QED
    BY <1>14, <2>5 DEF Separate
<1>16. CASE ~\E i \in DOMAIN db.matches : db.matches[i].name = "group_final"
  <2> SUFFICES ASSUME NEW i \in DOMAIN ms, NEW j \in DOMAIN ms, ms[i].name = "group_final", ms[j].name = "group_final",
                      ms[i].group # ms[j].group, NEW u \in {ms[i].a, ms[i].b} \cap {ms[j].a, ms[j].b}
               PROVE  u = None
    BY <1>5, <1>14 DEF Separate, Finals
  <2>1. PICK g \in 1..Groups, h \in 1..Groups : ms[i] = f[g] /\ ms[j] = f[h]
    BY <1>8, <1>16
  <2>2. g # h
    BY <2>1
  <2>3. u # None => \E p, q \in DOMAIN db.parts : /\ db.parts[p].user = u /\ db.parts[p].group = g
                                                  /\ db.parts[q].user = u /\ db.parts[q].group = h
    BY <1>2, <2>1
  <2> QED
    BY <1>1, <2>2, <2>3 DEF Single
<1> QED
  BY <1>15, <1>16

(* Rooms do not go, nor leave their match. *)
LEMMA PlayedOnceBefore ==
  ASSUME NEW R, Moves(db, db', R), Bracket(db), PlayedOnce'
  PROVE  PlayedOnce /\ (\A i \in DOMAIN db.matches : OneRoom(db', i)) /\ \A i \in DOMAIN db'.matches : OneRoom(db', i)
<1>1. Grown(db, db') /\ Bracket(db')
  BY DEF Moves
<1>2. \A i \in DOMAIN db'.matches : Cardinality(RoomsOf(db', i)) <= 1
  BY DEF PlayedOnce
<1>3. \A i \in DOMAIN db'.matches : OneRoom(db', i)
  BY <1>1, <1>2, OneRoomCounted DEF Bracket
<1>4. ASSUME NEW i \in DOMAIN db.matches
      PROVE  i \in DOMAIN db'.matches /\ Cardinality(RoomsOf(db, i)) <= 1
  <2>1. i \in DOMAIN db'.matches /\ RoomsOf(db, i) \subseteq RoomsOf(db', i)
    BY <1>1 DEF Grown, RoomsOf
  <2>2. IsFiniteSet(RoomsOf(db', i))
    <3>1. Docs(db'.rooms, RoomFields)
      BY <1>1 DEF Bracket
    <3>2. IsFiniteSet(DOMAIN db'.rooms)
      BY <3>1, DocsLength, FS_Interval
    <3> QED
      BY <3>2, FS_Subset DEF RoomsOf
  <2>3. /\ Cardinality(RoomsOf(db, i)) <= Cardinality(RoomsOf(db', i))
        /\ Cardinality(RoomsOf(db, i)) \in Nat /\ Cardinality(RoomsOf(db', i)) \in Nat
    BY <2>1, <2>2, FS_Subset, FS_CardinalityType
  <2> QED
    BY <1>2, <2>1, <2>3
<1> QED
  BY <1>3, <1>4 DEF PlayedOnce

(* Every step. *)
LEMMA ChampionStep ==
  ASSUME ChampionInv, [Next]_vars
  PROVE  ChampionInv'
<1>1. Advances /\ ResultsInv' /\ Bracket(db)
  <2>1. Advances
    BY NextAdvances DEF ChampionInv
  <2> QED
    BY <2>1, MoneyStep, ReadsStep DEF Advances, Moves, ChampionInv, ResultsInv
<1> SUFFICES ASSUME PlayedOnce'
             PROVE  Alone'
  BY <1>1 DEF ChampionInv
<1>2. PICK R : Moves(db, db', R)
  BY <1>1 DEF Advances
<1>3. PlayedOnce /\ (\A i \in DOMAIN db.matches : OneRoom(db', i)) /\ \A i \in DOMAIN db'.matches : OneRoom(db', i)
  BY <1>1, <1>2, PlayedOnceBefore
<1>4. Alone /\ Follows(db, db')
  BY <1>2, <1>3, MovesFollow DEF ChampionInv
<1>5. ReadsMerited'
  BY <1>4, ReadsMeritedStep
<1>6. ASSUME Merited(db'), Separate'
      PROVE  Alone'
  BY <1>1, <1>3, <1>5, <1>6 DEF Alone
<1>7. ASSUME Merited(db'), Finalists(db, db')
      PROVE  Alone'
  BY <1>4, <1>6, <1>7, SeparateStays DEF Alone
<1>8. ASSUME Merited(db'), db'.matches = db.matches
      PROVE  Alone'
  BY <1>7, <1>8 DEF Finalists
<1>9. CASE \/ openTournament
           \/ \E u \in Players : register(u) \/ unregister(u) \/ refundCancelled(u)
           \/ \E s \in Schedulers : SaveLocking(s) \/ CancelStart(s) \/ RefundNext(s) \/ Run(s) \/ EndActivation(s)
                                    \/ EliminateLoser(s)
  BY <1>4, <1>8, <1>9, PlainMerited
<1>10. CASE \/ cancel \/ (\E r \in Rooms : EndWithoutWinner(r) \/ \E w \in Pair(db, r) : LeaveRoom(r, w))
            \/ \E s \in Schedulers : ActivateMatch(s)
  BY <1>4, <1>8, <1>10, RoomsMerited
<1>11. CASE \/ StartsAtPasses \/ (\E r \in Rooms : BeginCommand(r)) \/ (\E x \in tx : AbortCommand(x))
            \/ \E s \in Schedulers : \/ ListDue(s) \/ TakeUpStart(s) \/ processBetweenRounds(s)
                                     \/ activatePendingFinalsMatches(s) \/ SchedulerDies(s) \/ ReadMatch(s)
                                     \/ \E i \in DOMAIN db.matches : repairStuckMatchesFromFinishedRooms(s, i)
            \/ (\E key \in locks : LockExpires(key)) \/ UNCHANGED vars
  <2>1. db' = db
    BY <1>11 DEF StartsAtPasses, BeginCommand, AbortCommand, ListDue, TakeUpStart, processBetweenRounds,
       activatePendingFinalsMatches, SchedulerDies, ReadMatch, repairStuckMatchesFromFinishedRooms, LockExpires, vars
  <2> QED
    BY <1>4, <1>8, <2>1 DEF Alone
<1>12. CASE \E x \in tx : FinishGame(x)
  <2>1. Merited(db') /\ Finalists(db, db')
    BY <1>4, <1>12, FinishGameMerited DEF Alone
  <2> QED
    BY <1>7, <2>1
<1>13. CASE \E s \in Schedulers : SaveReady(s)
  BY <1>4, <1>7, <1>13, SaveReadyMerited
<1>14. CASE \E s \in Schedulers : SaveMatch(s) \/ CloseRound(s)
  BY <1>4, <1>7, <1>14, AdvanceMerited
<1>15. CASE \E s \in Schedulers : generateGroupsAndBrackets(s)
  BY <1>4, <1>6, <1>15, generateMerited
<1> QED
  BY <1>9, <1>10, <1>11, <1>12, <1>13, <1>14, <1>15 DEF Next

(* The start: there is no match, no room, no job and no command. *)
LEMMA ChampionInit ==
  ASSUME Init
  PROVE  ChampionInv
<1>1. db.matches = <<>> /\ db.rooms = <<>> /\ db.parts = <<>> /\ db.t.settled = FALSE /\ tx = {}
  BY DEF Init
<1>2. Merited(db) /\ ReadsMerited /\ Separate /\ \A i \in DOMAIN db.matches : OneRoom(db, i)
  BY <1>1 DEF Merited, ReadsMerited, Separate, Finals
<1> QED
  BY <1>2, ResultsInit DEF ChampionInv, Alone

(* Where the groups and the finals were drawn once, the prizes say who has won. *)
LEMMA PrizesMerited ==
  ASSUME ChampionInv
  PROVE  ChampionUnbeaten
<1> SUFFICES ASSUME db.t.settled, DrawnOnce, Alone, NEW i \in DOMAIN db.matches, Decided(db.matches[i])
             PROVE  /\ db.matches[i].loser # db.t.winner
                    /\ db.matches[i].loser = db.t.runnerUp => db.matches[i].winner = db.t.winner
  BY DEF ChampionUnbeaten, ChampionInv
<1> DEFINE M == db.matches
           w == db.t.winner
           l == db.t.runnerUp
<1>1. PICK k \in DOMAIN M : Has(M[k]) /\ Closing(M[k]) /\ M[k].winner = w /\ M[k].loser = l
  BY DEF Alone, Merited, Champions
<1>2. Has(M[i]) /\ \A j \in DOMAIN M : Fair(M[j])
  BY DEF Alone, Merited, Fair
<1>3. \A j, h \in DOMAIN M : /\ M[j].name = "group_final" /\ M[h].name = "group_final" /\ M[j].group = M[h].group => j = h
                             /\ M[j].name = "grand_final" /\ M[h].name = "grand_final" => j = h
  BY DEF DrawnOnce, Finals
<1>4. i = k => M[i].loser # w
  BY <1>1, <1>2 DEF Fair, Closing
<1>5. CASE Groups = 1
  <2>1. M[i].name = "group_final" /\ M[k].name = "group_final" /\ M[i].group = 1 /\ M[k].group = 1
    BY <1>2, <1>5 DEF Fair
  <2>2. i = k
    BY <1>3, <2>1
  <2> QED
    BY <1>1, <1>4, <2>2
<1>6. CASE Groups # 1
  <2>1. M[k].name = "grand_final" /\ Groups = 2
    BY <1>1, <1>2, <1>6 DEF Closing, Fair
  <2>2. CASE M[i].name = "grand_final"
    BY <1>1, <1>3, <1>4, <2>1, <2>2
  <2>3. CASE M[i].name # "grand_final"
    <3>1. Won(db, M[k].a) /\ Won(db, M[k].b)
      BY <2>1 DEF Alone, Merited
    <3>2. PICK p \in DOMAIN M, q \in DOMAIN M :
            /\ M[p].name = "group_final" /\ Has(M[p]) /\ M[p].winner = M[k].a
            /\ M[q].name = "group_final" /\ Has(M[q]) /\ M[q].winner = M[k].b
      BY <3>1 DEF Won
    <3>3. /\ M[p].winner \in {M[p].a, M[p].b} \ {None} /\ M[p].loser \in {M[p].a, M[p].b} \ {M[p].winner}
          /\ M[q].winner \in {M[q].a, M[q].b} \ {None} /\ M[q].loser \in {M[q].a, M[q].b} \ {M[q].winner}
          /\ M[p].group \in 1..2 /\ M[q].group \in 1..2
      BY <1>2, <2>1, <3>2 DEF Fair
    <3>4. M[k].a # M[k].b /\ w \in {M[k].a, M[k].b} /\ l \in {M[k].a, M[k].b}
      BY <1>1, <1>2, <2>1, <3>2, <3>3 DEF Fair
    <3>5. p # q /\ M[p].group # M[q].group
      BY <1>3, <3>2, <3>4
    <3>6. {M[p].a, M[p].b} \cap {M[q].a, M[q].b} \subseteq {None}
      BY <3>2, <3>5 DEF Alone, Separate, Finals
    <3>7. M[i].name = "group_final" /\ M[i].group \in 1..2
      BY <1>2, <2>1, <2>3 DEF Fair
    <3>8. M[i].group = M[p].group \/ M[i].group = M[q].group
      BY <3>3, <3>5, <3>7
    <3>9. i = p \/ i = q
      BY <1>3, <3>2, <3>7, <3>8
    <3>10. M[p].loser \notin {M[k].a, M[k].b} /\ M[q].loser \notin {M[k].a, M[k].b}
      BY <3>2, <3>3, <3>6
    <3> QED
      BY <3>4, <3>9, <3>10
  <2> QED
    BY <2>2, <2>3
<1> QED
  BY <1>5, <1>6

(* ChampionUnbeaten: for any number of users, schedulers and commands, every size of
   the bracket, and every trouble. *)
THEOREM TournamentChampionUnbeaten == Spec => []ChampionUnbeaten
<1>1. Init => ChampionInv
  BY ChampionInit
<1>2. ChampionInv /\ [Next]_vars => ChampionInv'
  BY ChampionStep
<1>3. ChampionInv => ChampionUnbeaten
  BY PrizesMerited
<1> QED
  BY <1>1, <1>2, <1>3, PTL DEF Spec
=============================================================================
