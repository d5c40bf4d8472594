----------------------------- MODULE UnoProofs -----------------------------
(* The stakes and the countdowns of a room of UNO, for any stake, fee, deck and *)
(* number of players and rounds.                                               *)
EXTENDS Uno, GameRoomsProofs

(* What the engine does to the hands, the piles and the turn. *)
LEMMA EngineTurned ==
  ASSUME NEW d, Shape(d), NEW e, Turned(d, e)
  PROVE  /\ Turned(d, NextTurn(e)) /\ Turned(d, Broadcast(e))
         /\ \A p, s : Turned(d, Takes(e, p, s))
         /\ \A p, card, color, callUno : Turned(d, Laid(e, p, card, color, callUno))
         /\ \A card : Turned(d, Advanced(e, card))
<1>1. ASSUME NEW f, Turned(d, f)
      PROVE  Turned(d, NextTurn(f))
  <2> DEFINE next == Following(f, f.game.mover, f.game.out, f.game.dir)
  <2>1. NextTurn(f) = [f EXCEPT !.game.mover = next]
    BY DEF NextTurn
  <2> HIDE DEF next
  <2> QED
    BY <1>1, <2>1 DEF Turned, Shape
<1>2. Turned(d, Broadcast(e))
  BY TurnedSteps DEF Broadcast
<1>3. \A p, s : Turned(d, Takes(e, p, s))
  BY DEF Takes, Turned, Shape
<1>4. ASSUME NEW p, NEW card, NEW color, NEW callUno
      PROVE  Turned(d, Laid(e, p, card, color, callUno))
  <2> DEFINE left == e.game.hands[p] \ {card}
             one == Cardinality(left) = 1
             more == CASE card[2] = Draw2 -> e.game.pending + 2
                       [] card[2] = WildDraw4 -> e.game.pending + 4
                       [] OTHER -> 0
             shown == IF isWild(card) THEN color ELSE card[1]
             called == IF one /\ callUno THEN e.game.called \cup {p} ELSE e.game.called \ {p}
             offender == IF one /\ ~callUno THEN p ELSE None
             after == [e EXCEPT !.game.hands[p] = left, !.game.discard = @ \cup {e.game.top},
                                !.game.top = card, !.game.color = shown, !.game.pending = more,
                                !.game.called = called, !.game.offender = offender]
  <2>1. Laid(e, p, card, color, callUno) = after
    BY Zenon DEF Laid
  <2> HIDE DEF left, one, more, shown, called, offender
  <2>2. Turned(d, after)
    BY DEF Turned, Shape
  <2> HIDE DEF after
  <2> QED
    BY <2>1, <2>2
<1>5. ASSUME NEW card
      PROVE  Turned(d, Advanced(e, card))
  <2> DEFINE turned == IF card[2] = ReverseTurn THEN [e EXCEPT !.game.dir = -@] ELSE e
  <2>1. Turned(d, turned)
    BY DEF Turned, Shape
  <2> HIDE DEF turned
  <2>2. Turned(d, NextTurn(turned)) /\ Turned(d, NextTurn(NextTurn(turned)))
    BY <1>1, <2>1
  <2>3. Advanced(e, card) \in {turned, NextTurn(turned), NextTurn(NextTurn(turned))}
    BY DEF Advanced, turned
  <2> QED
    BY <2>1, <2>2, <2>3
<1> QED
  BY <1>1, <1>2, <1>3, <1>4, <1>5

(* finalizeUnoRoundWinner: the match ends, or pauses. *)
LEMMA RoundPlays ==
  ASSUME NEW d, OpenBooks(d), NEW e, Turned(d, e), NEW p
  PROVE  Plays(d, finalizeUnoRoundWinner(e, p))
<1>1. Shape(d)
  BY DEF OpenBooks, Held
<1> DEFINE dealt == FoldSet(LAMBDA q, sum : sum + sumHandScore(e.game.hands[q]), 0, Seated(e) \ {p})
           tallied == [e EXCEPT !.game.scores[p] = @ + dealt,
                                !.game.history = Append(@, [round |-> e.game.round, winner |-> p])]
           scored == NewTurn(tallied)
           over == [scored EXCEPT !.game.between = FALSE]
           pause == [scored EXCEPT !.game.between = TRUE, !.game.dealing = FALSE,
                                   !.game.out = {}, !.game.ready = {}]
<1>2. finalizeUnoRoundWinner(e, p) \in {Finish(over, p), pause}
  BY DEF finalizeUnoRoundWinner
<1> HIDE DEF dealt
<1>3. Turned(d, tallied)
  BY <1>1 DEF Turned, Shape
<1> HIDE DEF tallied
<1>4. Turned(d, scored)
  BY <1>1, <1>3, TurnedSteps
<1> HIDE DEF scored
<1>5. Turned(d, over) /\ Turned(d, pause)
  BY <1>1, <1>4 DEF Turned, Shape
<1> HIDE DEF over, pause
<1> QED
  BY <1>2, <1>5, TurnedPlays

(* The next deal. *)
LEMMA NextRoundTurned ==
  ASSUME NEW d, Shape(d), NEW e, Turned(d, e), NEW f \in startNextRound(e)
  PROVE  Turned(d, f)
<1>1. PICK game : f = Broadcast([e EXCEPT !.game = game])
  BY DEF startNextRound
<1>2. Turned(d, [e EXCEPT !.game = game])
  BY TurnedSteps
<1> QED
  BY <1>1, <1>2, EngineTurned

(* eliminatePlayer: the match goes on without the player, or ends. *)
LEMMA QuitPlays ==
  ASSUME Good(db, sweep), Open(db)
  PROVE  \A p : Plays(db, eliminatePlayer(db, p)) /\ Plays(db, Quit(db, p))
<1> SUFFICES ASSUME NEW p
             PROVE  Plays(db, eliminatePlayer(db, p)) /\ Plays(db, Quit(db, p))
  OBVIOUS
<1>1. OpenBooks(db) /\ Shape(db)
  BY InPlayGood
<1> DEFINE hand == IF p \in DOMAIN db.game.hands THEN db.game.hands[p] ELSE {}
           out == [db EXCEPT !.game.draw = @ \cup hand, !.game.hands[p] = {},
                             !.game.out = @ \cup {p}]
           turned == IF db.game.mover = p THEN NewTurn(NextTurn(out)) ELSE out
           over == [turned EXCEPT !.game.between = FALSE, !.game.dealing = FALSE]
           left == Active(out)
           last == CHOOSE q \in left : TRUE
<1>2. eliminatePlayer(db, p) =
        IF db.room.status # "started" \/ p \in db.game.out THEN db
        ELSE IF Cardinality(left) = 1 THEN Finish(over, last)
        ELSE IF turned.game.mover \in online THEN Schedule(turned, turned.game.mover) ELSE turned
  BY DEF eliminatePlayer
<1> HIDE DEF left, last
<1>3. Turned(db, out)
  <2> HIDE DEF hand
  <2> QED
    BY <1>1 DEF Turned, Shape
<1> HIDE DEF out
<1>4. Turned(db, turned)
  BY <1>1, <1>3, EngineTurned, TurnedSteps
<1> HIDE DEF turned
<1>5. Turned(db, over)
  BY <1>1, <1>4 DEF Turned, Shape
<1> HIDE DEF over
<1>6. Plays(db, eliminatePlayer(db, p))
  BY <1>1, <1>2, <1>4, <1>5, TurnedSelf, TurnedSteps, TurnedPlays
<1> QED
  BY <1>6, ResignPlays DEF Quit

(* A player may only act in a match that is set up. *)
LEMMA PlayingGood ==
  ASSUME Good(db, sweep), NEW p, Here(p) \/ MayAct(p) \/ InPlay(db)
  PROVE  InPlay(db) /\ OpenBooks(db) /\ Shape(db) /\ Turned(db, db)
BY InPlayGood, TurnedSelf DEF MayAct, Here, InPlay

(* A command that leaves the stakes alone and does not end the match. *)
LEMMA TurnedKept ==
  ASSUME Good(db, sweep), InPlay(db), NEW e, Turned(db, e), Commit(e)
  PROVE  Kept
BY PlayingGood, TurnedPlays, MoveKept

(* handlePlayCard: the round is won, or the turn passes. *)
LEMMA handlePlayCardKept ==
  ASSUME Good(db, sweep), NEW p \in Players, NEW card, NEW color, NEW callUno,
         handlePlayCard(p, card, color, callUno)
  PROVE  Kept
<1> DEFINE laid == Laid(db, p, card, color, callUno)
<1>1. InPlay(db) /\ OpenBooks(db) /\ Shape(db) /\ Turned(db, db)
  BY PlayingGood DEF handlePlayCard
<1>2. Turned(db, laid)
  BY <1>1, EngineTurned
<1>3. \/ Commit(finalizeUnoRoundWinner(laid, p))
      \/ \E s : Commit(Broadcast(Advanced(Takes(laid, p, s), card)))
      \/ Commit(Broadcast(Advanced(laid, card)))
  BY DEF handlePlayCard
<1> HIDE DEF laid
<1>4. Plays(db, finalizeUnoRoundWinner(laid, p))
  BY <1>1, <1>2, RoundPlays
<1>5. ASSUME NEW s
      PROVE  Turned(db, Broadcast(Advanced(Takes(laid, p, s), card)))
  <2>1. Turned(db, Takes(laid, p, s))
    BY <1>1, <1>2, EngineTurned
  <2>2. Turned(db, Advanced(Takes(laid, p, s), card))
    BY <1>1, <2>1, EngineTurned
  <2> QED
    BY <1>1, <2>2, EngineTurned
<1>6. Turned(db, Broadcast(Advanced(laid, card)))
  <2>1. Turned(db, Advanced(laid, card))
    BY <1>1, <1>2, EngineTurned
  <2> QED
    BY <1>1, <2>1, EngineTurned
<1> QED
  BY <1>1, <1>3, <1>4, <1>5, <1>6, TurnedKept, MoveKept

(* handleCallUno and handleChallengeUnoMiss: a declaration, or two cards for who made none. *)
LEMMA handleCallUnoKept ==
  ASSUME Good(db, sweep), NEW p \in Players, handleCallUno(p) \/ handleChallengeUnoMiss(p)
  PROVE  Kept
<1>1. InPlay(db) /\ Shape(db) /\ Turned(db, db)
  BY PlayingGood DEF handleCallUno, handleChallengeUnoMiss
<1> DEFINE called == [db EXCEPT !.game.called = @ \cup {p}, !.game.offender = None]
<1>2. PICK e : Commit(e) /\ (e = called \/ \E q, s : e = Takes(db, q, s))
  BY DEF handleCallUno, handleChallengeUnoMiss
<1>3. Turned(db, called)
  BY <1>1 DEF Turned, Shape
<1>4. Turned(db, e)
  BY <1>1, <1>2, <1>3, EngineTurned
<1> QED
  BY <1>1, <1>2, <1>4, TurnedKept

(* handleTakeDrawStack: the stack comes into the hand. *)
LEMMA handleTakeDrawStackKept ==
  ASSUME Good(db, sweep), NEW p \in Players, handleTakeDrawStack(p)
  PROVE  Kept
<1>1. InPlay(db) /\ Shape(db) /\ Turned(db, db)
  BY PlayingGood DEF handleTakeDrawStack
<1>2. PICK s : Commit(Broadcast(NextTurn([Takes(db, p, s) EXCEPT !.game.pending = 0])))
  BY DEF handleTakeDrawStack
<1> DEFINE taken == Takes(db, p, s)
           cleared == [taken EXCEPT !.game.pending = 0]
<1>3. Turned(db, taken)
  BY <1>1, EngineTurned
<1> HIDE DEF taken
<1>4. Turned(db, cleared)
  BY <1>1, <1>3 DEF Turned, Shape
<1> HIDE DEF cleared
<1>5. Turned(db, NextTurn(cleared))
  BY <1>1, <1>4, EngineTurned
<1>6. Turned(db, Broadcast(NextTurn(cleared)))
  BY <1>1, <1>5, EngineTurned
<1> QED
  BY <1>1, <1>2, <1>6, TurnedKept DEF cleared, taken

(* handleDrawOne: a card comes into the hand. *)
LEMMA handleDrawOneKept ==
  ASSUME Good(db, sweep), NEW p \in Players, handleDrawOne(p)
  PROVE  Kept
<1>1. InPlay(db) /\ Shape(db) /\ Turned(db, db)
  BY PlayingGood DEF handleDrawOne
<1>2. PICK s : Commit(Broadcast(Takes(db, p, s)))
  BY DEF handleDrawOne
<1>3. Turned(db, Takes(db, p, s))
  BY <1>1, EngineTurned
<1>4. Turned(db, Broadcast(Takes(db, p, s)))
  BY <1>1, <1>3, EngineTurned
<1> QED
  BY <1>1, <1>2, <1>4, TurnedKept

(* handlePass: a card is drawn, and the turn may pass. *)
LEMMA handlePassKept ==
  ASSUME Good(db, sweep), NEW p \in Players, handlePass(p)
  PROVE  Kept
<1>1. InPlay(db) /\ Shape(db) /\ Turned(db, db)
  BY PlayingGood DEF handlePass
<1> DEFINE none == [db EXCEPT !.game.offender = None]
<1>2. PICK drawn : /\ drawn = none \/ \E s : drawn = Takes(db, p, s)
                   /\ \/ Commit(Broadcast(drawn))
                      \/ Commit(Broadcast(NextTurn(drawn)))
  BY DEF handlePass
<1>3. Turned(db, none)
  BY <1>1 DEF Turned, Shape
<1> HIDE DEF none
<1>4. Turned(db, drawn)
  BY <1>1, <1>2, <1>3, EngineTurned
<1>5. Turned(db, NextTurn(drawn))
  BY <1>1, <1>4, EngineTurned
<1>6. Turned(db, Broadcast(drawn)) /\ Turned(db, Broadcast(NextTurn(drawn)))
  BY <1>1, <1>4, <1>5, EngineTurned
<1> QED
  BY <1>1, <1>2, <1>6, TurnedKept

(* handleStartNextRound: a player is ready, and the last one deals. *)
LEMMA handleStartNextRoundKept ==
  ASSUME Good(db, sweep), NEW p \in Players, handleStartNextRound(p)
  PROVE  Kept
<1>1. InPlay(db) /\ Shape(db)
  BY PlayingGood DEF handleStartNextRound
<1> DEFINE ready == [db EXCEPT !.game.ready = @ \cup {p}]
<1>2. PICK e : Commit(e) /\ (e = ready \/ e \in startNextRound(ready))
  BY DEF handleStartNextRound
<1>3. Turned(db, ready)
  BY <1>1 DEF Turned, Shape
<1> HIDE DEF ready
<1>4. Turned(db, e)
  BY <1>1, <1>2, <1>3, NextRoundTurned
<1> QED
  BY <1>1, <1>2, <1>4, TurnedKept

(* The scheduler of the pauses, which is no command. *)
LEMMA SchedulerKept ==
  ASSUME Good(db, sweep), processBetweenRoundsTimeouts \/ SchedulerDies
  PROVE  Kept
<1>1. InPlay(db) /\ Shape(db) /\ OpenBooks(db) /\ Turned(db, db)
  BY PlayingGood DEF processBetweenRoundsTimeouts, SchedulerDies
<1> DEFINE taken == [db EXCEPT !.game.dealing = TRUE]
<1>2. PICK e : Save(e) /\ (e = taken \/ e \in startNextRound(db))
  BY DEF processBetweenRoundsTimeouts, SchedulerDies
<1>3. Turned(db, taken)
  BY <1>1 DEF Turned, Shape
<1>4. Turned(db, e)
  BY <1>1, <1>2, <1>3, NextRoundTurned
<1>5. Plays(db, e) /\ e.room = db.room
  BY <1>1, <1>4, TurnedPlays DEF Turned
<1>6. db.room.status # "finished" /\ db.room.gameReady /\ db.room.played
  BY <1>1, InPlayGood DEF InPlay
<1> QED
  BY <1>2, <1>5, <1>6, PlaysLead, SaveKept

(* Every step keeps the books, the countdowns and the promise about the stakes. *)
LEMMA NextKept ==
  ASSUME Good(db, sweep), [Next]_vars
  PROVE  Kept
<1>1. CASE UNCHANGED vars
  BY <1>1, UnchangedKept
<1>2. CASE RoomStep
  BY <1>2, RoomStepKept
<1>3. CASE \E p \in Players : markReady(p)
  BY <1>3, markReadyKept
<1>4. CASE \E p \in Players : handleJoin(p)
  BY <1>4, JoinKept DEF handleJoin
<1>5. CASE tryStartUnoGame
  BY <1>5, tryStartKept DEF tryStartUnoGame
<1>6. CASE \E p \in Players : handleDisconnect(p)
  BY <1>6, AbsenceKept DEF handleDisconnect
<1>7. CASE \E p \in Players : LeaveRoom(p)
  BY <1>7, LeavingKept, QuitPlays DEF LeaveRoom
<1>8. CASE forfeit
  BY <1>8, HandlerKept, QuitPlays DEF forfeit, Sweepers
<1>9. CASE timeout
  BY <1>9, HandlerKept, QuitPlays DEF timeout, Sweepers
<1>10. CASE \E p \in Players, card \in Deck, color \in Colors, callUno \in BOOLEAN :
             handlePlayCard(p, card, color, callUno)
  BY <1>10, handlePlayCardKept
<1>11. CASE \E p \in Players : handleCallUno(p)
  BY <1>11, handleCallUnoKept
<1>12. CASE \E p \in Players : handleChallengeUnoMiss(p)
  BY <1>12, handleCallUnoKept
<1>13. CASE \E p \in Players : handleTakeDrawStack(p)
  BY <1>13, handleTakeDrawStackKept
<1>14. CASE \E p \in Players : handleDrawOne(p)
  BY <1>14, handleDrawOneKept
<1>15. CASE \E p \in Players : handlePass(p)
  BY <1>15, handlePassKept
<1>16. CASE \E p \in Players : handleStartNextRound(p)
  BY <1>16, handleStartNextRoundKept
<1>17. CASE processBetweenRoundsTimeouts
  BY <1>17, SchedulerKept
<1>18. CASE SchedulerDies
  BY <1>18, SchedulerKept
<1> QED
  BY <1>1, <1>2, <1>3, <1>4, <1>5, <1>6, <1>7, <1>8, <1>9, <1>10, <1>11, <1>12, <1>13,
     <1>14, <1>15, <1>16, <1>17, <1>18 DEF Next

(* Every reachable state of a room of UNO has its books in order. *)
THEOREM UnoGood == Spec => []Good(db, sweep)
<1>1. Init => Good(db, sweep)
  BY InitGood
<1>2. Good(db, sweep) /\ [Next]_vars => Good(db, sweep)'
  BY NextKept DEF Kept
<1> QED
  BY <1>1, <1>2, PTL DEF Spec

(* settleGameRoom and everything before it: in every state of every room of UNO, *)
(* the escrow has the stakes that came in and did not go back, until the winner of *)
(* the match takes them.                                                           *)
THEOREM UnoStakesBalance == Spec => []StakesBalance
<1>1. Good(db, sweep) => StakesBalance
  BY GoodBalance
<1> QED
  BY <1>1, UnoGood, PTL

(* grace-period.service.ts sweep: the sweeper that finishes with an earlier absence *)
(* leaves the countdown of a player who is away again alone.                        *)
THEOREM UnoRefreshedRowSurvives == Spec => RefreshedRowSurvives
<1>1. Good(db, sweep) /\ [Next]_vars => [GraceStep]_vars
  BY NextKept DEF Kept
<1>2. Spec => [][GraceStep]_vars
  BY <1>1, UnoGood, PTL DEF Spec
<1> QED
  BY <1>2 DEF RefreshedRowSurvives, GraceStep

(* Every step of a room of UNO is a step of RoomContract: the stakes come in *)
(* before the match, lie untouched until everyone has seen the board and while    *)
(* the match is played, and go out once, to a player who staked or back to all.   *)
THEOREM UnoImplementsContract == Spec => Contract!Spec
<1>1. Init => Contract!Init
  BY InitContract
<1>2. Good(db, sweep) /\ [Next]_vars => [Contract!Next]_(Contract!contractVars)
  BY NextKept, PromiseContract DEF Kept
<1> QED
  BY <1>1, <1>2, UnoGood, PTL DEF Spec, Contract!Spec

----------------------------------------------------------------------------
(* The cards. *)
Spread(hands, pile, S) ==
  /\ DOMAIN hands = S /\ pile \subseteq Deck
  /\ \A p \in S : hands[p] \subseteq Deck \ pile
  /\ \A p, q \in S : p # q => hands[p] \cap hands[q] = {}
  /\ \A card \in Deck : card \in pile \/ \E p \in S : card \in hands[p]
Piled(g) == g.draw \cap g.discard = {} /\ g.top \notin g.draw \cup g.discard
Stacked(g) == g.pending > 0 => g.top[2] \in {Draw2, WildDraw4}
Table(g, S) ==
  /\ IsUno(g) /\ Spread(g.hands, Pile(g), S) /\ Piled(g) /\ Stacked(g)
  /\ g.offender \in {None} \cup S /\ g.called \subseteq S /\ g.dir \in {1, -1}

(* What was declared, in a round. *)
OneCard(g, p) == p \in g.out \/ Cardinality(g.hands[p]) = 1
Told(g) == g.between \/ /\ \A p \in g.called : OneCard(g, p)
                        /\ g.offender # None => OneCard(g, g.offender) /\ g.offender \notin g.called

(* The player to move is in the round, and somebody else is. *)
Going(d) == d.game.mover \in Active(d) /\ (\E p, q \in Active(d) : p # q) /\ Told(d.game)
(* A match, when a handler has changed its document. *)
Playing(d) == Fields(d) /\ Orderly(d.room.players) /\ d.room.gameReady /\ Table(d.game, Seated(d))
Live(d) == Playing(d) /\ Going(d)
UnoInv(d) ==
  /\ Orderly(d.room.players)
  /\ \/ ~d.room.gameReady /\ d.game = NoGame
     \/ d.room.gameReady /\ Table(d.game, Seated(d)) /\ (d.room.status # "finished" => Going(d))
(* A step keeps that, and a match once published is not withdrawn. *)
Carried == UnoInv(db') /\ (db.room.gameReady => db'.room.gameReady)

(* Cards go from one place to another: into or out of one hand, and the piles. *)
LEMMA SpreadMoved ==
  ASSUME NEW hands, NEW pile, NEW S, Spread(hands, pile, S), NEW p \in S, NEW own, NEW rest,
         own \cup rest = hands[p] \cup pile, own \cap rest = {}
  PROVE  Spread([hands EXCEPT ![p] = own], rest, S)
<1> DEFINE now == [hands EXCEPT ![p] = own]
<1>1. /\ DOMAIN now = S /\ now[p] = own /\ \A q \in S : q # p => now[q] = hands[q]
  BY DEF Spread
<1> HIDE DEF now
<1>2. hands[p] \cup pile \subseteq Deck
  BY DEF Spread
<1>3. rest \subseteq Deck /\ own \subseteq Deck
  BY <1>2
<1>4. ASSUME NEW q \in S, q # p
      PROVE  now[q] \subseteq Deck /\ now[q] \cap (own \cup rest) = {}
  <2>1. hands[q] \subseteq Deck \ pile /\ hands[q] \cap hands[p] = {}
    BY <1>4 DEF Spread
  <2> QED
    BY <1>1, <1>4, <2>1
<1>5. ASSUME NEW q \in S
      PROVE  now[q] \subseteq Deck \ rest
  BY <1>1, <1>3, <1>4, <1>5
<1>6. ASSUME NEW q \in S, NEW r \in S, q # r
      PROVE  now[q] \cap now[r] = {}
  <2>1. CASE q # p /\ r # p
    BY <1>1, <1>6, <2>1 DEF Spread
  <2>2. CASE q = p \/ r = p
    BY <1>1, <1>4, <1>6, <2>2
  <2> QED
    BY <2>1, <2>2
<1>7. ASSUME NEW card \in Deck
      PROVE  card \in rest \/ \E q \in S : card \in now[q]
  <2>1. card \in pile \/ \E q \in S : card \in hands[q]
    BY DEF Spread
  <2>2. CASE \E q \in S : q # p /\ card \in hands[q]
    BY <1>1, <2>2
  <2>3. CASE card \in hands[p] \cup pile
    BY <1>1, <2>3
  <2> QED
    BY <2>1, <2>2, <2>3
<1> QED
  BY <1>1, <1>3, <1>5, <1>6, <1>7 DEF Spread, now

(* A step that leaves the document alone. *)
LEMMA QuietCards ==
  ASSUME UnoInv(db), Quiet(db, db')
  PROVE  Carried
<1>1. CASE ~db.room.gameReady
  BY <1>1 DEF UnoInv, Quiet, Result, Carried
<1>2. CASE db.room.gameReady
  <2>1. /\ db'.room.gameReady /\ db'.game = db.game /\ db'.room.players = db.room.players
        /\ (db'.room.status # "finished" => db.room.status # "finished")
    BY <1>2 DEF Quiet, Result
  <2>2. Seated(db') = Seated(db) /\ Active(db') = Active(db)
    BY <2>1 DEF Seated, Active
  <2> QED
    BY <1>2, <2>1, <2>2 DEF UnoInv, Going, Carried
<1> QED
  BY <1>1, <1>2

(* What a handler leaves is saved, with the settlement of a match that it ended or without. *)
LEMMA PlayingCarried ==
  ASSUME NEW e, Playing(e), e.room.status # "finished" => Going(e),
         db' = e \/ db' = settleGameRoom(e)
  PROVE  Carried
<1>1. /\ db'.game = e.game /\ db'.room.status = e.room.status /\ db'.room.players = e.room.players
      /\ db'.room.gameReady
  BY SettleQuiet DEF Playing
<1>2. Seated(db') = Seated(e) /\ Active(db') = Active(e)
  BY <1>1 DEF Seated, Active
<1> QED
  BY <1>1, <1>2 DEF UnoInv, Playing, Going, Carried

(* The document of a match that is saved carries the invariant. *)
LEMMA LiveCarried ==
  ASSUME NEW e, Live(e), Commit(e) \/ Save(e)
  PROVE  Carried
BY PlayingCarried DEF Live, Commit, Save

(* What a handler does to the document. *)
LEMMA ChangedPlaying ==
  ASSUME NEW d, Playing(d), NEW e, Fields(e), e.room = d.room, Table(e.game, Seated(d))
  PROVE  Playing(e) /\ Seated(e) = Seated(d)
BY DEF Playing, Seated

(* A match stays one when its table changes and its turn does not. *)
LEMMA ChangedLive ==
  ASSUME NEW d, Live(d), NEW e, Fields(e), e.room = d.room, Table(e.game, Seated(d)), Told(e.game),
         e.game.mover = d.game.mover, e.game.out = d.game.out
  PROVE  Live(e) /\ Seated(e) = Seated(d)
<1>1. Playing(e) /\ Seated(e) = Seated(d)
  BY ChangedPlaying DEF Live
<1>2. Active(e) = Active(d)
  BY <1>1 DEF Active
<1> QED
  BY <1>1, <1>2 DEF Live, Going

(* What the invariant reads of a document. *)
Agrees(g, h) ==
  /\ IsUno(h) /\ h.mover = g.mover /\ h.hands = g.hands /\ h.draw = g.draw /\ h.top = g.top
  /\ h.discard = g.discard /\ h.dir = g.dir /\ h.pending = g.pending /\ h.out = g.out
  /\ h.called = g.called /\ h.offender = g.offender /\ h.between = g.between
Alike(d, e) == Fields(e) /\ e.room = d.room /\ Agrees(d.game, e.game)

(* What the invariant reads decides it. *)
LEMMA AlikeLive ==
  ASSUME NEW d, Playing(d), NEW e, Alike(d, e)
  PROVE  Playing(e) /\ (Going(d) => Going(e)) /\ Seated(e) = Seated(d) /\ Active(e) = Active(d)
<1>1. /\ Table(d.game, Seated(d)) => Table(e.game, Seated(d))
      /\ Told(d.game) => Told(e.game)
  BY DEF Alike, Agrees, Table, Told, OneCard, Piled, Pile, Stacked
<1>2. Seated(e) = Seated(d) /\ Active(e) = Active(d)
  BY DEF Alike, Agrees, Active, Seated
<1> QED
  BY <1>1, <1>2 DEF Alike, Agrees, Playing, Going

(* The rows and the age of the turn are not part of the document. *)
LEMMA BroadcastAlike ==
  ASSUME NEW d, Playing(d)
  PROVE  Alike(d, Broadcast(d)) /\ Alike(d, NewTurn(d)) /\ \A p : Alike(d, Schedule(d, p))
<1>1. ASSUME NEW e, Alike(d, e)
      PROVE  Alike(d, NewTurn(e)) /\ \A p : Alike(d, Schedule(e, p))
  BY <1>1 DEF Alike, NewTurn, Schedule, Fields
<1>2. Alike(d, d)
  BY DEF Alike, Agrees, Playing, Table
<1> DEFINE m == d.game.mover
           now == [d.game EXCEPT !.mover = m]
           moved == [d EXCEPT !.game = now]
           turned == NewTurn(moved)
<1>3. Agrees(d.game, now)
  BY DEF Playing, Table, IsUno, Agrees
<1>4. moved = [d EXCEPT !.game.mover = m]
  BY DEF Playing, Fields
<1>5. Broadcast(d) = IF m \in online THEN Schedule(turned, m) ELSE turned
  BY <1>4 DEF Broadcast, PassTurn
<1> HIDE DEF now, m
<1>6. Alike(d, moved)
  BY <1>3 DEF Alike, Playing, Fields
<1> HIDE DEF moved
<1>7. Alike(d, turned)
  BY <1>1, <1>6
<1> HIDE DEF turned
<1>8. Alike(d, Schedule(turned, m))
  BY <1>1, <1>7
<1> QED
  BY <1>1, <1>2, <1>5, <1>7, <1>8

----------------------------------------------------------------------------
(* The turn passes: to a player who is in the round, if there is one. *)
LEMMA NextTurnPlaying ==
  ASSUME NEW d, Playing(d), d.game.mover \in Seated(d), Active(d) # {}
  PROVE  LET e == NextTurn(d)
         IN /\ Playing(e) /\ e.game.mover \in Active(e) /\ Active(e) = Active(d) /\ Seated(e) = Seated(d)
            /\ e.room = d.room /\ e.game.out = d.game.out /\ (Told(d.game) => Told(e.game))
<1> DEFINE g == d.game
           next == Following(d, g.mover, g.out, g.dir)
           now == [g EXCEPT !.mover = next]
           e == NextTurn(d)
<1>1. next \in Seated(d) \ g.out
  <2>1. ~(Seated(d) \subseteq g.out) /\ Orderly(d.room.players) /\ g.dir \in {1, -1}
    BY DEF Active, Playing, Table
  <2> QED
    BY <2>1, FollowingFree
<1>2. e = [d EXCEPT !.game = now]
  BY DEF NextTurn, Playing, Fields
<1> HIDE DEF next
<1>3. IsUno(g) /\ Table(g, Seated(d))
  BY DEF Playing, Table
<1>4. /\ IsUno(now) /\ now.mover = next /\ now.hands = g.hands /\ now.draw = g.draw /\ now.top = g.top
      /\ now.discard = g.discard /\ now.dir = g.dir /\ now.pending = g.pending /\ now.out = g.out
      /\ now.called = g.called /\ now.offender = g.offender /\ now.between = g.between
  <2> HIDE DEF g
  <2> QED
    BY <1>3 DEF IsUno
<1> HIDE DEF now
<1>5. Fields(e) /\ e.room = d.room /\ e.game = now
  BY <1>2 DEF Playing, Fields
<1> HIDE DEF e
<1>6. Table(now, Seated(d)) /\ (Told(g) => Told(now))
  BY <1>3, <1>4 DEF Table, Told, OneCard, Piled, Pile, Stacked
<1>7. Playing(e) /\ Seated(e) = Seated(d)
  BY <1>5, <1>6, ChangedPlaying
<1>8. Active(e) = Active(d) /\ next \in Active(e)
  BY <1>1, <1>4, <1>5, <1>7 DEF Active
<1> QED
  BY <1>4, <1>5, <1>6, <1>7, <1>8 DEF e

(* nextTurn: the turn passes to somebody in the round. *)
LEMMA NextTurnLive ==
  ASSUME NEW d, Live(d)
  PROVE  Live(NextTurn(d)) /\ Seated(NextTurn(d)) = Seated(d)
<1>1. Playing(d) /\ Going(d) /\ d.game.mover \in Seated(d) /\ Active(d) # {}
  BY DEF Live, Going, Active
<1>2. LET e == NextTurn(d)
      IN /\ Playing(e) /\ e.game.mover \in Active(e) /\ Active(e) = Active(d) /\ Seated(e) = Seated(d)
         /\ e.room = d.room /\ e.game.out = d.game.out /\ (Told(d.game) => Told(e.game))
  BY <1>1, NextTurnPlaying
<1> QED
  BY <1>1, <1>2 DEF Live, Going

(* drawNCards: cards of the draw pile, or all of it and some of the cards under the top. *)
Drawn(g, s) == s \subseteq g.draw \/ (g.draw \subseteq s /\ s \subseteq g.draw \cup g.discard)
(* drawNCards takes from the pile, and from the discard when the pile is short. *)
LEMMA DrawnCards ==
  ASSUME NEW g, NEW n, NEW s \in drawNCards(g, n)
  PROVE  Drawn(g, s)
<1> DEFINE missing == n - Cardinality(g.draw)
           under == Cardinality(g.discard)
           k == IF missing < under THEN missing ELSE under
<1>1. s \in kSubset(n, g.draw) \/ \E more \in kSubset(k, g.discard) : s = g.draw \cup more
  BY DEF drawNCards
<1> HIDE DEF k
<1>2. CASE s \in kSubset(n, g.draw)
  BY <1>2 DEF kSubset, Drawn
<1>3. CASE \E more \in kSubset(k, g.discard) : s = g.draw \cup more
  BY <1>3 DEF kSubset, Drawn
<1> QED
  BY <1>1, <1>2, <1>3

(* Cards come into a hand; the pile may be turned over before. *)
LEMMA TakesLive ==
  ASSUME NEW d, Live(d), NEW p \in Seated(d), NEW s, Drawn(d.game, s)
  PROVE  Live(Takes(d, p, s)) /\ Seated(Takes(d, p, s)) = Seated(d)
<1> DEFINE g == d.game
           own == g.hands[p] \cup s
           draw == IF s \subseteq g.draw THEN g.draw \ s ELSE g.discard \ s
           discard == IF s \subseteq g.draw THEN g.discard ELSE {}
           called == g.called \ {p}
           now == [g EXCEPT !.hands[p] = own, !.called = called, !.offender = None,
                            !.draw = draw, !.discard = discard]
           e == [d EXCEPT !.game = now]
<1>1. /\ Playing(d) /\ Going(d) /\ Fields(d) /\ IsUno(g) /\ Spread(g.hands, Pile(g), Seated(d))
      /\ Piled(g) /\ Stacked(g) /\ g.called \subseteq Seated(d) /\ g.dir \in {1, -1} /\ Told(g)
  BY DEF Live, Going, Playing, Table
<1>2. Takes(d, p, s) = e
  BY <1>1 DEF Takes, Fields, IsUno
<1>3. /\ own \cup (draw \cup discard \cup {g.top}) = g.hands[p] \cup Pile(g)
      /\ own \cap (draw \cup discard \cup {g.top}) = {}
      /\ draw \cap discard = {} /\ g.top \notin draw \cup discard
  <2>1. /\ g.hands[p] \cap Pile(g) = {} /\ g.draw \cap g.discard = {}
        /\ g.top \notin g.draw \cup g.discard
    BY <1>1 DEF Spread, Piled
  <2>2. CASE s \subseteq g.draw
    BY <2>1, <2>2 DEF Pile
  <2>3. CASE ~(s \subseteq g.draw)
    <3>1. g.draw \subseteq s /\ s \subseteq g.draw \cup g.discard /\ draw = g.discard \ s /\ discard = {}
      BY <2>3 DEF Drawn
    <3> QED
      BY <2>1, <3>1 DEF Pile
  <2> QED
    BY <2>2, <2>3
<1> HIDE DEF own, draw, discard
<1>4. /\ IsUno(now) /\ now.hands = [g.hands EXCEPT ![p] = own] /\ now.called = called /\ now.offender = None
      /\ now.draw = draw /\ now.discard = discard /\ now.top = g.top /\ now.dir = g.dir
      /\ now.pending = g.pending /\ now.out = g.out /\ now.between = g.between /\ now.mover = g.mover
  <2> HIDE DEF g, called
  <2> QED
    BY <1>1 DEF IsUno
<1> HIDE DEF now
<1>5. Spread(now.hands, Pile(now), Seated(d)) /\ Piled(now)
  <2> DEFINE rest == draw \cup discard \cup {g.top}
  <2>1. Pile(now) = rest
    BY <1>4 DEF Pile
  <2>2. own \cup rest = g.hands[p] \cup Pile(g) /\ own \cap rest = {}
    BY <1>3
  <2> HIDE DEF rest
  <2>3. Spread([g.hands EXCEPT ![p] = own], rest, Seated(d))
    BY <1>1, <2>2, SpreadMoved
  <2> QED
    BY <1>3, <1>4, <2>1, <2>3 DEF Piled
<1>6. Told(now)
  BY <1>1, <1>4 DEF Told, OneCard, Spread
<1>7. Table(now, Seated(d))
  BY <1>1, <1>4, <1>5 DEF Table, Stacked
<1>8. Fields(e) /\ e.room = d.room /\ e.game = now
  BY <1>1 DEF Fields
<1> HIDE DEF e
<1> QED
  BY <1>2, <1>4, <1>6, <1>7, <1>8, ChangedLive

(* A card goes from the hand to the pile; what is declared of the hand fits it. *)
LEMMA LaidLive ==
  ASSUME NEW d, Live(d), NEW p \in Seated(d), NEW card \in d.game.hands[p], NEW color,
         NEW callUno \in BOOLEAN
  PROVE  Live(Laid(d, p, card, color, callUno)) /\ Seated(Laid(d, p, card, color, callUno)) = Seated(d)
<1> DEFINE g == d.game
           left == g.hands[p] \ {card}
           one == Cardinality(left) = 1
           under == g.discard \cup {g.top}
           more == CASE card[2] = Draw2 -> g.pending + 2
                     [] card[2] = WildDraw4 -> g.pending + 4
                     [] OTHER -> 0
           shown == IF isWild(card) THEN color ELSE card[1]
           called == IF one /\ callUno THEN g.called \cup {p} ELSE g.called \ {p}
           offender == IF one /\ ~callUno THEN p ELSE None
           now == [g EXCEPT !.hands[p] = left, !.discard = under, !.top = card, !.color = shown,
                            !.pending = more, !.called = called, !.offender = offender]
           e == [d EXCEPT !.game = now]
<1>1. /\ Playing(d) /\ Going(d) /\ Fields(d) /\ IsUno(g) /\ Spread(g.hands, Pile(g), Seated(d))
      /\ Piled(g) /\ g.called \subseteq Seated(d) /\ g.dir \in {1, -1} /\ Told(g)
  BY DEF Live, Going, Playing, Table
<1>2. Laid(d, p, card, color, callUno) = e
  <2>1. Laid(d, p, card, color, callUno)
          = [d EXCEPT !.game.hands[p] = left, !.game.discard = @ \cup {g.top}, !.game.top = card,
                      !.game.color = shown, !.game.pending = more, !.game.called = called,
                      !.game.offender = offender]
    BY Zenon DEF Laid
  <2> HIDE DEF left, one, more, shown, called, offender
  <2> QED
    BY <1>1, <2>1 DEF Fields, IsUno
<1>3. /\ left \cup (g.draw \cup under \cup {card}) = g.hands[p] \cup Pile(g)
      /\ left \cap (g.draw \cup under \cup {card}) = {}
      /\ g.draw \cap under = {} /\ card \notin g.draw \cup under
  <2>1. /\ g.hands[p] \cap Pile(g) = {} /\ g.draw \cap g.discard = {}
        /\ g.top \notin g.draw \cup g.discard
    BY <1>1 DEF Spread, Piled
  <2> QED
    BY <2>1 DEF Pile
<1>4. more > 0 => card[2] \in {Draw2, WildDraw4}
  OBVIOUS
<1>5. \/ called = g.called \cup {p} /\ offender = None /\ Cardinality(left) = 1
      \/ called = g.called \ {p} /\ offender = p /\ Cardinality(left) = 1
      \/ called = g.called \ {p} /\ offender = None
  BY Zenon
<1> HIDE DEF left, one, under, more, shown, called, offender
<1>6. /\ IsUno(now) /\ now.hands = [g.hands EXCEPT ![p] = left] /\ now.called = called
      /\ now.offender = offender /\ now.draw = g.draw /\ now.discard = under /\ now.top = card
      /\ now.dir = g.dir /\ now.pending = more /\ now.out = g.out /\ now.between = g.between
      /\ now.mover = g.mover
  <2> HIDE DEF g
  <2> QED
    BY <1>1 DEF IsUno
<1> HIDE DEF now
<1>7. Spread(now.hands, Pile(now), Seated(d)) /\ Piled(now)
  <2> DEFINE rest == g.draw \cup under \cup {card}
  <2>1. Pile(now) = rest
    BY <1>6 DEF Pile
  <2>2. left \cup rest = g.hands[p] \cup Pile(g) /\ left \cap rest = {}
    BY <1>3
  <2> HIDE DEF rest
  <2>3. Spread([g.hands EXCEPT ![p] = left], rest, Seated(d))
    BY <1>1, <2>2, SpreadMoved
  <2> QED
    BY <1>3, <1>6, <2>1, <2>3 DEF Piled
<1>8. Told(now)
  <2>1. now.hands[p] = left /\ \A q \in Seated(d) : q # p => now.hands[q] = g.hands[q]
    BY <1>1, <1>6 DEF Spread
  <2>2. CASE g.between
    BY <1>6, <2>2 DEF Told
  <2>3. CASE ~g.between
    <3>1. \A q \in g.called : q # p => OneCard(now, q)
      BY <1>1, <1>6, <2>1, <2>3 DEF Told, OneCard
    <3>2. Cardinality(left) = 1 => OneCard(now, p)
      BY <2>1 DEF OneCard
    <3>3. (\A q \in called : OneCard(now, q)) /\ (offender # None => OneCard(now, offender) /\ offender \notin called)
      BY <1>5, <3>1, <3>2
    <3> QED
      BY <1>6, <3>3 DEF Told
  <2> QED
    BY <2>2, <2>3
<1>9. Table(now, Seated(d))
  <2>1. called \subseteq Seated(d) /\ offender \in {None} \cup Seated(d)
    BY <1>1, <1>5
  <2> QED
    BY <1>1, <1>4, <1>6, <1>7, <2>1 DEF Table, Stacked
<1>10. Fields(e) /\ e.room = d.room /\ e.game = now
  BY <1>1 DEF Fields
<1> HIDE DEF e
<1> QED
  BY <1>2, <1>6, <1>8, <1>9, <1>10, ChangedLive

(* The turn after a card. *)
LEMMA AdvancedLive ==
  ASSUME NEW d, Live(d), NEW card
  PROVE  Live(Advanced(d, card)) /\ Seated(Advanced(d, card)) = Seated(d)
<1> DEFINE g == d.game
           now == [g EXCEPT !.dir = -@]
           back == [d EXCEPT !.game = now]
           turned == IF card[2] = ReverseTurn THEN [d EXCEPT !.game.dir = -@] ELSE d
<1>1. Playing(d) /\ Fields(d) /\ Table(g, Seated(d)) /\ IsUno(g) /\ Told(g)
  BY DEF Live, Going, Playing, Table
<1>2. back = [d EXCEPT !.game.dir = -@]
  BY <1>1 DEF Fields, IsUno
<1>3. /\ IsUno(now) /\ now.mover = g.mover /\ now.hands = g.hands /\ now.draw = g.draw /\ now.top = g.top
      /\ now.discard = g.discard /\ now.dir = -g.dir /\ now.pending = g.pending /\ now.out = g.out
      /\ now.called = g.called /\ now.offender = g.offender /\ now.between = g.between
  <2> HIDE DEF g
  <2> QED
    BY <1>1 DEF IsUno
<1> HIDE DEF now
<1>4. Table(now, Seated(d)) /\ Told(now)
  <2>1. g.dir \in {1, -1} => -g.dir \in {1, -1}
    OBVIOUS
  <2> QED
    BY <1>1, <1>3, <2>1 DEF Table, Told, OneCard, Piled, Pile, Stacked
<1>5. Fields(back) /\ back.room = d.room /\ back.game = now
  BY <1>1 DEF Fields
<1>6. Live(back) /\ Seated(back) = Seated(d)
  <2> HIDE DEF back
  <2> QED
    BY <1>3, <1>4, <1>5, ChangedLive
<1>7. Live(turned) /\ Seated(turned) = Seated(d)
  BY <1>2, <1>6
<1> HIDE DEF turned
<1>8. Live(NextTurn(turned)) /\ Seated(NextTurn(turned)) = Seated(d)
  BY <1>7, NextTurnLive
<1>9. Live(NextTurn(NextTurn(turned))) /\ Seated(NextTurn(NextTurn(turned))) = Seated(d)
  BY <1>8, NextTurnLive
<1>10. Advanced(d, card) \in {turned, NextTurn(turned), NextTurn(NextTurn(turned))}
  BY DEF Advanced, turned
<1> QED
  BY <1>7, <1>8, <1>9, <1>10

(* Sending the state of a match to its players keeps it. *)
LEMMA BroadcastLive ==
  ASSUME NEW d, Live(d)
  PROVE  Live(Broadcast(d)) /\ Seated(Broadcast(d)) = Seated(d)
BY BroadcastAlike, AlikeLive DEF Live

----------------------------------------------------------------------------
(* The match ends. *)
LEMMA FinishPlaying ==
  ASSUME NEW d, Playing(d), NEW w
  PROVE  Playing(Finish(d, w)) /\ Finish(d, w).room.status = "finished"
<1> DEFINE e == Finish(d, w)
<1>1. e = [d EXCEPT !.room.status = "finished", !.room.winner = w]
  BY DEF Finish
<1>2. Fields(d) /\ d.room.gameReady
  BY DEF Playing
<1> HIDE DEF e
<1>3. Fields(e) /\ e.game = d.game /\ e.room.players = d.room.players /\ e.room.gameReady
      /\ e.room.status = "finished"
  BY <1>1, <1>2 DEF Fields
<1> QED
  BY <1>3 DEF Playing, Seated, e

(* Fields that the invariant reads of no match, or of one that goes on only. *)
LEMMA PausedPlaying ==
  ASSUME NEW d, Playing(d), NEW now, IsUno(now), NEW x, x = [d EXCEPT !.game = now],
         now.hands = d.game.hands, now.draw = d.game.draw, now.top = d.game.top,
         now.discard = d.game.discard, now.dir = d.game.dir, now.pending = d.game.pending,
         now.called = d.game.called, now.offender = d.game.offender
  PROVE  Playing(x) /\ Seated(x) = Seated(d) /\ x.game = now /\ x.room = d.room
<1>1. Fields(x) /\ x.room = d.room /\ x.game = now
  BY DEF Playing, Fields
<1>2. Table(now, Seated(d))
  BY DEF Playing, Table, Piled, Pile, Stacked
<1> QED
  BY <1>1, <1>2, ChangedPlaying

(* finalizeUnoRoundWinner: the match ends, or everyone is in again for the next round. *)
LEMMA RoundPlaying ==
  ASSUME NEW d, Live(d), NEW p
  PROVE  LET e == finalizeUnoRoundWinner(d, p) IN Playing(e) /\ (e.room.status # "finished" => Going(e))
<1> DEFINE g == d.game
           dealt == FoldSet(LAMBDA q, sum : sum + sumHandScore(g.hands[q]), 0, Seated(d) \ {p})
           scores == [g.scores EXCEPT ![p] = @ + dealt]
           history == Append(g.history, [round |-> g.round, winner |-> p])
           counted == [g EXCEPT !.scores = scores, !.history = history]
           tallied == [d EXCEPT !.game = counted]
           scored == NewTurn(tallied)
           h == scored.game
           closing == [h EXCEPT !.between = FALSE]
           resting == [h EXCEPT !.between = TRUE, !.dealing = FALSE, !.out = {}, !.ready = {}]
           over == [scored EXCEPT !.game = closing]
           pause == [scored EXCEPT !.game = resting]
           e == finalizeUnoRoundWinner(d, p)
<1>1. Playing(d) /\ Fields(d) /\ IsUno(g)
  BY DEF Live, Playing, Table
<1>2. tallied = [d EXCEPT !.game.scores[p] = @ + dealt,
                          !.game.history = Append(@, [round |-> d.game.round, winner |-> p])]
  <2> HIDE DEF dealt
  <2> QED
    BY <1>1 DEF Fields, IsUno
<1>3. Agrees(g, counted)
  <2> HIDE DEF g, scores, history
  <2> QED
    BY <1>1 DEF IsUno, Agrees
<1> HIDE DEF counted
<1>4. Alike(d, tallied)
  BY <1>1, <1>3 DEF Alike, Fields
<1>5. Playing(tallied) /\ Going(tallied) /\ Seated(tallied) = Seated(d)
  <2> HIDE DEF tallied
  <2> QED
    BY <1>4, AlikeLive DEF Live
<1>6. e = IF scored.game.scores[p] >= Target THEN Finish([scored EXCEPT !.game.between = FALSE], p)
          ELSE [scored EXCEPT !.game.between = TRUE, !.game.dealing = FALSE, !.game.out = {}, !.game.ready = {}]
  <2> DEFINE sum == [d EXCEPT !.game.scores[p] = @ + dealt,
                              !.game.history = Append(@, [round |-> d.game.round, winner |-> p])]
             x == NewTurn(sum)
  <2>1. e = IF x.game.scores[p] >= Target THEN Finish([x EXCEPT !.game.between = FALSE], p)
            ELSE [x EXCEPT !.game.between = TRUE, !.game.dealing = FALSE, !.game.out = {}, !.game.ready = {}]
    BY Zenon DEF finalizeUnoRoundWinner
  <2>2. x = scored
    BY <1>2
  <2> HIDE DEF x, scored, e
  <2> QED
    BY <2>1, <2>2
<1> HIDE DEF tallied, e
<1>7. Playing(scored) /\ Going(scored) /\ Seated(scored) = Seated(d)
  <2>1. Alike(tallied, scored)
    BY <1>5, BroadcastAlike
  <2> HIDE DEF scored
  <2> QED
    BY <1>5, <2>1, AlikeLive
<1> HIDE DEF scored
<1>8. Fields(scored) /\ IsUno(h)
  BY <1>7 DEF Playing, Table
<1>9. e = Finish(over, p) \/ e = pause
  BY <1>6, <1>8 DEF Fields, IsUno
<1>10. Playing(over)
  <2>1. /\ IsUno(closing) /\ closing.hands = h.hands /\ closing.draw = h.draw /\ closing.top = h.top
        /\ closing.discard = h.discard /\ closing.dir = h.dir /\ closing.pending = h.pending
        /\ closing.called = h.called /\ closing.offender = h.offender
    <3> HIDE DEF h
    <3> QED
      BY <1>8 DEF IsUno
  <2> HIDE DEF closing, over
  <2> QED
    BY <1>7, <2>1, PausedPlaying DEF over
<1>11. Playing(pause) /\ Going(pause)
  <2>1. /\ IsUno(resting) /\ resting.hands = h.hands /\ resting.draw = h.draw /\ resting.top = h.top
        /\ resting.discard = h.discard /\ resting.dir = h.dir /\ resting.pending = h.pending
        /\ resting.called = h.called /\ resting.offender = h.offender
        /\ resting.between = TRUE /\ resting.out = {} /\ resting.mover = h.mover
    <3> HIDE DEF h
    <3> QED
      BY <1>8 DEF IsUno
  <2> HIDE DEF resting, pause
  <2>2. Playing(pause) /\ Seated(pause) = Seated(scored) /\ pause.game = resting
    BY <1>7, <2>1, PausedPlaying DEF pause
  <2>3. Active(pause) = Seated(scored) /\ Active(scored) \subseteq Seated(scored)
    BY <2>1, <2>2 DEF Active
  <2>4. Told(resting)
    BY <2>1 DEF Told
  <2> QED
    BY <1>7, <2>1, <2>2, <2>3, <2>4 DEF Going
<1> HIDE DEF over, pause
<1> QED
  BY <1>9, <1>10, <1>11, FinishPlaying DEF e

(* The cards of a round: each is dealt once, nobody has declared anything. *)
LEMMA DealtTable ==
  ASSUME NEW d, Orderly(d.room.players), Len(d.room.players) > 1, NEW scores, NEW round, NEW history,
         NEW g \in Deals(d, scores, round, history)
  PROVE  Table(g, Seated(d)) /\ g.mover \in Seated(d) /\ g.out = {} /\ Told(g)
<1> DEFINE Rest(h) == Deck \ UNION {h[p] : p \in Seated(d)}
<1>1. PICK h \in [Seated(d) -> kSubset(HandSize, Deck)], top \in Deck :
        /\ top \in Rest(h)
        /\ \A p, q \in Seated(d) : p # q => h[p] \cap h[q] = {}
        /\ g = [mover |-> d.room.players[1], hands |-> h, draw |-> Rest(h) \ {top}, top |-> top,
                discard |-> {}, color |-> top[1], dir |-> 1, pending |-> 0, out |-> {},
                called |-> {}, offender |-> None, ready |-> {}, between |-> FALSE,
                dealing |-> FALSE, scores |-> scores, round |-> round, history |-> history]
  BY DEF Deals
<1> DEFINE rest == Rest(h)
<1>2. /\ IsUno(g) /\ g.mover = d.room.players[1] /\ g.hands = h /\ g.draw = rest \ {top} /\ g.top = top
      /\ g.discard = {} /\ g.dir = 1 /\ g.pending = 0 /\ g.out = {} /\ g.called = {} /\ g.offender = None
  BY <1>1 DEF IsUno
<1>3. ASSUME NEW p \in Seated(d)
      PROVE  h[p] \subseteq Deck
  <2>1. h[p] \in kSubset(HandSize, Deck)
    BY <1>1
  <2> QED
    BY <2>1 DEF kSubset
<1>4. top \in rest
  BY <1>1
<1>5. Spread(h, rest, Seated(d))
  BY <1>1, <1>3 DEF Spread
<1>6. d.room.players[1] \in Seated(d)
  BY DEF Orderly, Seated, ToSet
<1> HIDE DEF rest
<1>7. Pile(g) = rest /\ Piled(g)
  BY <1>2, <1>4 DEF Pile, Piled
<1> QED
  BY <1>2, <1>5, <1>6, <1>7 DEF Table, Stacked, Told

(* Two players have two seats, and two seats two players. *)
LEMMA OrderlyTwo ==
  ASSUME NEW d, Orderly(d.room.players)
  PROVE  (\E p, q \in Seated(d) : p # q) <=> Len(d.room.players) > 1
<1> DEFINE s == d.room.players
<1>1. s \in Seq(Players) /\ Len(s) \in Nat /\ DOMAIN s = 1..Len(s) /\ \A i, j \in DOMAIN s : s[i] = s[j] => i = j
  BY DEF Orderly
<1>2. \A p \in Seated(d) : \E i \in DOMAIN s : s[i] = p
  BY DEF Seated, ToSet
<1> HIDE DEF s
<1>3. ASSUME Len(s) > 1
      PROVE  \E p, q \in Seated(d) : p # q
  <2>1. 1 \in DOMAIN s /\ 2 \in DOMAIN s
    BY <1>1, <1>3
  <2>2. s[1] \in Seated(d) /\ s[2] \in Seated(d) /\ s[1] # s[2]
    BY <1>1, <2>1 DEF Seated, ToSet, s
  <2> QED
    BY <2>2
<1>4. ASSUME NEW p \in Seated(d), NEW q \in Seated(d), p # q
      PROVE  Len(s) > 1
  <2>1. PICK i \in DOMAIN s, j \in DOMAIN s : s[i] = p /\ s[j] = q
    BY <1>2
  <2> QED
    BY <1>1, <1>4, <2>1
<1> QED
  BY <1>3, <1>4 DEF s

(* Who is seated in a room that is in order is a player. *)
LEMMA OrderlyPlayers ==
  ASSUME NEW d, Orderly(d.room.players)
  PROVE  Seated(d) \subseteq Players
BY DEF Orderly, Seated, ToSet

(* The next deal: everyone is in. *)
LEMMA NextRoundLive ==
  ASSUME NEW d, Live(d), NEW e \in startNextRound(d)
  PROVE  Live(e)
<1>1. Playing(d) /\ Orderly(d.room.players) /\ Fields(d) /\ Active(d) \subseteq Seated(d) /\ Going(d)
  BY DEF Live, Playing, Active
<1>2. PICK g \in Deals(d, d.game.scores, d.game.round + 1, d.game.history) :
        e = Broadcast([d EXCEPT !.game = g])
  BY DEF startNextRound
<1> DEFINE dealt == [d EXCEPT !.game = g]
<1>3. Len(d.room.players) > 1
  BY <1>1, OrderlyTwo DEF Going
<1>4. Table(g, Seated(d)) /\ g.mover \in Seated(d) /\ g.out = {} /\ Told(g)
  BY <1>1, <1>3, DealtTable
<1>5. Fields(dealt) /\ dealt.room = d.room /\ dealt.game = g
  BY <1>1 DEF Fields
<1> HIDE DEF dealt
<1>6. Playing(dealt) /\ Seated(dealt) = Seated(d)
  BY <1>1, <1>4, <1>5, ChangedPlaying
<1>7. Active(dealt) = Seated(d)
  BY <1>4, <1>5, <1>6 DEF Active
<1>8. Live(dealt)
  BY <1>1, <1>4, <1>5, <1>6, <1>7 DEF Live, Going
<1> QED
  BY <1>2, <1>8, BroadcastLive DEF dealt

(* eliminatePlayer: his cards go under the pile, and the turn passes if it was his. *)
LEMMA EliminatePlaying ==
  ASSUME NEW d, Live(d), NEW p
  PROVE  LET e == eliminatePlayer(d, p) IN Playing(e) /\ (e.room.status # "finished" => Going(e))
<1> DEFINE g == d.game
           hand == IF p \in DOMAIN g.hands THEN g.hands[p] ELSE {}
           h == [g.hands EXCEPT ![p] = {}]
           draw == g.draw \cup hand
           gone == g.out \cup {p}
           now == [g EXCEPT !.draw = draw, !.hands = h, !.out = gone]
           out == [d EXCEPT !.game = now]
           left == Active(out)
           turned == IF g.mover = p THEN NewTurn(NextTurn(out)) ELSE out
           over == [turned EXCEPT !.game.between = FALSE, !.game.dealing = FALSE]
           last == CHOOSE q \in left : TRUE
           e == eliminatePlayer(d, p)
<1>1. /\ Playing(d) /\ Going(d) /\ Fields(d) /\ IsUno(g) /\ Spread(g.hands, Pile(g), Seated(d)) /\ Piled(g)
      /\ Stacked(g) /\ g.offender \in {None} \cup Seated(d) /\ g.called \subseteq Seated(d)
      /\ g.dir \in {1, -1} /\ Told(g)
  BY DEF Live, Going, Playing, Table
<1>2. out = [d EXCEPT !.game.draw = @ \cup hand, !.game.hands[p] = {}, !.game.out = @ \cup {p}]
  <2> HIDE DEF hand
  <2> QED
    BY <1>1 DEF Fields, IsUno
<1>3. e = IF d.room.status # "started" \/ p \in g.out THEN d
          ELSE IF Cardinality(left) = 1 THEN Finish(over, last)
          ELSE IF turned.game.mover \in online THEN Schedule(turned, turned.game.mover) ELSE turned
  <2> DEFINE put == [d EXCEPT !.game.draw = @ \cup hand, !.game.hands[p] = {}, !.game.out = @ \cup {p}]
             L(x) == Active(x)
             T(x) == IF g.mover = p THEN NewTurn(NextTurn(x)) ELSE x
             O(x) == Finish([T(x) EXCEPT !.game.between = FALSE, !.game.dealing = FALSE],
                            CHOOSE q \in L(x) : TRUE)
  <2>1. e = IF d.room.status # "started" \/ p \in g.out THEN d
            ELSE IF Cardinality(L(put)) = 1 THEN O(put)
            ELSE IF T(put).game.mover \in online THEN Schedule(T(put), T(put).game.mover) ELSE T(put)
    BY Zenon DEF eliminatePlayer
  <2>2. put = out
    BY <1>2
  <2> HIDE DEF put, out
  <2> QED
    BY <2>1, <2>2
<1> HIDE DEF e, over, last
<1>4. Spread(h, draw \cup g.discard \cup {g.top}, Seated(d)) /\ draw \cap g.discard = {} /\ g.top \notin draw
  <2>1. CASE p \in Seated(d)
    <3> DEFINE rest == draw \cup g.discard \cup {g.top}
               own == {}
    <3>1. g.hands[p] \cap Pile(g) = {} /\ hand = g.hands[p]
      BY <1>1, <2>1 DEF Spread
    <3>2. own \cup rest = g.hands[p] \cup Pile(g) /\ own \cap rest = {}
      BY <3>1 DEF Pile
    <3>3. draw \cap g.discard = {} /\ g.top \notin draw
      BY <1>1, <3>1 DEF Pile, Piled
    <3> HIDE DEF rest, own
    <3>4. Spread([g.hands EXCEPT ![p] = own], rest, Seated(d))
      BY <1>1, <2>1, <3>2, SpreadMoved
    <3> QED
      BY <3>3, <3>4 DEF rest, own
  <2>2. CASE p \notin Seated(d)
    <3>1. DOMAIN g.hands = Seated(d)
      BY <1>1 DEF Spread
    <3>2. DOMAIN h = Seated(d) /\ (\A q \in Seated(d) : h[q] = g.hands[q]) /\ draw = g.draw
      BY <2>2, <3>1
    <3> HIDE DEF h, hand, draw
    <3> QED
      BY <1>1, <3>2 DEF Spread, Piled, Pile
  <2> QED
    BY <2>1, <2>2
<1>5. \A q \in Seated(d) : q # p => h[q] = g.hands[q]
  BY <1>1 DEF Spread
<1> HIDE DEF h, hand, draw
<1>6. /\ IsUno(now) /\ now.hands = h /\ now.draw = draw /\ now.out = gone
      /\ now.mover = g.mover /\ now.top = g.top /\ now.discard = g.discard /\ now.dir = g.dir
      /\ now.pending = g.pending /\ now.called = g.called /\ now.offender = g.offender
      /\ now.between = g.between
  <2> HIDE DEF g, gone
  <2> QED
    BY <1>1 DEF IsUno
<1> HIDE DEF now
<1>7. Table(now, Seated(d))
  BY <1>1, <1>4, <1>6 DEF Table, Pile, Piled, Stacked
<1>8. Told(now)
  <2>1. \A q \in {None} \cup Seated(d) : q # None /\ OneCard(g, q) => OneCard(now, q)
    BY <1>5, <1>6 DEF OneCard
  <2>2. \A q \in Seated(d) : q # None
    BY <1>1, OrderlyPlayers, RoomsAssumption DEF Playing
  <2> QED
    BY <1>1, <1>6, <2>1, <2>2 DEF Told
<1>9. Fields(out) /\ out.room = d.room /\ out.game = now
  BY <1>1 DEF Fields
<1> HIDE DEF out
<1>10. Playing(out) /\ Seated(out) = Seated(d) /\ left = Active(d) \ {p}
  <2>1. Playing(out) /\ Seated(out) = Seated(d)
    BY <1>1, <1>7, <1>9, ChangedPlaying
  <2> QED
    BY <1>6, <1>9, <2>1 DEF Active
<1>11. CASE d.room.status # "started" \/ p \in g.out
  BY <1>1, <1>3, <1>11 DEF e
<1>12. CASE d.room.status = "started" /\ p \notin g.out
  <2>1. left # {} /\ out.game.mover \in Seated(out)
    BY <1>1, <1>6, <1>9, <1>10 DEF Going, Active
  <2>2. /\ Playing(turned) /\ Active(turned) = left /\ turned.game.mover \in left /\ Told(turned.game)
    <3>1. CASE g.mover = p
      <4> DEFINE next == NextTurn(out)
      <4>1. Playing(next) /\ next.game.mover \in Active(next) /\ Active(next) = left /\ Told(next.game)
        BY <1>8, <1>9, <1>10, <2>1, NextTurnPlaying
      <4>2. turned = NewTurn(next)
        BY <3>1
      <4> HIDE DEF next, turned
      <4>3. Alike(next, turned)
        BY <4>1, <4>2, BroadcastAlike
      <4>4. Playing(turned) /\ Active(turned) = left
        BY <4>1, <4>3, AlikeLive
      <4>5. Told(turned.game) /\ turned.game.mover = next.game.mover
        BY <4>1, <4>3 DEF Alike, Agrees, Told, OneCard
      <4> QED
        BY <4>1, <4>4, <4>5
    <3>2. CASE g.mover # p
      BY <1>1, <1>6, <1>8, <1>9, <1>10, <3>2 DEF Going
    <3> QED
      BY <3>1, <3>2
  <2> HIDE DEF turned, left
  <2>3. CASE Cardinality(left) = 1
    <3>1. e = Finish(over, last)
      BY <1>3, <1>12, <2>3
    <3>2. Playing(over)
      <4> DEFINE x == turned.game
                 closing == [x EXCEPT !.between = FALSE, !.dealing = FALSE]
      <4>1. IsUno(x) /\ Fields(turned)
        BY <2>2 DEF Playing, Table
      <4>2. over = [turned EXCEPT !.game = closing]
        BY <4>1 DEF over, Fields, IsUno
      <4>3. /\ IsUno(closing) /\ closing.hands = x.hands /\ closing.draw = x.draw /\ closing.top = x.top
            /\ closing.discard = x.discard /\ closing.dir = x.dir /\ closing.pending = x.pending
            /\ closing.called = x.called /\ closing.offender = x.offender
        <5> HIDE DEF x
        <5> QED
          BY <4>1 DEF IsUno
      <4> HIDE DEF closing
      <4> QED
        BY <2>2, <4>2, <4>3, PausedPlaying
    <3> QED
      BY <3>1, <3>2, FinishPlaying DEF e
  <2>4. CASE Cardinality(left) # 1
    <3>1. e = Schedule(turned, turned.game.mover) \/ e = turned
      BY <1>3, <1>12, <2>4
    <3>2. left # {turned.game.mover}
      BY <2>4, FS_Singleton
    <3>3. Going(turned)
      BY <2>2, <3>2 DEF Going
    <3>4. Playing(e) /\ Going(e)
      <4>1. Alike(turned, Schedule(turned, turned.game.mover))
        BY <2>2, BroadcastAlike
      <4> QED
        BY <2>2, <3>1, <3>3, <4>1, AlikeLive
    <3> QED
      BY <3>4 DEF e
  <2> QED
    BY <2>3, <2>4
<1> QED
  BY <1>11, <1>12

----------------------------------------------------------------------------
(* What a handler finds in a match that goes on. *)
LEMMA OpenLive ==
  ASSUME Good(db, sweep), UnoInv(db), Open(db), ~Pregame(db)
  PROVE  Live(db) /\ Fields(db) /\ IsUno(db.game)
BY GoodShape DEF UnoInv, Open, Pregame, Playing, Live, Fields, Shape, Table

(* A room in play holds a match, with somebody of it to move. *)
LEMMA InPlayLive ==
  ASSUME Good(db, sweep), UnoInv(db), InPlay(db)
  PROVE  Live(db) /\ Fields(db) /\ IsUno(db.game) /\ db.game.mover \in Seated(db)
<1>1. Open(db) /\ ~Pregame(db)
  BY InPlayGood DEF InPlay, Open, Pregame
<1> QED
  BY <1>1, OpenLive DEF Live, Going, Active

(* handlePlayCard: a player without the color, without a declaration or with his last card. *)
LEMMA PlayCardCards ==
  ASSUME Good(db, sweep), UnoInv(db), NEW p \in Players, NEW card, NEW color, NEW callUno \in BOOLEAN,
         handlePlayCard(p, card, color, callUno)
  PROVE  Carried
<1> DEFINE laid == Laid(db, p, card, color, callUno)
<1>1. Live(db) /\ p \in Seated(db) /\ card \in db.game.hands[p]
  BY InPlayLive DEF handlePlayCard, MayAct, Here, Active, validatePlay
<1>2. Live(laid) /\ Seated(laid) = Seated(db)
  BY <1>1, LaidLive
<1>3. \/ Commit(finalizeUnoRoundWinner(laid, p))
      \/ \E s \in drawNCards(laid.game, 2) : Commit(Broadcast(Advanced(Takes(laid, p, s), card)))
      \/ Commit(Broadcast(Advanced(laid, card)))
  BY DEF handlePlayCard
<1> HIDE DEF laid
<1>4. CASE Commit(finalizeUnoRoundWinner(laid, p))
  BY <1>2, <1>4, RoundPlaying, PlayingCarried DEF Commit
<1>5. ASSUME NEW s \in drawNCards(laid.game, 2), Commit(Broadcast(Advanced(Takes(laid, p, s), card)))
      PROVE  Carried
  <2>1. Drawn(laid.game, s)
    BY DrawnCards
  <2>2. Live(Takes(laid, p, s))
    BY <1>1, <1>2, <2>1, TakesLive
  <2>3. Live(Advanced(Takes(laid, p, s), card))
    BY <2>2, AdvancedLive
  <2>4. Live(Broadcast(Advanced(Takes(laid, p, s), card)))
    BY <2>3, BroadcastLive
  <2> QED
    BY <1>5, <2>4, LiveCarried
<1>6. CASE Commit(Broadcast(Advanced(laid, card)))
  <2>1. Live(Advanced(laid, card))
    BY <1>2, AdvancedLive
  <2>2. Live(Broadcast(Advanced(laid, card)))
    BY <2>1, BroadcastLive
  <2> QED
    BY <1>6, <2>2, LiveCarried
<1> QED
  BY <1>3, <1>4, <1>5, <1>6

(* handleCallUno: the last card is declared. *)
LEMMA CallUnoCards ==
  ASSUME Good(db, sweep), UnoInv(db), NEW p \in Players, handleCallUno(p)
  PROVE  Carried
<1> DEFINE g == db.game
           called == g.called \cup {p}
           now == [g EXCEPT !.called = called, !.offender = None]
           e == [db EXCEPT !.game = now]
<1>1. /\ Live(db) /\ p \in Seated(db) /\ Cardinality(g.hands[p]) = 1 /\ Fields(db) /\ IsUno(g)
      /\ Table(g, Seated(db)) /\ Told(g)
  BY InPlayLive DEF handleCallUno, Here, Active, Live, Playing, Going
<1>2. Commit([db EXCEPT !.game.called = @ \cup {p}, !.game.offender = None])
  BY DEF handleCallUno
<1>3. e = [db EXCEPT !.game.called = @ \cup {p}, !.game.offender = None]
  BY <1>1 DEF Fields, IsUno
<1> HIDE DEF called
<1>4. /\ IsUno(now) /\ now.mover = g.mover /\ now.hands = g.hands /\ now.draw = g.draw /\ now.top = g.top
      /\ now.discard = g.discard /\ now.dir = g.dir /\ now.pending = g.pending /\ now.out = g.out
      /\ now.called = called /\ now.offender = None /\ now.between = g.between
  <2> HIDE DEF g
  <2> QED
    BY <1>1 DEF IsUno
<1> HIDE DEF now
<1>5. Table(now, Seated(db)) /\ Told(now)
  BY <1>1, <1>4 DEF Table, Told, OneCard, Piled, Pile, Stacked, called
<1>6. Fields(e) /\ e.room = db.room /\ e.game = now
  BY <1>1 DEF Fields
<1> HIDE DEF e
<1>7. Live(e)
  BY <1>1, <1>4, <1>5, <1>6, ChangedLive
<1> QED
  BY <1>2, <1>3, <1>7, LiveCarried

(* handleChallengeUnoMiss: two cards for a player who is seated. *)
LEMMA ChallengeCards ==
  ASSUME Good(db, sweep), UnoInv(db), NEW p \in Players, handleChallengeUnoMiss(p)
  PROVE  Carried
<1>1. Live(db) /\ db.game.offender \in Seated(db)
  BY InPlayLive DEF handleChallengeUnoMiss, Here, Live, Playing, Table
<1>2. PICK s \in drawNCards(db.game, 2) : Commit(Takes(db, db.game.offender, s))
  BY DEF handleChallengeUnoMiss
<1>3. Live(Takes(db, db.game.offender, s))
  BY <1>1, DrawnCards, TakesLive
<1> QED
  BY <1>2, <1>3, LiveCarried

(* handleTakeDrawStack: the stack is taken and the turn passes. *)
LEMMA TakeDrawStackCards ==
  ASSUME Good(db, sweep), UnoInv(db), NEW p \in Players, handleTakeDrawStack(p)
  PROVE  Carried
<1>1. Live(db) /\ p \in Seated(db)
  BY InPlayLive DEF handleTakeDrawStack, MayAct, Here, Active
<1>2. PICK s \in drawNCards(db.game, db.game.pending) :
        Commit(Broadcast(NextTurn([Takes(db, p, s) EXCEPT !.game.pending = 0])))
  BY DEF handleTakeDrawStack
<1> DEFINE taken == Takes(db, p, s)
           g == taken.game
           now == [g EXCEPT !.pending = 0]
           e == [taken EXCEPT !.game = now]
<1>3. Live(taken)
  BY <1>1, DrawnCards, TakesLive
<1> HIDE DEF taken
<1>4. Fields(taken) /\ IsUno(g) /\ Table(g, Seated(taken)) /\ Told(g)
  BY <1>3 DEF Live, Playing, Table, Going
<1>5. e = [taken EXCEPT !.game.pending = 0]
  BY <1>4 DEF Fields, IsUno
<1>6. /\ IsUno(now) /\ now.mover = g.mover /\ now.hands = g.hands /\ now.draw = g.draw /\ now.top = g.top
      /\ now.discard = g.discard /\ now.dir = g.dir /\ now.pending = 0 /\ now.out = g.out
      /\ now.called = g.called /\ now.offender = g.offender /\ now.between = g.between
  <2> HIDE DEF g
  <2> QED
    BY <1>4 DEF IsUno
<1> HIDE DEF now
<1>7. Table(now, Seated(taken)) /\ Told(now)
  BY <1>4, <1>6 DEF Table, Told, OneCard, Piled, Pile, Stacked
<1>8. Fields(e) /\ e.room = taken.room /\ e.game = now
  BY <1>4 DEF Fields
<1> HIDE DEF e
<1>9. Live(e)
  BY <1>3, <1>6, <1>7, <1>8, ChangedLive
<1>10. Live(Broadcast(NextTurn(e)))
  BY <1>9, NextTurnLive, BroadcastLive
<1>11. Commit(Broadcast(NextTurn(e)))
  BY <1>2, <1>5 DEF taken
<1> QED
  BY <1>10, <1>11, LiveCarried

(* handleDrawOne: the player to move keeps the turn. *)
LEMMA DrawOneCards ==
  ASSUME Good(db, sweep), UnoInv(db), NEW p \in Players, handleDrawOne(p)
  PROVE  Carried
<1>1. Live(db) /\ p \in Seated(db)
  BY InPlayLive DEF handleDrawOne, MayAct, Here, Active
<1>2. PICK s \in drawNCards(db.game, 1) : Commit(Broadcast(Takes(db, p, s)))
  BY DEF handleDrawOne
<1>3. Live(Takes(db, p, s))
  BY <1>1, DrawnCards, TakesLive
<1>4. Live(Broadcast(Takes(db, p, s)))
  BY <1>3, BroadcastLive
<1> QED
  BY <1>2, <1>4, LiveCarried

(* handlePass: with a card or, when none is left, without. *)
LEMMA PassCards ==
  ASSUME Good(db, sweep), UnoInv(db), NEW p \in Players, handlePass(p)
  PROVE  Carried
<1> DEFINE g == db.game
           now == [g EXCEPT !.offender = None]
           none == [db EXCEPT !.game = now]
<1>1. Live(db) /\ p \in Seated(db) /\ Fields(db) /\ IsUno(g) /\ Table(g, Seated(db)) /\ Told(g)
  BY InPlayLive DEF handlePass, MayAct, Here, Active, Live, Playing, Going
<1>2. PICK s, drawn :
        /\ s \in drawNCards(db.game, 1)
        /\ drawn = [db EXCEPT !.game.offender = None] \/ drawn = Takes(db, p, s)
        /\ Commit(Broadcast(drawn)) \/ Commit(Broadcast(NextTurn(drawn)))
  BY DEF handlePass
<1>3. none = [db EXCEPT !.game.offender = None]
  BY <1>1 DEF Fields, IsUno
<1>4. /\ IsUno(now) /\ now.mover = g.mover /\ now.hands = g.hands /\ now.draw = g.draw /\ now.top = g.top
      /\ now.discard = g.discard /\ now.dir = g.dir /\ now.pending = g.pending /\ now.out = g.out
      /\ now.called = g.called /\ now.offender = None /\ now.between = g.between
  <2> HIDE DEF g
  <2> QED
    BY <1>1 DEF IsUno
<1> HIDE DEF now
<1>5. Table(now, Seated(db)) /\ Told(now)
  BY <1>1, <1>4 DEF Table, Told, OneCard, Piled, Pile, Stacked
<1>6. Fields(none) /\ none.room = db.room /\ none.game = now
  BY <1>1 DEF Fields
<1>7. Live(none)
  <2> HIDE DEF none
  <2> QED
    BY <1>1, <1>4, <1>5, <1>6, ChangedLive
<1>8. Live(Takes(db, p, s))
  BY <1>1, <1>2, DrawnCards, TakesLive
<1>9. Live(drawn)
  BY <1>2, <1>3, <1>7, <1>8
<1>10. Live(Broadcast(drawn)) /\ Live(Broadcast(NextTurn(drawn)))
  BY <1>9, NextTurnLive, BroadcastLive
<1> QED
  BY <1>2, <1>10, LiveCarried

(* A field of the pause changes. *)
LEMMA PauseLive ==
  ASSUME NEW d, Live(d), NEW e, NEW S, NEW b,
         e = [d EXCEPT !.game.ready = S] \/ e = [d EXCEPT !.game.dealing = b]
  PROVE  Live(e)
<1> DEFINE g == d.game
<1>1. Playing(d) /\ Going(d) /\ Fields(d) /\ IsUno(g)
  BY DEF Live, Playing, Table
<1>2. PICK now : e = [d EXCEPT !.game = now] /\ (now = [g EXCEPT !.ready = S] \/ now = [g EXCEPT !.dealing = b])
  BY <1>1 DEF Fields, IsUno
<1>3. Agrees(g, now)
  <2> HIDE DEF g
  <2> QED
    BY <1>1, <1>2 DEF Agrees, IsUno
<1>4. Alike(d, e)
  BY <1>1, <1>2, <1>3 DEF Alike, Fields
<1> QED
  BY <1>1, <1>4, AlikeLive DEF Live

(* handleStartNextRound: the last player who is ready deals. *)
LEMMA StartNextRoundCards ==
  ASSUME Good(db, sweep), UnoInv(db), NEW p \in Players, handleStartNextRound(p)
  PROVE  Carried
<1> DEFINE more == db.game.ready \cup {p}
           ready == [db EXCEPT !.game.ready = more]
<1>1. Live(db) /\ ready = [db EXCEPT !.game.ready = @ \cup {p}]
  BY InPlayLive DEF handleStartNextRound, Here, Fields
<1>2. PICK e : Commit(e) /\ (e = ready \/ e \in startNextRound(ready))
  BY <1>1 DEF handleStartNextRound
<1> HIDE DEF more
<1>3. Live(ready)
  BY <1>1, PauseLive
<1> HIDE DEF ready
<1>4. Live(e)
  BY <1>2, <1>3, NextRoundLive
<1> QED
  BY <1>2, <1>4, LiveCarried

(* The scheduler deals, or dies before. *)
LEMMA SchedulerCards ==
  ASSUME Good(db, sweep), UnoInv(db), processBetweenRoundsTimeouts \/ SchedulerDies
  PROVE  Carried
<1>1. Live(db)
  BY InPlayLive DEF processBetweenRoundsTimeouts, SchedulerDies
<1>2. PICK e : Save(e) /\ (e = [db EXCEPT !.game.dealing = TRUE] \/ e \in startNextRound(db))
  BY DEF processBetweenRoundsTimeouts, SchedulerDies
<1>3. Live(e)
  BY <1>1, <1>2, PauseLive, NextRoundLive
<1> QED
  BY <1>2, <1>3, LiveCarried

(* The first deal. *)
LEMMA DealtCards ==
  ASSUME UnoInv(db), Dealt(db, db', NewGames)
  PROVE  Carried
<1>1. /\ Orderly(db.room.players) /\ Len(db.room.players) > 1
      /\ db'.room.players = db.room.players /\ db'.room.gameReady
      /\ db'.game \in Deals(db, [p \in Seated(db) |-> 0], 1, <<>>)
  BY DEF UnoInv, Dealt, NewGames
<1> DEFINE g == db'.game
<1>2. Table(g, Seated(db)) /\ g.mover \in Seated(db) /\ g.out = {} /\ Told(g)
  BY <1>1, DealtTable
<1>3. Seated(db') = Seated(db) /\ Active(db') = Seated(db)
  BY <1>1, <1>2 DEF Seated, Active
<1>4. \E p, q \in Seated(db) : p # q
  BY <1>1, OrderlyTwo
<1> QED
  BY <1>1, <1>2, <1>3, <1>4 DEF UnoInv, Going, Carried

(* All steps. *)
LEMMA NextCards ==
  ASSUME Good(db, sweep), UnoInv(db), [Next]_vars
  PROVE  Carried
<1>1. CASE UNCHANGED vars
  BY <1>1 DEF vars, UnoInv, Going, Active, Seated, Carried
<1>2. CASE RoomStep \/ \E p \in Players : markReady(p)
  BY <1>2, RoomStepQuiet, markReadyQuiet, QuietCards
<1>3. Seats \in Nat \ {0, 1}
  BY RoomsAssumption
<1>4. CASE \E p \in Players : handleJoin(p)
  <2>1. PICK p \in Players : Join(p, Seats, NewGames, db.game # NoGame /\ ~db.game.between)
    BY <1>4 DEF handleJoin
  <2>2. Quiet(db, db') \/ Dealt(db, db', NewGames)
    BY <1>3, <2>1, JoinSeen
  <2> QED
    BY <2>2, QuietCards, DealtCards
<1>5. CASE tryStartUnoGame
  BY <1>3, <1>5, tryStartSeen, DealtCards DEF tryStartUnoGame
<1>6. CASE \E p \in Players : handleDisconnect(p)
  BY <1>6, AbsenceQuiet, QuietCards DEF handleDisconnect
<1>7. ASSUME NEW p, Open(db) /\ ~Pregame(db), db' = settleGameRoom(eliminatePlayer(db, p))
      PROVE  Carried
  BY <1>7, OpenLive, EliminatePlaying, PlayingCarried
<1>8. CASE \E p \in Players : LeaveRoom(p)
  <2>1. PICK p \in Players : Leave(p, Depart(db, p), Quit(db, p))
    BY <1>8 DEF LeaveRoom
  <2>2. Quiet(db, db') \/ (Open(db) /\ ~Pregame(db) /\ Commit(Quit(db, p)))
    BY <2>1, LeaveSeen
  <2>3. CASE Open(db) /\ ~Pregame(db) /\ Commit(eliminatePlayer(db, p))
    BY <1>7, <2>3 DEF Commit
  <2>4. CASE Open(db) /\ ~Pregame(db) /\ Commit(Resign(db, p))
    <3>1. Quiet(db, Resign(db, p))
      BY <2>4, GoodShape, FinishQuiet DEF Open, Fields, Shape, Resign
    <3> QED
      BY <2>4, <3>1, CommitQuiet, QuietCards DEF Commit
  <2> QED
    BY <2>2, <2>3, <2>4, QuietCards DEF Quit
<1>9. InPlay(db) => Open(db) /\ ~Pregame(db)
  BY InPlayGood DEF InPlay, Open, Pregame
<1>10. CASE forfeit
  <2>1. Quiet(db, db') \/ (InPlay(db) /\ db' = settleGameRoom(eliminatePlayer(db, sweep["grace"].player)))
    BY <1>10, HandlerSeen DEF forfeit, Sweepers
  <2> QED
    BY <1>7, <1>9, <2>1, QuietCards
<1>11. CASE timeout
  <2>1. Quiet(db, db') \/ (InPlay(db) /\ db' = settleGameRoom(eliminatePlayer(db, sweep["clock"].player)))
    BY <1>11, HandlerSeen DEF timeout, Sweepers
  <2> QED
    BY <1>7, <1>9, <2>1, QuietCards
<1>12. CASE \E p \in Players, card \in Deck, color \in Colors, callUno \in BOOLEAN :
             handlePlayCard(p, card, color, callUno)
  BY <1>12, PlayCardCards
<1>13. CASE \E p \in Players : handleCallUno(p) \/ handleChallengeUnoMiss(p)
  BY <1>13, CallUnoCards, ChallengeCards
<1>14. CASE \E p \in Players : handleTakeDrawStack(p) \/ handleDrawOne(p) \/ handlePass(p)
  BY <1>14, TakeDrawStackCards, DrawOneCards, PassCards
<1>15. CASE \E p \in Players : handleStartNextRound(p)
  BY <1>15, StartNextRoundCards
<1>16. CASE processBetweenRoundsTimeouts \/ SchedulerDies
  BY <1>16, SchedulerCards
<1> QED
  BY <1>1, <1>2, <1>4, <1>5, <1>6, <1>8, <1>10, <1>11, <1>12, <1>13, <1>14, <1>15, <1>16 DEF Next

(* A room starts without a match. *)
LEMMA InitCards == Init => UnoInv(db)
<1> SUFFICES ASSUME Init PROVE UnoInv(db)
  OBVIOUS
<1>1. db.room.players = <<>> /\ db.room.gameReady = FALSE /\ db.game = NoGame
  BY DEF Init, NoRoom
<1>2. Orderly(<<>>)
  BY RoomsAssumption DEF Orderly
<1> QED
  BY <1>1, <1>2 DEF UnoInv

(* A match has the whole deck. *)
LEMMA WholeDeck ==
  ASSUME NEW d, UnoInv(d), IsUno(d.game) \/ d.room.gameReady
  PROVE  /\ d.room.gameReady /\ Table(d.game, Seated(d)) /\ Cards(d.game) = Deck
         /\ d.room.status # "finished" => Going(d)
<1>1. ~IsUno(NoGame)
  <2>1. DOMAIN NoGame = {"mover"}
    BY DEF NoGame
  <2>2. "hands" \notin DOMAIN NoGame
    BY <2>1
  <2> QED
    BY <2>2 DEF IsUno
<1>2. d.room.gameReady /\ Table(d.game, Seated(d)) /\ (d.room.status # "finished" => Going(d))
  BY <1>1 DEF UnoInv
<1> DEFINE hands == d.game.hands
           pile == Pile(d.game)
           own == UNION {hands[p] : p \in DOMAIN hands}
<1>3. Spread(hands, pile, Seated(d))
  BY <1>2 DEF Table
<1>4. own \cup pile = Deck
  <2> HIDE DEF hands, pile
  <2>1. \A p \in DOMAIN hands : hands[p] \subseteq Deck
    BY <1>3 DEF Spread
  <2>2. own \subseteq Deck
    <3> SUFFICES ASSUME NEW p \in DOMAIN hands, NEW card \in hands[p] PROVE card \in Deck
      OBVIOUS
    <3> QED
      BY <2>1
  <2>3. \A p \in DOMAIN hands : hands[p] \subseteq own
    OBVIOUS
  <2>4. pile \subseteq Deck /\ \A card \in Deck : card \in pile \/ \E p \in DOMAIN hands : card \in hands[p]
    BY <1>3 DEF Spread
  <2> HIDE DEF own
  <2> QED
    BY <2>2, <2>3, <2>4
<1>5. Cards(d.game) = own \cup pile
  BY Zenon DEF Cards
<1> HIDE DEF own, pile
<1> QED
  BY <1>2, <1>4, <1>5

(* Every reachable state of a room of UNO has its cards in order. *)
THEOREM UnoCards == Spec => []UnoInv(db)
<1>1. Good(db, sweep) /\ UnoInv(db) /\ [Next]_vars => UnoInv(db)'
  BY NextCards DEF Carried
<1> QED
  BY <1>1, InitCards, UnoGood, PTL DEF Spec

(* applyPlay, drawNCards, eliminatePlayer and startNextRound, with every deck: no card is in *)
(* two places, none is lost or added in the whole of a match, what was declared fits the     *)
(* hands, and the player to move is one who is still in the round.                            *)
THEOREM UnoCardsConserved == Spec => CardsConserved
<1>1. UnoInv(db) => CardsPlaced
  <2> SUFFICES ASSUME UnoInv(db), IsUno(db.game) PROVE CardsPlaced
    BY DEF CardsPlaced
  <2> DEFINE g == db.game
  <2>1. /\ IsUno(g) /\ Spread(g.hands, Pile(g), Seated(db)) /\ Piled(g) /\ Stacked(g)
        /\ db.room.status # "finished" => Going(db)
    BY WholeDeck DEF Table
  <2>2. InPlay(db) => g.mover \in Seated(db) \ g.out /\ Told(g)
    BY <2>1 DEF InPlay, Going, Active
  <2> HIDE DEF g
  <2>3. /\ DOMAIN g.hands = Seated(db)
        /\ \A p \in Seated(db) : g.hands[p] \cap Pile(g) = {}
        /\ \A p, q \in Seated(db) : p # q => g.hands[p] \cap g.hands[q] = {}
    BY <2>1 DEF Spread
  <2>4. InPlay(db) /\ ~g.between =>
          /\ \A p \in g.called : OneCard(g, p)
          /\ g.offender # None => OneCard(g, g.offender) /\ g.offender \notin g.called
    BY <2>2 DEF Told
  <2> QED
    BY <2>1, <2>2, <2>3, <2>4 DEF CardsPlaced, Piled, Stacked, OneCard, g
<1>2. Good(db, sweep) /\ UnoInv(db) /\ [Next]_vars => [IsUno(db.game) => Cards(db'.game) = Cards(db.game)]_vars
  <2> SUFFICES ASSUME Good(db, sweep), UnoInv(db), [Next]_vars, IsUno(db.game)
               PROVE  Cards(db'.game) = Cards(db.game)
    OBVIOUS
  <2>1. UnoInv(db') /\ db.room.gameReady /\ db'.room.gameReady
    BY NextCards, WholeDeck DEF Carried
  <2> QED
    BY <2>1, WholeDeck
<1> QED
  BY <1>1, <1>2, UnoGood, UnoCards, PTL DEF Spec, CardsConserved
=============================================================================
