-------------------------------- MODULE Uno --------------------------------
(* uno.gateway.ts and uno-game.logic.ts, in a game room. A match is several  *)
(* rounds; a player who gives up or runs out of time sits out the round. The *)
(* order of the shuffled piles is not kept: any card may be drawn next.      *)
EXTENDS GameRules, FiniteSetsExt

CONSTANTS Deck,       \* cards <<color, face, copy>>; the code deals the 108
          Colors,     \* R, G, B, Y in the code
          HandSize,   \* 7 in the code
          Target,     \* match_target_score
          MaxRounds   \* bound: entries of round_history

\* Faces: 0..9 are numbers, 12 is Draw2 and 14 WildDraw4; wild cards have no color.
Skip == 10
ReverseTurn == 11
Wild == 13
isWild(card) == card[2] \in {Wild, WildDraw4}
isNumberCard(card) == card[2] \in 0..9

UnoAssumption ==
  /\ \A card \in Deck : card[2] \in 0..WildDraw4 /\ (isWild(card) \/ card[1] \in Colors)
  /\ HandSize \in Nat \ {0} /\ Target \in Nat \ {0} /\ MaxRounds \in Nat

cardScoreValue(card) == IF isNumberCard(card) THEN card[2] ELSE IF isWild(card) THEN 50 ELSE 20
sumHandScore(hand) == MapThenSumSet(cardScoreValue, hand)

\* The cards of a new round: the first player begins, on a number. The scores and the
\* audit log are those of the whole match.
Deals(d, scores, round, history) ==
  LET hands == {h \in [Seated(d) -> kSubset(HandSize, Deck)] :
                  \A p, q \in Seated(d) : p # q => h[p] \cap h[q] = {}}
      Rest(h) == Deck \ UNION {h[p] : p \in Seated(d)}
  IN UNION {{[mover |-> d.room.players[1], hands |-> h, draw |-> Rest(h) \ {top}, top |-> top,
              discard |-> {}, color |-> top[1], dir |-> 1, pending |-> 0, out |-> {},
              called |-> {}, offender |-> None, ready |-> {}, between |-> FALSE,
              dealing |-> FALSE, scores |-> scores, round |-> round,
              history |-> history] : top \in {card \in Rest(h) : isNumberCard(card)}} : h \in hands}

NewGames == Deals(db, [p \in Seated(db) |-> 0], 1, <<>>)

----------------------------------------------------------------------------
(* uno-game.logic.ts on a database state d or its game g.                    *)

Active(d) == Seated(d) \ d.game.out
NextTurn(d) == [d EXCEPT !.game.mover = Following(d, @, d.game.out, d.game.dir)]

canPlayCardOnDiscard(g, card) == isWild(card) \/ card[1] = g.color \/ card[2] = g.top[2]

\* A stack is answered by a draw two on a draw two, or by a wild draw four, which
\* is legal for a player without the color only.
validatePlay(g, p, card) ==
  /\ g.mover = p /\ card \in g.hands[p]
  /\ IF g.pending > 0
     THEN card[2] = WildDraw4 \/ (card[2] = Draw2 /\ g.top[2] = Draw2)
     ELSE canPlayCardOnDiscard(g, card)
  /\ card[2] = WildDraw4 => \A c \in g.hands[p] : isWild(c) \/ c[1] # g.color
hasLegalPlay(g, p) == \E card \in g.hands[p] : validatePlay(g, p, card)

\* The sets of n cards that may come next; the discard below the top is shuffled
\* into the pile when that is empty, and fewer come when nothing is left.
drawNCards(g, n) ==
  LET missing == n - Cardinality(g.draw)
      under == Cardinality(g.discard)
  IN IF missing <= 0 THEN kSubset(n, g.draw)
     ELSE {g.draw \cup more : more \in kSubset(IF missing < under THEN missing ELSE under, g.discard)}

\* p takes the cards s: he holds no UNO any more.
Takes(d, p, s) ==
  LET piled == s \subseteq d.game.draw
  IN [d EXCEPT !.game.hands[p] = @ \cup s, !.game.called = @ \ {p}, !.game.offender = None,
               !.game.draw = IF piled THEN @ \ s ELSE d.game.discard \ s,
               !.game.discard = IF piled THEN @ ELSE {}]

\* The card is on the pile. With one card left p holds UNO if he said so, and
\* may be challenged if he did not.
Laid(d, p, card, color, callUno) ==
  LET left == d.game.hands[p] \ {card}
      one == Cardinality(left) = 1
      more == CASE card[2] = Draw2 -> d.game.pending + 2
                [] card[2] = WildDraw4 -> d.game.pending + 4
                [] OTHER -> 0
  IN [d EXCEPT !.game.hands[p] = left, !.game.discard = @ \cup {d.game.top}, !.game.top = card,
               !.game.color = IF isWild(card) THEN color ELSE card[1], !.game.pending = more,
               !.game.called = IF one /\ callUno THEN @ \cup {p} ELSE @ \ {p},
               !.game.offender = IF one /\ ~callUno THEN p ELSE None]

\* Whose turn comes after the card. With two players left a skip or a reverse
\* gives the turn back to the one who played it.
Advanced(d, card) ==
  LET turned == IF card[2] = ReverseTurn THEN [d EXCEPT !.game.dir = -@] ELSE d
  IN IF card[2] \in {Skip, ReverseTurn} /\ Cardinality(Active(d)) = 2 THEN turned
     ELSE IF card[2] = Skip THEN NextTurn(NextTurn(turned)) ELSE NextTurn(turned)

----------------------------------------------------------------------------
(* uno.gateway.ts                                                            *)

\* applyEngineToGame and broadcastUnoGameState
Broadcast(d) == PassTurn(d, d.game.mover)

finalizeUnoRoundWinner(d, p) ==
  LET dealt == FoldSet(LAMBDA q, sum : sum + sumHandScore(d.game.hands[q]), 0, Seated(d) \ {p})
      scored == NewTurn([d EXCEPT !.game.scores[p] = @ + dealt,
                                  !.game.history = Append(@, [round |-> d.game.round, winner |-> p])])
  IN IF scored.game.scores[p] >= Target
     THEN Finish([scored EXCEPT !.game.between = FALSE], p)
     ELSE [scored EXCEPT !.game.between = TRUE, !.game.dealing = FALSE,
                         !.game.out = {}, !.game.ready = {}]

\* The next deal: everyone plays again, the first player begins.
startNextRound(d) ==
  {Broadcast([d EXCEPT !.game = g]) : g \in Deals(d, d.game.scores, d.game.round + 1, d.game.history)}

(* Mutant: his hand is cleared, and his cards do not go back. *)
eliminatePlayerDropping(d, p) ==
  LET out == [d EXCEPT !.game.hands[p] = {}, !.game.out = @ \cup {p}]
  IN IF d.room.status # "started" \/ p \in d.game.out THEN d
     ELSE IF Cardinality(Active(out)) = 1 THEN Finish(out, CHOOSE q \in Active(out) : TRUE)
     ELSE IF d.game.mover = p THEN Broadcast(NextTurn(out)) ELSE out

\* His cards, if he has any, go under the draw pile. What he declared stays. The last
\* player left wins the match.
eliminatePlayer(d, p) ==
  LET hand == IF p \in DOMAIN d.game.hands THEN d.game.hands[p] ELSE {}
      out == [d EXCEPT !.game.draw = @ \cup hand, !.game.hands[p] = {},
                       !.game.out = @ \cup {p}]
      turned == IF d.game.mover = p THEN NewTurn(NextTurn(out)) ELSE out
      left == Active(out)
  IN IF d.room.status # "started" \/ p \in d.game.out THEN d
     ELSE IF Cardinality(left) = 1
     THEN Finish([turned EXCEPT !.game.between = FALSE, !.game.dealing = FALSE],
                 CHOOSE q \in left : TRUE)
     ELSE IF turned.game.mover \in online THEN Schedule(turned, turned.game.mover) ELSE turned

Quit(d, p) == IF Len(d.room.players) > 2 THEN eliminatePlayer(d, p) ELSE Resign(d, p)

handleJoin(p) == Join(p, Seats, NewGames, db.game # NoGame /\ ~db.game.between)
tryStartUnoGame == tryStart(Seats, NewGames)
handleDisconnect(p) == Disconnect(p, Absent(db, p))
LeaveRoom(p) == Leave(p, Depart(db, p), Quit(db, p))
forfeit == Handler("grace", FALSE, eliminatePlayer(db, sweep["grace"].player))
timeout == Handler("clock", FALSE, eliminatePlayer(db, sweep["clock"].player))

Here(p) == InPlay(db) /\ p \in Active(db) \cap online
MayAct(p) == Here(p) /\ db.game.mover = p

\* applyPlay. Who lays his last card without having said UNO draws two instead of
\* winning. That the round is over is not asked, here or below.
handlePlayCard(p, card, color, callUno) ==
  LET laid == Laid(db, p, card, color, callUno)
      last == laid.game.hands[p] = {}
      won == last /\ (p \in db.game.called \/ callUno)
  IN /\ MayAct(p) /\ validatePlay(db.game, p, card)
     /\ isWild(card) \/ color = card[1]
     /\ won => Len(db.game.history) < MaxRounds
     /\ IF won THEN Commit(finalizeUnoRoundWinner(laid, p))
        ELSE IF last
        THEN \E s \in drawNCards(laid.game, 2) : Commit(Broadcast(Advanced(Takes(laid, p, s), card)))
        ELSE Commit(Broadcast(Advanced(laid, card)))
     /\ UNCHANGED <<online, lost, drops>>

\* These two leave the turn and its clock as they are.
handleCallUno(p) ==
  /\ Here(p) /\ Cardinality(db.game.hands[p]) = 1
  /\ p \notin db.game.called /\ db.game.offender \in {None, p}
  /\ Commit([db EXCEPT !.game.called = @ \cup {p}, !.game.offender = None])
  /\ UNCHANGED <<online, lost, drops>>

handleChallengeUnoMiss(p) ==
  /\ Here(p) /\ db.game.offender # None
  /\ \E s \in drawNCards(db.game, 2) : Commit(Takes(db, db.game.offender, s))
  /\ UNCHANGED <<online, lost, drops>>

handleTakeDrawStack(p) ==
  /\ MayAct(p) /\ db.game.pending > 0
  /\ \E s \in drawNCards(db.game, db.game.pending) :
       Commit(Broadcast(NextTurn([Takes(db, p, s) EXCEPT !.game.pending = 0])))
  /\ UNCHANGED <<online, lost, drops>>

handleDrawOne(p) ==
  /\ MayAct(p) /\ db.game.pending = 0
  /\ \E s \in drawNCards(db.game, 1) : s # {} /\ Commit(Broadcast(Takes(db, p, s)))
  /\ UNCHANGED <<online, lost, drops>>

\* Without a legal play p draws a card, and keeps the turn if that can be played.
handlePass(p) ==
  /\ MayAct(p) /\ db.game.pending = 0 /\ ~hasLegalPlay(db.game, p)
  /\ \E s \in drawNCards(db.game, 1) :
       LET drawn == IF s = {} THEN [db EXCEPT !.game.offender = None] ELSE Takes(db, p, s)
       IN Commit(Broadcast(IF hasLegalPlay(drawn.game, p) THEN drawn ELSE NextTurn(drawn)))
  /\ UNCHANGED <<online, lost, drops>>

handleStartNextRound(p) ==
  LET ready == [db EXCEPT !.game.ready = @ \cup {p}]
  IN /\ Here(p) /\ db.game.between
     /\ IF Active(db) \subseteq ready.game.ready /\ ~db.game.dealing
        THEN \E e \in startNextRound(ready) : Commit(e)
        ELSE Commit(ready)
     /\ UNCHANGED <<online, lost, drops>>

\* The scheduler deals when the pause is over: no command, so no new revision. It
\* takes between_rounds_processing first; a process that dies then leaves it.
processBetweenRoundsTimeouts ==
  /\ InPlay(db) /\ db.game.between /\ ~db.game.dealing
  /\ \E e \in startNextRound(db) : Save(e)
  /\ UNCHANGED <<online, lost, drops>>

SchedulerDies ==
  /\ InPlay(db) /\ db.game.between /\ ~db.game.dealing
  /\ Save([db EXCEPT !.game.dealing = TRUE])
  /\ UNCHANGED <<online, lost, drops>>

Next ==
  \/ RoomStep
  \/ \E p \in Players : markReady(p)
  \/ \E p \in Players : handleJoin(p)
  \/ tryStartUnoGame
  \/ \E p \in Players : handleDisconnect(p)
  \/ \E p \in Players : LeaveRoom(p)
  \/ forfeit
  \/ timeout
  \/ \E p \in Players, card \in Deck, color \in Colors, callUno \in BOOLEAN :
       handlePlayCard(p, card, color, callUno)
  \/ \E p \in Players : handleCallUno(p)
  \/ \E p \in Players : handleChallengeUnoMiss(p)
  \/ \E p \in Players : handleTakeDrawStack(p)
  \/ \E p \in Players : handleDrawOne(p)
  \/ \E p \in Players : handlePass(p)
  \/ \E p \in Players : handleStartNextRound(p)
  \/ processBetweenRoundsTimeouts
  \/ SchedulerDies

Spec == Init /\ [][Next]_vars

=============================================================================
