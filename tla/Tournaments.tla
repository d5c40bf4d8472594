---------------------------- MODULE Tournaments ----------------------------
(* A tournament from its draft to its prizes: registration and settlement    *)
(* (tournament-finance.ts), the bracket, the matches and their rooms, the    *)
(* scheduler and the administrator who cancels, with FINANCE_V2_ENABLED. A   *)
(* command of a game is one MongoDB transaction that reads a snapshot; the   *)
(* scheduler writes document by document, and may be overtaken or die        *)
(* between two of them. What is played inside a room is GameRooms.           *)
EXTENDS Integers, Sequences, FiniteSets, SequencesExt

CONSTANTS Users,        \* users, numbered as they register for the first time
          MaxPlayers,   \* max_players, a power of two
          MinPlayers,   \* min_players, a power of two
          Stake,        \* buy_in
          Fee,          \* house_fee_percent
          First,        \* first_place_percent
          Schedulers,   \* ticks that may run at the same time
          Troubles,     \* what may go wrong, of the six below
          Ahead,        \* cancelled tournaments that the worker's query returns before this one
          Commands,     \* bound: game commands in progress at a time
          Quits,        \* bound: users who unregister, once each
          None

\* A job outlives its lock of two seconds, a process dies, a player leaves his room
\* over HTTP, a room ends without a winner, the administrator cancels, a game is played
\* between two writes of the job that opens its room.
AllTroubles == {"overrun", "crash", "leave", "no winner", "cancel", "swift"}
TwoPower == {2, 4, 8, 16, 32, 64, 128, 256, 512}
ASSUME TournamentAssumption ==
  /\ Users \in Nat /\ Ahead \in Nat /\ Stake \in Nat \ {0} /\ Commands \in Nat /\ Quits \in Nat
  /\ MaxPlayers \in TwoPower /\ MinPlayers \in TwoPower /\ MinPlayers <= MaxPlayers
  /\ Fee \in 0..100 /\ First \in 0..100 /\ Fee + First <= 100 /\ Troubles \subseteq AllTroubles
  /\ None \notin 1..Users

Players == 1..Users
Groups == MaxPlayers \div 2   \* group_count, for groups of two

VARIABLES db,      \* what MongoDB holds of the tournament
          due,     \* starts_at has passed
          left,    \* users who have unregistered
          tx,      \* commands of games in progress: their room and what they have read
          sched,   \* the jobs of the schedulers
          locks    \* the keys that Redis holds

vars == <<db, due, left, tx, sched, locks>>

\* What a job remembers: the tournament as it read it, the matches or users it has
\* still to go through, the match it is at, and its new room or its winner.
NoKey == <<"none", 0>>
TournamentKey == <<"tournament", 0>>
Idle == [step |-> "idle", key |-> NoKey, fresh |-> None, round |-> 0, todo |-> {}, match |-> 0, winner |-> None, room |-> 0]

Init ==
  /\ db = [t |-> [status |-> "draft", count |-> 0, finals |-> FALSE, round |-> 0,
                  settled |-> FALSE, winner |-> None, runnerUp |-> None],
           parts |-> <<>>, back |-> {}, matches |-> <<>>, rooms |-> <<>>,
           money |-> [u \in Players |-> Stake], escrow |-> 0, house |-> 0]
  /\ due = FALSE /\ left = {} /\ tx = {} /\ locks = {}
  /\ sched = [s \in Schedulers |-> Idle]

----------------------------------------------------------------------------
(* Reading a database state d. parts are the participants in the order of    *)
(* their insertion, matches and rooms in the order of their creation.        *)

Registered(d) == {d.parts[i].user : i \in DOMAIN d.parts}
Decided(m) == m.status \in {"finished", "forfeited"}
Marked(d, u, status) ==
  [d EXCEPT !.parts = [i \in DOMAIN @ |-> IF @[i].user = u THEN [@[i] EXCEPT !.status = status] ELSE @[i]]]
With(d, status) == {i \in DOMAIN d.parts : d.parts[i].status = status}
\* A list that is worked through in the order of its documents, by their places.
Earliest(places) == CHOOSE i \in places : \A j \in places : i <= j
\* .sort({ seed: 1 }): equal seeds as the index has them, by insertion
Before(d, i, j) == d.parts[i].seed < d.parts[j].seed \/ (d.parts[i].seed = d.parts[j].seed /\ i < j)
BySeed(d, places) ==
  [n \in 1..Cardinality(places) |->
     d.parts[CHOOSE i \in places : Cardinality({j \in places : Before(d, j, i)}) = n - 1].user]

\* A journal from a user to the escrow; amount may be negative.
Move(d, u, amount) == [d EXCEPT !.money[u] = @ - amount, !.escrow = @ + amount]

----------------------------------------------------------------------------
(* Registration.                                                             *)

openTournament ==
  /\ db.t.status = "draft" /\ ~due
  /\ db' = [db EXCEPT !.t.status = "open"]
  /\ UNCHANGED <<due, left, tx, sched, locks>>

StartsAtPasses ==
  /\ ~due /\ due' = TRUE
  /\ UNCHANGED <<db, left, tx, sched, locks>>

register(u) ==
  LET n == db.t.count + 1
      seat == [user |-> u, status |-> "registered", seed |-> n, group |-> ((n - 1) % Groups) + 1]
  IN /\ db.t.status \in {"open", "full"} /\ u \notin Registered(db)
     /\ db.t.count < MaxPlayers /\ db.money[u] >= Stake
     /\ \A v \in 1..(u - 1) : v \in Registered(db) \cup left
     /\ db' = [Move(db, u, Stake) EXCEPT !.parts = Append(@, seat), !.t.count = n,
                         !.t.status = IF n < MaxPlayers THEN @ ELSE IF due THEN "full" ELSE "countdown"]
     /\ UNCHANGED <<due, left, tx, sched, locks>>

unregister(u) ==
  /\ db.t.status \in {"open", "full", "countdown"} /\ u \in Registered(db)
  /\ u \notin left /\ Cardinality(left) < Quits
  /\ db' = [Move(db, u, -Stake) EXCEPT !.parts = RemoveAt(@, CHOOSE i \in DOMAIN @ : @[i].user = u),
                                   !.t.count = @ - 1, !.t.status = "open"]
  /\ left' = left \cup {u}
  /\ UNCHANGED <<due, tx, sched, locks>>

\* cancel: a transaction that also closes the rooms.
cancel ==
  /\ "cancel" \in Troubles
  /\ db.t.status \notin {"finished", "cancelled"} /\ ~db.t.settled
  /\ db' = [db EXCEPT !.t.status = "cancelled",
                      !.rooms = [r \in DOMAIN @ |-> [@[r] EXCEPT !.open = FALSE]]]
  /\ UNCHANGED <<due, left, tx, sched, locks>>

(* Mutant: only who was still waiting for the start gets his stake back. *)
refundRegistered(d, u) ==
  IF d.t.status # "cancelled" \/ (\A i \in With(d, "registered") : d.parts[i].user # u) \/ d.escrow < Stake THEN d
  ELSE [Move(Marked(d, u, "refunded"), u, -Stake) EXCEPT !.back = @ \cup {u}]

\* The refund of one participant, in a transaction of its own. The journal
\* exists once, and needs an escrow that covers it.
refundCancelledParticipant(d, u) ==
  IF d.t.status # "cancelled" \/ u \notin Registered(d) \/ (\E i \in With(d, "refunded") : d.parts[i].user = u) THEN d
  ELSE IF u \in d.back THEN Marked(d, u, "refunded")
  ELSE IF d.escrow < Stake THEN d
  ELSE [Move(Marked(d, u, "refunded"), u, -Stake) EXCEPT !.back = @ \cup {u}]

\* The payments worker, once a minute. Its query takes so many cancelled tournaments,
\* without an order, and those that are refunded stay cancelled.
TickLimit == 30
refundCancelled(u) ==
  /\ Ahead < TickLimit
  /\ db' = refundCancelledParticipant(db, u) /\ db' # db
  /\ UNCHANGED <<due, left, tx, sched, locks>>

----------------------------------------------------------------------------
(* The bracket.                                                              *)

Match(group, name, round, a, b) ==
  [group |-> group, name |-> name, round |-> round, a |-> a, b |-> b, status |-> "pending",
   winner |-> None, loser |-> None, room |-> 0]

\* The first two of a group meet; a place may stay empty.
buildGroupBracketDefs(d) ==
  [g \in 1..Groups |->
     LET us == BySeed(d, {i \in DOMAIN d.parts : d.parts[i].group = g})
         At(i) == IF i <= Len(us) THEN us[i] ELSE None
     IN Match(g, "group_final", 0, At(1), At(2))]

\* bracketSeedOrder, for a power of two
seedOrder[n \in {1} \cup TwoPower] ==
  IF n <= 1 THEN <<1>>
  ELSE FlattenSeq([i \in 1..(n \div 2) |-> <<seedOrder[n \div 2][i], n + 1 - seedOrder[n \div 2][i]>>])

\* Only the first round: in the later ones no player is known yet, and a match
\* without players is skipped.
buildFinalsDefs(us) ==
  LET n == Len(us)
  IN [m \in 1..(n \div 2) |->
        Match(0, IF n = 2 THEN "grand_final" ELSE "finals_round", 1000,
              us[seedOrder[n][2 * m - 1]], us[seedOrder[n][2 * m]])]

----------------------------------------------------------------------------
(* The end of a match. An operator that may throw gives a set of outcomes,   *)
(* empty when it throws.                                                     *)

(* Mutant: the pot is reckoned from the number of players. *)
settleByCount(d, w, l) ==
  LET pot == Stake * d.t.count
      fee == (pot * Fee) \div 100
      first == (pot * First) \div 100
  IN IF w = l \/ ~{w, l} \subseteq Registered(d) THEN {}
     ELSE IF d.t.settled \/ d.t.status = "cancelled" THEN {d}
     ELSE {[Marked(Marked(d, w, "winner"), l, "runner_up") EXCEPT
              !.t.status = "finished", !.t.settled = TRUE, !.t.winner = w, !.t.runnerUp = l,
              !.escrow = @ - pot, !.house = @ + fee, !.money[w] = @ + first, !.money[l] = @ + pot - fee - first]}

settleTournament(d, w, l) ==
  LET pot == d.escrow
      fee == (pot * Fee) \div 100
      first == (pot * First) \div 100
  IN IF w = l THEN {}
     ELSE IF d.t.settled \/ d.t.status = "cancelled" THEN {d}
     ELSE IF ~{w, l} \subseteq Registered(d) \/ pot = 0 THEN {}
     ELSE {[Marked(Marked(d, w, "winner"), l, "runner_up") EXCEPT
              !.t.status = "finished", !.t.settled = TRUE, !.t.winner = w, !.t.runnerUp = l,
              !.escrow = 0, !.house = @ + fee, !.money[w] = @ + first, !.money[l] = @ + pot - fee - first]}

\* advanceWinner up to the loser: no match has a next one.
decide(d, i, w, reason) ==
  LET m == d.matches[i]
  IN [d EXCEPT !.matches[i].winner = w, !.matches[i].loser = IF m.a = w THEN m.b ELSE m.a,
               !.matches[i].status = IF reason = "normal" THEN "finished" ELSE "forfeited"]
eliminate(d, i, reason) ==
  IF d.matches[i].loser = None \/ reason = "bye" THEN d ELSE Marked(d, d.matches[i].loser, "eliminated")

pendingIn(d, round) == \E j \in DOMAIN d.matches : d.matches[j].round = round /\ ~Decided(d.matches[j])

\* handleGroupFinalsComplete: who won his group, marked one after the other
markGroupWinners(d) ==
  LET won == {d.matches[j].winner : j \in {k \in DOMAIN d.matches : d.matches[k].name = "group_final"}}
  IN [d EXCEPT !.parts = [i \in DOMAIN @ |-> IF @[i].user \in won THEN [@[i] EXCEPT !.status = "group_winner"] ELSE @[i]]]

handleGroupFinalsComplete(d) ==
  LET winners == BySeed(d, With(d, "group_winner"))
      decisive == d.matches[Earliest({j \in DOMAIN d.matches : d.matches[j].name = "group_final"
                                                              /\ d.matches[j].winner # None})]
  IN IF Len(winners) < Groups THEN {[d EXCEPT !.t.status = "between_rounds"]}
     ELSE IF Groups = 1
     THEN settleTournament(d, decisive.winner, IF decisive.loser = None THEN decisive.winner ELSE decisive.loser)
     ELSE IF Len(winners) # Groups THEN {}
     ELSE {[d EXCEPT !.matches = @ \o buildFinalsDefs(winners), !.t.finals = TRUE,
                     !.t.round = 1000, !.t.status = "finals_pending"]}

(* Mutant: the loser of the grand final is passed first. *)
checkRoundSwapped(d, i) ==
  LET m == d.matches[i]
  IN IF pendingIn(d, m.round) THEN {d}
     ELSE CASE m.name = "grand_final" -> settleTournament(d, m.loser, m.winner)
            [] m.name = "group_final" -> handleGroupFinalsComplete(markGroupWinners(d))
            [] OTHER -> {[d EXCEPT !.t.status = "between_rounds"]}

checkRoundComplete(d, i) ==
  LET m == d.matches[i]
  IN IF pendingIn(d, m.round) THEN {d}
     ELSE CASE m.name = "grand_final" -> settleTournament(d, m.winner, m.loser)
            [] m.name = "group_final" -> handleGroupFinalsComplete(markGroupWinners(d))
            [] OTHER -> {[d EXCEPT !.t.status = "between_rounds"]}

advanceWinner(d, i, w, reason) ==
  IF d.t.status = "cancelled" \/ Decided(d.matches[i]) THEN {d}
  ELSE checkRoundComplete(eliminate(decide(d, i, w, reason), i, reason), i)

----------------------------------------------------------------------------
(* The rooms. A command reads a snapshot when it begins. It commits if no    *)
(* document that it writes was written since; else it begins again.          *)

Clash(now, from, to) == to # from /\ now # from
(* Mutant: that the room was written meanwhile goes unnoticed. *)
ConflictsButRooms(now, from, to) ==
  \/ Clash(now.t, from.t, to.t)
  \/ \E i \in DOMAIN from.parts : Clash(now.parts[i], from.parts[i], to.parts[i])
  \/ \E i \in DOMAIN from.matches : Clash(now.matches[i], from.matches[i], to.matches[i])
  \/ Clash(now.escrow, from.escrow, to.escrow) \/ Clash(now.house, from.house, to.house)
  \/ \E u \in Players : Clash(now.money[u], from.money[u], to.money[u])

Conflicts(now, from, to) ==
  \/ Clash(now.t, from.t, to.t)
  \/ \E i \in DOMAIN from.parts : Clash(now.parts[i], from.parts[i], to.parts[i])
  \/ \E i \in DOMAIN from.matches : Clash(now.matches[i], from.matches[i], to.matches[i])
  \/ \E i \in DOMAIN from.rooms : Clash(now.rooms[i], from.rooms[i], to.rooms[i])
  \/ Clash(now.escrow, from.escrow, to.escrow) \/ Clash(now.house, from.house, to.house)
  \/ \E u \in Players : Clash(now.money[u], from.money[u], to.money[u])

\* What the command has written, over what is there now.
Written(now, from, to) ==
  LET Over(n, f, t) == [i \in DOMAIN n |-> IF i \in DOMAIN f /\ t[i] # f[i] THEN t[i] ELSE n[i]]
      inserted == SubSeq(to.matches, Len(from.matches) + 1, Len(to.matches))
  IN [now EXCEPT !.t = IF to.t = from.t THEN @ ELSE to.t,
                 !.escrow = @ + to.escrow - from.escrow, !.house = @ + to.house - from.house,
                 !.parts = Over(@, from.parts, to.parts),
                 !.matches = Over(@, from.matches, to.matches) \o inserted,
                 !.rooms = Over(@, from.rooms, to.rooms),
                 !.money = Over(@, from.money, to.money)]

Finished(d, r, w) == [d EXCEPT !.rooms[r].open = FALSE, !.rooms[r].winner = w]
Pair(d, r) == {d.matches[d.rooms[r].match].a, d.matches[d.rooms[r].match].b}

BeginCommand(r) ==
  /\ "swift" \in Troubles \/ \A s \in Schedulers : sched[s].step = "opening" => sched[s].room # r
  /\ db.rooms[r].open /\ r \notin {x.room : x \in tx} /\ Cardinality(tx) < Commands
  /\ tx' = tx \cup {[room |-> r, read |-> db]}
  /\ UNCHANGED <<db, due, left, sched, locks>>

\* The last move, a timeout or a forfeit: the room and its match end together.
FinishGame(x) ==
  /\ \E w \in Pair(db, x.room), reason \in {"normal", "forfeit"} :
       \E d \in advanceWinner(Finished(x.read, x.room, w), x.read.rooms[x.room].match, w, reason) :
         /\ ~Conflicts(db, x.read, d)
         /\ db' = Written(db, x.read, d)
  /\ tx' = tx \ {x}
  /\ UNCHANGED <<due, left, sched, locks>>

\* A write conflict, or an error that it meets.
AbortCommand(x) ==
  /\ tx' = tx \ {x}
  /\ UNCHANGED <<db, due, left, sched, locks>>

\* leaveRoom over HTTP: the room gets its winner, the match hears nothing.
LeaveRoom(r, w) ==
  /\ "leave" \in Troubles /\ db.rooms[r].open
  /\ db' = Finished(db, r, w)
  /\ UNCHANGED <<due, left, tx, sched, locks>>

\* A draw, a preparation that expired, a lobby that both have left.
EndWithoutWinner(r) ==
  /\ "no winner" \in Troubles /\ db.rooms[r].open
  /\ db' = Finished(db, r, None)
  /\ UNCHANGED <<due, left, tx, sched, locks>>

----------------------------------------------------------------------------
(* The scheduler. A job holds the lock of its key, but reads, writes and     *)
(* reads again without a transaction. A saved document overwrites only the   *)
(* fields that differ from what the job read (fresh).                        *)

Acquire(s, key, job) ==
  /\ sched[s].step \in {"idle", "listed"} /\ key \notin locks
  /\ locks' = locks \cup {key}
  /\ sched' = [sched EXCEPT ![s] = [job EXCEPT !.key = key]]
End(s) ==
  /\ sched' = [sched EXCEPT ![s] = Idle]
  /\ locks' = locks \ {sched[s].key}
Step(s, job) == sched' = [sched EXCEPT ![s] = job] /\ UNCHANGED locks

pendingMatches(d, round) ==
  {i \in DOMAIN d.matches : d.matches[i].round = round /\ d.matches[i].status = "pending"}
Activation(t, round) ==
  [Idle EXCEPT !.step = "activating", !.fresh = t, !.round = round, !.todo = pendingMatches(db, round)]

(* Mutant: what is running is listed again. *)
ListRunning(s) ==
  /\ sched[s] = Idle /\ due /\ db.t.status \in {"open", "full", "countdown", "running"}
  /\ Step(s, [Idle EXCEPT !.step = "listed"])
  /\ UNCHANGED <<db, due, left, tx>>

\* processStartTimes: the list of what is due, read without the lock
ListDue(s) ==
  /\ sched[s] = Idle /\ due /\ db.t.status \in {"open", "full", "countdown"}
  /\ Step(s, [Idle EXCEPT !.step = "listed"])
  /\ UNCHANGED <<db, due, left, tx>>

TakeUpStart(s) ==
  /\ sched[s].step = "listed"
  /\ IF TournamentKey \in locks \/ db.t.status = "locking"
     THEN Step(s, Idle)
     ELSE Acquire(s, TournamentKey, [Idle EXCEPT !.step = "locking", !.fresh = db.t])
  /\ UNCHANGED <<db, due, left, tx>>

SaveLocking(s) ==
  /\ sched[s].step = "locking"
  /\ db' = [db EXCEPT !.t.status = "locking"]
  /\ Step(s, [sched[s] EXCEPT !.step = IF sched[s].fresh.count < MinPlayers THEN "cancelling" ELSE "drawing"])
  /\ UNCHANGED <<due, left, tx>>

CancelStart(s) ==
  /\ sched[s].step = "cancelling"
  /\ db' = [db EXCEPT !.t.status = "cancelled"]
  /\ Step(s, [sched[s] EXCEPT !.step = "refunding", !.todo = DOMAIN db.parts])
  /\ UNCHANGED <<due, left, tx>>

\* refundAllRegistered: a refund that fails is skipped
RefundNext(s) ==
  /\ sched[s].step = "refunding"
  /\ IF sched[s].todo = {} THEN End(s) /\ UNCHANGED db
     ELSE LET i == Earliest(sched[s].todo)
          IN /\ db' \in {db, refundCancelledParticipant(db, db.parts[i].user)}
             /\ Step(s, [sched[s] EXCEPT !.todo = @ \ {i}])
  /\ UNCHANGED <<due, left, tx>>

\* The saved phase and round: where the tournament already has them, nothing changes.
generateGroupsAndBrackets(s) ==
  LET fresh == sched[s].fresh
  IN /\ sched[s].step = "drawing"
     /\ db' = [db EXCEPT !.matches = @ \o buildGroupBracketDefs(db),
                         !.parts = [i \in DOMAIN @ |-> [@[i] EXCEPT !.status = "active"]],
                         !.t.finals = IF fresh.finals THEN FALSE ELSE @,
                         !.t.round = IF fresh.round = 0 THEN @ ELSE 0]
     /\ Step(s, [sched[s] EXCEPT !.step = "running", !.fresh.finals = FALSE, !.fresh.round = 0])
     /\ UNCHANGED <<due, left, tx>>

Run(s) ==
  /\ sched[s].step = "running"
  /\ db' = [db EXCEPT !.t.status = "running"]
  /\ Step(s, [Activation([sched[s].fresh EXCEPT !.status = "running"], 0) EXCEPT !.key = TournamentKey])
  /\ UNCHANGED <<due, left, tx>>

\* between_rounds_ends_at has passed
processBetweenRounds(s) ==
  /\ sched[s] = Idle
  /\ \/ db.t.status = "finals_pending" /\ Acquire(s, TournamentKey, Activation(db.t, db.t.round))
     \/ db.t.status = "between_rounds" /\ db.t.finals
          /\ Acquire(s, TournamentKey, Activation(db.t, db.t.round + 1))
  /\ UNCHANGED <<db, due, left, tx>>

activatePendingFinalsMatches(s) ==
  /\ sched[s] = Idle /\ db.t.status = "finals_running" /\ db.t.finals
  /\ \E i \in pendingMatches(db, db.t.round) : None \notin {db.matches[i].a, db.matches[i].b}
  /\ Acquire(s, TournamentKey, Activation(db.t, db.t.round))
  /\ UNCHANGED <<db, due, left, tx>>

\* players_playerId_active_unique: a user is in one open room at most
Seated(u) == \E r \in DOMAIN db.rooms : db.rooms[r].open /\ u \in Pair(db, r)

\* activateRoundMatches: a room for two players, a bye for one. A room that cannot be
\* created ends the job.
ActivateMatch(s) ==
  LET i == Earliest(sched[s].todo)
      here == {db.matches[i].a, db.matches[i].b} \ {None}
      rest == [sched[s] EXCEPT !.todo = @ \ {i}]
  IN /\ sched[s].step = "activating" /\ sched[s].todo # {}
     /\ CASE Cardinality(here) = 2 /\ (\E u \in here : Seated(u)) -> End(s) /\ UNCHANGED db
          [] Cardinality(here) = 2 /\ (\A u \in here : ~Seated(u)) ->
               /\ db' = [db EXCEPT !.rooms = Append(@, [match |-> i, open |-> TRUE, winner |-> None])]
               /\ Step(s, [rest EXCEPT !.step = "opening", !.match = i, !.room = Len(db.rooms) + 1])
          [] Cardinality(here) = 1 ->
               /\ Step(s, [rest EXCEPT !.step = "deciding", !.match = i, !.winner = CHOOSE u \in here : TRUE])
               /\ UNCHANGED db
          [] OTHER -> Step(s, rest) /\ UNCHANGED db
     /\ UNCHANGED <<due, left, tx>>

\* createTournamentRoom, after the room: the match that the job has listed is saved
\* over what the match has become.
SaveReady(s) ==
  /\ sched[s].step = "opening"
  /\ db' = [db EXCEPT !.matches[sched[s].match].room = sched[s].room,
                      !.matches[sched[s].match].status = "ready"]
  /\ Step(s, [sched[s] EXCEPT !.step = "activating"])
  /\ UNCHANGED <<due, left, tx>>

EndActivation(s) ==
  LET fresh == sched[s].fresh
      status == IF fresh.finals THEN "finals_running" ELSE "running"
  IN /\ sched[s].step = "activating" /\ sched[s].todo = {}
     /\ db' = [db EXCEPT !.t.status = IF status = fresh.status THEN @ ELSE status,
                         !.t.round = IF sched[s].round = fresh.round THEN @ ELSE sched[s].round]
     /\ End(s)
     /\ UNCHANGED <<due, left, tx>>

repairStuckMatchesFromFinishedRooms(s, i) ==
  LET room == db.rooms[db.matches[i].room]
  IN /\ sched[s] = Idle /\ db.matches[i].status = "ready" /\ ~room.open /\ room.winner # None
     /\ Acquire(s, <<"stuck", i>>, [Idle EXCEPT !.step = "deciding", !.match = i, !.winner = room.winner])
     /\ UNCHANGED <<db, due, left, tx>>

\* advanceWinner: it reads the tournament and, in a repair, the match, saves the match,
\* then the loser, then closes the round (whose own writes are one step here). A bye's
\* match is the one that was listed, still pending.
Reason(s) == IF sched[s].key = TournamentKey THEN "bye" ELSE "forfeit"
Return(s) == IF sched[s].key = TournamentKey THEN Step(s, [sched[s] EXCEPT !.step = "activating"]) ELSE End(s)

ReadMatch(s) ==
  /\ sched[s].step = "deciding"
  /\ IF db.t.status = "cancelled" \/ (Reason(s) = "forfeit" /\ Decided(db.matches[sched[s].match]))
     THEN Return(s)
     ELSE Step(s, [sched[s] EXCEPT !.step = "saving"])
  /\ UNCHANGED <<db, due, left, tx>>

SaveMatch(s) ==
  /\ sched[s].step = "saving"
  /\ db' = decide(db, sched[s].match, sched[s].winner, Reason(s))
  /\ Step(s, [sched[s] EXCEPT !.step = "eliminating"])
  /\ UNCHANGED <<due, left, tx>>

EliminateLoser(s) ==
  /\ sched[s].step = "eliminating"
  /\ db' = eliminate(db, sched[s].match, Reason(s))
  /\ Step(s, [sched[s] EXCEPT !.step = "closing"])
  /\ UNCHANGED <<due, left, tx>>

\* An error ends the job; the group winners are marked by then.
CloseRound(s) ==
  LET i == sched[s].match
      outcomes == checkRoundComplete(db, i)
  IN /\ sched[s].step = "closing"
     /\ IF outcomes # {} THEN db' \in outcomes /\ Return(s)
        ELSE /\ db' = IF db.matches[i].name = "group_final" THEN markGroupWinners(db) ELSE db
             /\ End(s)
     /\ UNCHANGED <<due, left, tx>>

\* The process dies; its lock is gone two seconds later.
SchedulerDies(s) ==
  /\ "crash" \in Troubles /\ sched[s] # Idle
  /\ End(s)
  /\ UNCHANGED <<db, due, left, tx>>

LockExpires(key) ==
  /\ "overrun" \in Troubles
  /\ locks' = locks \ {key}
  /\ UNCHANGED <<db, due, left, tx, sched>>

----------------------------------------------------------------------------
Rooms == DOMAIN db.rooms

Next ==
  \/ openTournament
  \/ StartsAtPasses
  \/ cancel
  \/ \E u \in Players : register(u)
  \/ \E u \in Players : unregister(u)
  \/ \E u \in Players : refundCancelled(u)
  \/ \E r \in Rooms : BeginCommand(r)
  \/ \E x \in tx : FinishGame(x)
  \/ \E x \in tx : AbortCommand(x)
  \/ \E r \in Rooms : \E w \in Pair(db, r) : LeaveRoom(r, w)
  \/ \E r \in Rooms : EndWithoutWinner(r)
  \/ \E s \in Schedulers : ListDue(s)
  \/ \E s \in Schedulers : TakeUpStart(s)
  \/ \E s \in Schedulers : SaveLocking(s)
  \/ \E s \in Schedulers : CancelStart(s)
  \/ \E s \in Schedulers : RefundNext(s)
  \/ \E s \in Schedulers : generateGroupsAndBrackets(s)
  \/ \E s \in Schedulers : Run(s)
  \/ \E s \in Schedulers : processBetweenRounds(s)
  \/ \E s \in Schedulers : activatePendingFinalsMatches(s)
  \/ \E s \in Schedulers : ActivateMatch(s)
  \/ \E s \in Schedulers : SaveReady(s)
  \/ \E s \in Schedulers : EndActivation(s)
  \/ \E s \in Schedulers, i \in DOMAIN db.matches : repairStuckMatchesFromFinishedRooms(s, i)
  \/ \E s \in Schedulers : ReadMatch(s)
  \/ \E s \in Schedulers : SaveMatch(s)
  \/ \E s \in Schedulers : EliminateLoser(s)
  \/ \E s \in Schedulers : CloseRound(s)
  \/ \E s \in Schedulers : SchedulerDies(s)
  \/ \E key \in locks : LockExpires(key)

\* The worker keeps its minute and the database comes back.
Fairness == \A u \in Players : WF_vars(refundCancelled(u))

Spec == Init /\ [][Next]_vars /\ Fairness

----------------------------------------------------------------------------
\* registerTournament, settleTournament and refundCancelledParticipant: the escrow
\* holds the stake of every participant who was not refunded until the prizes take it, every
\* user is out of pocket by his own stake and nothing else, and the
\* prizes and the fee are what was in the escrow: whatever is cancelled, refunded,
\* started again or settled meanwhile.
BooksBalance ==
  LET held == Registered(db) \ db.back
      pot == Stake * Cardinality(held)
      fee == IF db.t.settled THEN (pot * Fee) \div 100 ELSE 0
      first == (pot * First) \div 100
      Prize(u) == IF ~db.t.settled THEN 0
                  ELSE IF u = db.t.winner THEN first
                  ELSE IF u = db.t.runnerUp THEN pot - fee - first ELSE 0
  IN /\ db.escrow = IF db.t.settled THEN 0 ELSE pot
     /\ db.house = fee
     /\ \A u \in DOMAIN db.money : db.money[u] = (IF u \in held THEN 0 ELSE Stake) + Prize(u)

\* advanceWinner and createTournamentRoom: whoever has won a match that was given one
\* room at most has won it for good, though the room may end over HTTP, a repair may
\* advance the match and a stale save set it back to ready; which no save does once the
\* match has its room. (In a second room, opened after a death or an overrun, the match
\* is played anew.)
RoomsOf(d, i) == {r \in DOMAIN d.rooms : d.rooms[r].match = i}
ResultStands ==
  [][\A i \in DOMAIN db.matches :
       LET m == db.matches[i]
           next == db'.matches[i]
       IN m.winner # None /\ Cardinality(RoomsOf(db', i)) <= 1 =>
            /\ next.winner = m.winner /\ next.loser = m.loser
            /\ Decided(m) /\ (m.room # 0 \/ RoomsOf(db', i) = {}) => Decided(next)]_vars

Finals(name) == {i \in DOMAIN db.matches : db.matches[i].name = name}
DrawnOnce ==
  /\ \A i, j \in Finals("group_final") : db.matches[i].group = db.matches[j].group => i = j
  /\ \A i, j \in Finals("grand_final") : i = j

\* handleGroupFinalsComplete, generateFinalsBracket and settleTournament: the winner
\* has lost no match, and the second only the one against him, unless jobs have drawn
\* the groups or the finals twice or opened a match a second room.
PlayedOnce == \A i \in DOMAIN db.matches : Cardinality(RoomsOf(db, i)) <= 1
ChampionUnbeaten ==
  db.t.settled /\ DrawnOnce /\ PlayedOnce =>
    \A i \in DOMAIN db.matches :
      LET m == db.matches[i]
      IN Decided(m) => m.loser # db.t.winner /\ (m.loser = db.t.runnerUp => m.winner = db.t.winner)

\* payments.worker.ts tick: when a tournament stays cancelled, every stake goes back,
\* whatever the participant's status was when it was cancelled, as long as the worker's
\* query reaches the tournament.
CancelledIsRefunded ==
  Ahead < TickLimit => (<>[](db.t.status = "cancelled") => <>[](db.escrow = 0))

\* tournament-finance.integration.spec.ts "serializes cancellation against final settlement
\* without paying and refunding together".
PaidOrRefunded == ~(db.t.settled /\ db.back # {})
=============================================================================
