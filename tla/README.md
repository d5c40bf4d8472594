# A formal model of the Play4Cash API

TLA+ modules about the parts of this repository where money and matches depend on
the order of events: withdrawals and deposits in USDT, the commands of a game room, the rooms
themselves with their stakes and their six games, and tournaments. TLC checks them on
small instances; TLAPS proves the main results for every instance.

Only code is modelled. Where a document, a comment or a test promises something, the
promise is a property, and where the code does otherwise the run is listed under
*Disagreements*.

## 1. The system

A NestJS API (several replicas, one MongoDB replica set, Redis for broadcasting) and a
payments worker that shares its database. Players use HTTP and Socket.IO. The model is
of the deployment with `FINANCE_V2_ENABLED` and `RELIABLE_COMMANDS_ENABLED`.

| Part | State it keeps | Operations | What is hard | What makes it correct | Module |
|---|---|---|---|---|---|
| Withdrawals (`payments.service.ts`, `payments.worker.ts`, `payments-admin.controller.ts`) | `finance_orders`, `finance_challenges`, `finance_requests`, `finance_resolution_requests` | request, verify, submit, reconcile, review, resolve | several loops take the same order; provider answers late or never; crash between the payout and its id | one payout per order, money returned only if it was not sent, every order ends | `Withdrawals` |
| Ledger (`ledger.service.ts`) | `finance_journals`, `finance_accounts` | `post` inside a transaction | operations repeated; different operation ids for one reserve | balances never negative, books equal the orders | in each |
| Room commands (`reliable-commands.ts`) | `rooms.command_revision`, the game, `game_commands` | player command, server command, join, disconnect | repeats, version conflicts, rejections stored beside acceptances | applied once, one mutation per revision, answers equal receipts | `ReliableCommands` |
| Outbox (`reliable-commands.module.ts`) | `game_outbox` | fetch, deliver, mark | many publishers, crashes, clocks | nothing lost, first deliveries in order | `ReliableCommands` |
| Match start (`match-start.ts`, `game-start-coordinator.ts`) | `start_protocol`, acknowledgements, deadlines | acknowledge, cancel, start | deadline against the last acknowledgement | never both cancelled and played; a cancelled match is refunded | `ReliableCommands`, `GameRooms` |
| Rooms (`room.service.ts`), game finance (`game-finance.ts`) | `rooms`, `rooms.finance_*`, journals | create, join, spectate, ready, leave, stake, refund, settle | three callers of one settlement; stakes spent elsewhere | stakes in equal prizes and refunds out, once | `GameRooms` |
| Turn deadlines, grace periods | `turn_deadlines`, `grace_periods` | start, cancel, sweep | leases of 30 s, handlers that fail or are refused, rows rewritten meanwhile | a new countdown survives the sweeper of an old one | `GameRooms` |
| Connect four, naval battle, halma, chess, domino, UNO | one collection per game | moves, draws, passes, forfeit, timeout | turns against timers, players who leave, boards that change in several places | the result follows from the board; nothing is lost from it | one module each |
| Tournaments | tournaments, participants, matches, their rooms | register, draw, play, close a round, settle, cancel, refund | a scheduler without transactions beside commands with them | escrow pays out what came in, results stand, champions are unbeaten | `Tournaments` |
| Deposits (`payments.service.ts`, `payments.worker.ts`) | `finance_orders`, `finance_ipn`, `finance_resolution_requests` | request, submit, notify, poll, resolve, credit | requests that fit the limit only alone; old answers written late; notifications lost, early or repeated | one payment per order, credited once and in full, the limit | `Deposits` |
| Sessions, idempotency, rate limits | sessions, request records | - | expired claims | - | not modelled |
| Former recharges and withdrawals, treasury, mail, push, translations, health, audit, statistics, catalogue | their own records | - | - | - | not modelled |

How they interact. A gateway's handler runs inside `executeReliableAction`: the room's
revision, the game, the receipt, the stakes and the outgoing events commit in one
transaction (`AsyncLocalStorage` carries the session). The outbox publishes the events
every 100 ms on each replica, in the same round that expires preparations and takes up
lost connections. Sweepers (turns, grace) call the gateways' `executeForfeit` and
timeouts, which are server commands. A finished room is settled in the command, by the
cancellation, or by the worker's minute tick, through the ledger. A tournament's match
ends in the command of its game; its scheduler opens the rooms, closes rounds after byes
and repairs, and starts or cancels tournaments, without a transaction. HTTP handlers and
the worker meet only in the database: each filters its update by the status it expects.

`PROJECT.json` lists every component and every hazard at its line, and the properties
that cover it.

## 2. Modules

| Module | What it is |
|---|---|
| `Withdrawals`, `WithdrawalContract`, `MC_Withdrawals` | a withdrawal in detail; what it promises (open, held, and then returned, or delivered and paid); its small instances |
| `Deposits` | the deposits of one user |
| `Payments`, `MC_Payments`, `PaymentsProofs` | withdrawals beside deposits; small sets of both, in one run; theorems about both |
| `ReliableCommands`, `CommandContract`, `MC_ReliableCommands`, `ReliableCommandsProofs` | commands, outbox, disconnects and match start of a room; what a command promises (decided once, in the history once and at a revision of its own if accepted, none accepted once the match is finished); instances; theorems |
| `GameRooms` | what every game's room shares: seats, stakes, barrier, sockets, countdowns, sweepers, settlement |
| `RoomContract` | what a room promises about its stakes: gathered, held, live, and then awarded or returned |
| `ConnectFour`, `NavalBattle`, `Halma`, `Chess`, `Domino`, `Uno` | a gateway and its rules, over `GameRooms`, with its own `Next` and `Spec` |
| `GameRules` | what the moves of connect four, naval battle, halma, domino and UNO promise, read from the room and the document alone, so that one definition serves every board, every fleet, every set of tiles and every deck |
| `ChessRules` | the chess of `chess-game.logic.ts`: where a piece may go and what a move makes of the document; what its moves promise (`KingsSafe`). `Chess` is the gateway over it |
| `MC_Games` | nineteen small rooms of the six games, in one run |
| `GameRoomsProofs` | lemmas about the shared steps: what they do to the money, and to the document of a game |
| `BoardGamesProofs`, `ChessProofs`, `DominoProofs`, `UnoProofs` | theorems of each game; connect four, halma and naval battle share the first |
| `Tournaments`, `MC_Tournaments`, `TournamentsProofs` | a tournament from draft to prizes; seven small ones; theorems |

### Withdrawals

`status`, `reason` and `providerId` are fields of an order; `challenge` is its emailed
code (attempts, consumed, lapsed); `receipts` the requests that verified it; `journal` and
`account` the ledger. `proc` holds every running handler with its place in the code and
the local values it uses later. `verdict`, `payouts` and `payout` are the provider's.

Each `await` between two database operations separates two actions; a MongoDB
transaction is one action; `Abandon` ends a handler at any such point, for a crash or an
exception. So `submitWithdrawal` is `BeginSubmit`, `ClaimOrder` (or `HoldForReview`),
`CreatePayout`, `ReceiveReply`, `PersistIds`, `VerifyPayout`, `MarkProcessing`, with
`RefundRefused` and `MarkUncertain` for the catch block. An update filtered by a status
is `Cas`: nothing happens if the status has changed. `Post` is `LedgerService.post`: an
operation id that exists is a no-op (and a conflict if its postings differ), a debit
needs the balance.

Abstractions. An order's content is fixed at its insertion, so its fingerprints always
match and only the existence of receipt and journal is checked. A payout is named by
the order in its `unique_external_id`. Amounts are small numbers. The 24 hours of the
limit do not pass, which counts every confirmed order: the strictest case.
`liquidityRetryAt`, the rate limit slot and provider errors before the claim are steps
that end the handler (`Abandon`). A reply is lost, late (`ProviderAnswers` after
`ReceiveReply` gave up), or a refusal of the kind `NowPaymentsRejectedError` names.
`resolveUncertain` is one action: its last update checks again what its first read saw.

### Deposits

`status`, `providerId` and `credited` are fields of an order; `requests` are the open
transactions of `deposit`, with the total they read from their snapshot; `submit` is where
`submitDeposit` is with an order (only one worker can have claimed it); `inbox` and
`processed` are `finance_ipn`, an entry being a payment and the status in its body; `run` is
what each worker's tick holds of `reconcileDeposit`: the order, the notification it came
from, and the provider's answer. `call`, `created`, `payment` and `settled` are the provider's.

A request writes the user first (`BeginRequest` needs the user free) and inserts or refuses
later (`EndRequest`), from the total it read then. The credit writes the user as well, so it
waits for an open request. `BeginEvent` or `BeginPoll`, `AskProvider`, `RecordStatus` or
`Credit`, and `MarkProcessed` are the steps of a reconciliation; `Abandon` ends it anywhere,
and leaves the notification in the inbox.

Abstractions. One user: limits and accounts are per user. A repeated request (same key)
returns the order and changes nothing. The 24 hours do not pass, which counts every order:
the strictest case. Minimums, networks, the rate limit slot and the switches are steps
that may not happen. The provider has one payment per order; a payment goes forward until it
is finished or dead, and does not come back from `expired`. The status `review` is read by
the code and written by nothing for a deposit.

What the code does there, and no document excludes: a notification that is handled before
`submitDeposit` has stored its payment takes the order out of `submitting`, so its address is
never stored; the inbox takes its thirty oldest entries, and entries that always fail (an
outcome that is not USDT) stay among them.

### ReliableCommands

`room` has the phase of the match (from `status`, `start_protocol`, `play_started_at`),
the command revision and the acknowledgements. The game itself is `log`, the set of
mutations with their revisions: what matters is which commands changed it and when.
`receipts` is `game_commands`; a payload is represented by the version in it, so the
same id with another version is another payload (`COMMAND_ID_CONFLICT`). `answers` are
the `command_ack` events, with a mark on those that come from the execution, not from
the pre-check. `told` remembers that the end of the game was announced outside a commit.

`executeReliableActionImpl` is `Replay`, `Accept` or `Decline` (the transaction), then
`StoreRejection` and `SendAnswer`. Server commands differ as in the code: rejections are
not stored, stored ones are replaced, a start without events is declined. A game's
own decision is a choice (`Leads`): in a match a command ends it or does not, and a forfeit ends it.

The check of the match (`canPlay`) is about a preparation only: in a room that waits, or that was
closed before its match, a player's command passes it. A forfeit or an end of turn finds no match
there, returns, and is stored as accepted at the next revision; so `Accept` has these phases too,
and the contract forbids acceptances only after the end. `handlePlaceShips` passes without any
check: `Placements` are such commands, in a waiting room, the last of which starts the preparation.

Abstractions. One room of start protocol 1 (rooms of the older protocol have no
preparation). REST room actions (join, leave, ready: commands with a fresh id, retried on conflicts), read
snapshots and the queue limits are left out. Every process serves every namespace, so
`deliverDurableEvent` finds it. A disconnect row has one execution per handler that
takes it up. The stamp of an event is the revision less the lag of the replica's clock,
at most `ClockSkew`. `Legacy` holds a rejected start that an earlier version of the code
may have stored: both initial states are explored.

### GameRooms and the games

`db` is what MongoDB holds: `room` (status, seats, ready, spectators, `game_ready_at`,
acknowledgements, `play_started_at`, winner, cancelled, settled), `game` (the game's
document, a record of the game's own module with the player to move in `mover`), `clock` and
`grace` (the rows of the two sweepers), `paid` and `back` (the journals `room:stake` and
`room:refund` of each player) and `money` (the accounts). `online` are the sockets in the
room, `lost` the durable disconnects, `sweep` the two sweepers inside a row.

That a handler is applied once and at one revision is what `ReliableCommands` checks, so
here a handler is one step: an operator from a database state to the next
(`Finish(d, w)`, `Cancel(d)`, `Charge(d, ps)`, ...), and `Commit`, which also runs the
settlement that `executeReliableAction` ends with. `CanSettle` is where the settlement
throws and undoes the command. A sweeper is not one step: it claims a row (`ClaimClock`,
`ClaimGrace`), reads the version (`ReadVersion`), runs the handler (`Handler`), is refused
because another command came between (`Refused`, which the sweeper takes for success) or
fails (`HandlerFails`), and deletes or re-arms the row if it is as it was claimed
(`Release`). `SweeperDies` is a crash at any of these places. `Handler` has a parameter for the four gateways
that announce a forfeit with `success: false`, which undoes it when a socket hears it.

A game's module gives the shared actions what its gateway does: the deals of a start, what
remains of the room when a player departs, disconnects or quits, its timeout, and its
moves as actions. Names are the gateway's: `handleDropDisc`, `handlePlaceShips`,
`eliminatePlayer`, `startNextRound`.

Abstractions. One room. One sweeper of each kind is inside a row at a time; a
second can only repeat a claim that lapsed, which `SweeperDies` gives back. The seat
number that gateways cache in the socket is not modelled: in halma a member whose socket has not
joined moves as player 1 (`client.data.playerNum || 1`), in the model as himself. Between two rounds
UNO's lock, its look at the room and its save are one step; a save in between is a version error,
after which nothing is written. `processForfeit` of naval battle (not awaited) has done nothing, its first half or all. `missing-game-recovery` finds no
room, because a start publishes room and game in one transaction. The fee and the stake
are whole cents. Time is a row that runs out (`running` to `due`) and `aged`, for a turn
whose `turn_timer_seconds` have passed. Domino's boneyard and UNO's draw pile are sets:
any of their elements may be the next, which includes every shuffle. Chess keeps the whole
board and every rule of the code; an instance plays given openings and then any legal move.
Chess stores whatever a client asks a pawn to become, and looks at one king only
(`isCheck`): `irregular` marks a match with a piece that the rules of the catalogue do not name, and
`KingsSafe` says what holds with it and what without. Halma's `must_end_turn` and naval battle's messages about the turn are written for the
clients and never read.

What the code does there that surprised us, and is in the model as it is: a naval
battle over HTTP starts without a stake of the player who has not placed (who then stakes
late), asks nobody whose turn it is when a shot is fired, and leaves stakes behind in the
lobby when the unawaited `processForfeit` commits half (they are returned when the room
ends); halma may empty both sides at once; UNO accepts plays between two rounds, and a
scheduler that dies in `startNextRound` leaves `between_rounds_processing` set, after which
only a forfeit or a timeout ends the match; a refused forfeit (disagreement 3) still loses its
grace row.

### Tournaments

`db` holds the tournament, `parts` (participants in the order of insertion), `matches`,
`rooms`, and the accounts; `back` the refund journals. `tx` are commands of games between
their first read and their commit, `sched` the jobs of the schedulers with what they
remember, `locks` the keys in Redis.

A command is a MongoDB transaction: it reads a snapshot (`BeginCommand`), computes
everything from it (`FinishGame`: `advanceWinner`, `checkRoundComplete`, the bracket of the
finals, the settlement), and commits if no document that it writes was written since
(`Conflicts`), or begins again (`AbortCommand`). The scheduler has no transaction: each
read and save is an action, and a Mongoose `save` writes only the fields that differ from
what the job read (`fresh`). So a match gets its room in two steps: `ActivateMatch` creates it,
`SaveReady` saves the match, from the list that the job read, over whatever became of it. Its
lock is a key of two seconds that a slow job outlives (`LockExpires`) and then deletes,
whosever it is by then (`End`). `SchedulerDies` is a crash between any two saves; an error
of a save ends a job at the same places. A room of a player who is in an open room already
is refused by the unique index of `room.schema.ts:95` (`Seated`), which ends the job: after a death
between room and match the second room comes only once the orphan is over.

The troubles (`Troubles`) are the six that an instance may have: locks that expire, deaths, players
who leave their room over HTTP, rooms without a winner, cancellations, and `"swift"`: a game that is played
while the job has not saved its match yet.

Abstractions. Users register for the first time in the order of their numbers: they are
interchangeable. A player in an ordinary room refuses the tournament's room just as well, which
ends the job where `SchedulerDies` may end it. A player who left the lobby of his room still
counts as there. Documents of groups and `gross_prize_pool` are left out; no decision reads them. The writes of a job that closes a round or draws the bracket are one step; `repairBrokenMatchRooms`
looks for ready matches without a room, and finds none: with reliable commands an empty lobby is
finished, never deleted. `Ahead` is the number of cancelled tournaments that the worker's query returns
before this one: it takes thirty, in no order, and those it has refunded stay among them.
Reads of a snapshot detect conflicts by value: a document that was written and has its
old value again is not a conflict, which allows more than MongoDB does. What a room
does inside is `GameRooms`; here it ends with a winner, or without, or over HTTP without its
match hearing of it. `buildFinalsDefs` is the first round only, because the code skips
matches that have no player yet.

What the code does there, and no document excludes: with eight players or more no later
round of the finals is ever created, so there is no grand final and the prizes stay in escrow;
a match whose room ended without a winner is never played again; a match that got a second room is
played anew and may change its winner; with thirty cancelled tournaments before it, refunded or not, one is
never refunded by the tick; two games of a round that end together may each see the other pending, and then
neither closes the round (no property says that rounds are closed); a crash after a match was
saved and before its round was closed, or between `locking` and `running`, is not taken up by any
job; a round that a repair and a command close together gets its finals twice. The
schema of a match allows five groups at most (`group_number`), so no
tournament of sixteen or more is drawn at all; the instances stay below.

## 3. Runs

TLC, two workers. `expect` and the list of properties are in `PROJECT.json`.

| Run | Instance | Shows | States |
|---|---|---|---|
| `payments` | below | one payout and one payment, no refund of a live payout, closed stays closed, one release although the account would cover two, books, both limits | 1.7 M |
| `payments_live` | 1 withdrawal, one process of each kind; or 1 deposit, 2 reconcilers; fair | submissions, reserves, lapsed codes and decided payouts come to an end; a notified deposit is credited; the contract of a withdrawal | 12 k |
| `withdrawal_verify` | 1 withdrawal, one process of each kind, fair | disagreement 1 | - |
| `deposit_lost` | 1 deposit, 2 reconcilers, fair | disagreement 5 | - |
| `commands` | a move sent with two versions, a forfeit, a placement, 2 handlers, revision 4, no publisher and no connection, up to `CommandView` | applied once, one mutation per revision, answers, cancellation, the contract | 971 k |
| `rooms` | 1 connection, 2 handlers, 2 publishers, batches of 2, revision 1 | order and loss of events and disconnects | 1.2 M |
| `rooms_live` | 1 connection, 1 handler, 1 publisher, fair | delivery, completion, end of the preparation | 16 k |
| `repeat`, `told` | 2 commands, 2 players, 2 handlers | disagreements 2 and 3 | - |
| `games` | 19 rooms, below | money of every room, `RoomContract`, countdowns, and the rules of each game | 848 k |
| `tournaments` | 7 tournaments, below | escrow, results, champions, how often it is drawn, refunds of what stays cancelled | 264 k |
| `tournament_refund` | 3 users, 2 places, 1 scheduler | disagreement 4 | - |

`payments`. The variable `kind` picks withdrawals (`Withdrawal`: one order with two handlers,
two workers, two reconcilers and two attempts, or two orders of one user and one amount with
one process of each kind; `SmallNext` keeps to these two), one deposit with two reconcilers
and a payment that goes through `confirmed`, `sending`, `finished` or `expired`, in USDT or not
(`Single`), or two deposits of which one fits the limit, with one reconciler and payments that
are finished or expired at once (`Pair`). `Deposits` has one set of orders and one of reconcilers
in each of these: `OneDeposit` and `OneReconciler` say what a kind leaves unused, as `SmallNext`
does. The system that a kind is not about stays in its initial state. `payments_live` has the payment statuses `waiting`, `sending`
and `finished` only: `sending` stands for all that are not polled, `waiting` for all that are.
The contract of a withdrawal is checked on one process of each kind, and proved for any number.

Why the bounds of withdrawals and commands are enough. Two processes of each kind are what it takes for one to act on what
another has changed; every check in the code compares with the last state only, so a
third would repeat the second. Two orders of equal amount let either pass the limits
alone. Each command can be executed any number of times: only the number at the same
time is bounded. `MaxRevision` bounds the commits of players and server; the
disconnect, the barrier and a cancellation may still follow, so the reachable
revisions are few. Revision 4 is the start, the barrier and two commands. The run `commands`
has a `VIEW`: without publishers the outbox is only written, and the answers of
`RefuseInactive` (`stored` is FALSE) are read by nothing the run checks, so states that
differ in these alone are explored once. `CommandView` keeps everything a step of that
instance or one of its five properties reads, and cuts no behaviour off. `FleetsFirst` is a
bound: the placement is sent before another command runs, which is when it can be accepted. Batches of 2
cut the events of a command in two. The proofs have none of these bounds, except that
`DeliveredInOrder` needs `ClockSkew = 0`: with a skew of 1 it is false, and the
repository promises nothing there.

`games`. The variable `kind` picks the room of a behaviour. Each game has a room with little
to play, where sockets are lost (`MaxDrops`) and rows run out (`Expiring`), and one with more to
play, where they are not:

| Kind | Room |
|---|---|
| `C4a`, `C4b` | 2 cells and 1 cell, which end in draws; two sockets lost and both timers; spectators, and stakes spent before the start |
| `C4c` | 4 rows, 4 columns, so that a line of four in each direction fits |
| `NBa`, `NBb`, `NBc` | 1 cell with grace, 1 cell with turn timer, 2 by 2 with a ship of 2 |
| `HAa`, `HAb` | side 2; side 4 with the squares `Entered`, which allow captures, a second jump, a king and an emptied board |
| `CHa`, `CHb` | no move, both timers; six openings (mate in two, check, castling, en passant, promotion, the stalemate in ten moves) and any one move after each, with promotions to a queen, a king and a pawn |
| `DOa`, `DOc`, `DOb`, `DOd` | 3 tiles and hands of 1 with each timer; 6 tiles and hands of 2; three players |
| `UNa`, `UNb` | 3 cards, with each timer |
| `UNc`, `UNd`, `UNe` | draw two and skip or reverse; a wild that draws four; three players; two rounds (`MaxRounds`) and a pile that runs out |

The stake is 10 and the fee 15 %, so the fee rounds. The players `a` and `b` are
interchangeable (`SYMMETRY`); the properties are invariants and boxes. The theorems show the
money and the countdowns of the six games without these bounds, and the rules of connect
four and of halma for a board of any size, the tiles of domino for any set of them, the cards
of UNO for any deck, the moves of chess for any opening and any number of moves, and the fleets of
naval battle for any sea and any sizes of ships.

`tournaments`. `Duel`: two places, three users, one of whom may unregister, every trouble but
overlapping jobs. `Overlap`: two schedulers, locks that expire and players who leave over HTTP, cut
after two matches and two rooms (`OverlapBound`), which may be of one match. `Pairs`: two groups, two
commands at the same time, deaths. `Byes`: two groups that need not be full, players who leave over HTTP,
repairs, deaths between a room and its match; three rooms, so that the final gets a second one
(`ByesBound`). `Late`: the same groups with overlapping schedulers instead, cut after four matches and two
rooms (`LateBound`). `Eight`, `Sparse`: four groups, full and with two users. Rounding occurs (stake 7, fee
15 %, first place 55 %). `"swift"` is in `Duel`, where it is enough that the room of the one match ends
before the match is saved; the theorems have it everywhere. `Ahead` is 0.

`ResultStands` speaks of a match with one room at most (`RoomsOf`); after a second one it is played
anew. `ChampionUnbeaten` presumes this of every match (`PlayedOnce`), and that the groups and the
finals were drawn once (`DrawnOnce`): the scheduler's job closes a round outside a transaction, and a
round that it and a command close together gets its finals twice. Where it decides no match (`Duel`,
`Pairs`, `Eight`) that cannot happen, and `FinalsDrawnOnce` says so. A second room needs a death or an
error between a room and its match, or overlapping jobs.

`CHECK_DEADLOCK FALSE`: closed orders, finished rooms and tournaments may have nothing
left to do.

Fairness. The worker's `@Interval`/`@Cron` and the outbox's `@Interval` run for ever, so
an order or a row that stays selected is taken up again (strong fairness of the
take-up and of each following step: outages end, and a handler that starts over and over
is not killed at the same point for ever). `SubmissionTimedOut`, `ExpireVerification` and
`CancelExpired` are single updates of a timer: weak fairness. A handler ends, done or
dead (weak). `refundCancelled` is the worker's minute tick over cancelled tournaments, which takes
thirty of them in no order: weak, and only where the query reaches this one (`Ahead < TickLimit`), as
`CancelledIsRefunded` says. Participants are taken by the hundred, but those refunded are left out.
Nothing is assumed of players, administrators, schedulers, or the provider: a payout that
it never decides on is never settled, and `DecidedPayoutSettles` says so. Interrupting
`ClaimOrder` by `HoldForReview` is allowed by `NoOrderForgotten`. For deposits: taking up a
notification, polling, asking and applying an answer are strongly fair for each order, and a
transaction and a run end (weak; MongoDB limits the one, a crash the other); that a notification
comes at all is not assumed. Rooms and games have no
liveness property: a player who neither moves nor leaves is stopped by his deadline only if
he has a socket on the replica that schedules it.

Every property has a mutant of the code, a definition in the module marked *Mutant*,
that violates it.

## 4. Disagreements

1. `KnownPayoutIsVerified` (`payments.worker.ts:292`): a payout bound by an
   administrator stays `uncertain` and is never verified again; the runbook says the
   worker repeats the verification of a known batch.
2. `RepeatReturnsReceipt` (`reliable-commands.ts:182`): a repeat of the accepted command
   that ended the match is answered `MATCH_NOT_ACTIVE`; the runbook says that it returns
   the earlier result. The receipt is still there for `command_status`.
3. `ToldAfterCommit` (`reliable-commands.ts:62`): four gateways announce a forfeit with
   `success: false`, which is what `durableEmit` takes for a rejection: the forfeit is
   undone and announced.
4. `PaidOrRefunded` (`tournament-scheduler.service.ts:76`): the scheduler saves `locking`
   or `running` over a cancellation that came after it had read the tournament, also when a
   participant has been refunded; the tournament is played and pays its prizes. A test and the
   runbook say that cancellation and prizes exclude each other. The books still balance
   (`BooksBalance`): the prizes are what is left in escrow.
5. `FinishedDepositIsCredited` (`payments.worker.ts:131`): a deposit whose status `sending` was
   recorded is polled by nothing. If its last notification is lost it is never credited. The
   runbook says that what is pending is reconciled every minute, and a comment that a
   notification only wakes the worker up. `NotifiedIsCredited` holds: one that arrives suffices.

## 5. Proofs

All theorems are of `Spec` (of `PaymentsSpec` for the deposits, of the `Spec` of its game for a
room), for every value of the constants that `WithdrawalAssumption`, `DepositsAssumption`,
`CommandAssumption`, `RoomsAssumption` or `TournamentAssumption` allows. Some have a hypothesis of
their own. One is about what goes wrong outside: no skew of clocks in `DeliveredInOrderHolds`
(section 3). The others are about the games. `BoardAssumption`: there is a
row and a column, and the room has two seats, as the catalogue gives this game, for the match is
between `players[0]` and `players[1]` only. `HalmaAssumption`: the two sides have a row of pieces
at least, and their rows do not meet. The code has 6 by 7, and side 8 with 3 rows. `DominoAssumption`: there
is a tile for each seat; the code has 28, and ten seats at most. `ChessAssumption`: an empty square is no
piece; a pawn may become whatever is sent. Naval battle has `FleetAssumption`, there is a sea and a ship, and ships have
cells, and `Seats = 2`: the catalogue has two players for it (`game-catalog-rules.ts:154`), and its
gateway speaks of the opponent of one. TLC evaluates them for the instances. The temporal step is
always the same: initial states, steps, conclusion, then PTL.

`PaymentsProofs`, withdrawals. `TypeOK` alone is inductive (`TypeCorrect`). The safety properties
are not: a worker about to refund must know that no payout exists. `IInv` adds

- `ReserveInv`: an order that holds money has its receipt and its reserve journal;
- `ReleaseInv`: only a closed order has released its reserve, by a single journal: this
  is why `reject`, `provider-reject` and `settle`, which the ledger would not
  tell apart, exclude each other;
- `ProviderInv`: what the provider knows of an order and what the order knows of it;
- `ClaimInv`: one worker at most is past the claim of an order, because a claimed order
  never becomes `reserved` again;
- `WorkerInv`, `ReconcilerInv`: what a handler may rely on at each place.

From it: `PayoutCreatedOnceHolds`, `ReleasedOnceHolds`, `ReturnedIsNotPaidHolds`,
`PaidIsDeliveredHolds`, `OnlyAuthorizedIsSentHolds`, `ChangedFeeIsNeverSentHolds`,
`ClosedStaysClosedHolds`, and `Refinement` to the contract.

The books and the limits are sums over all orders, so they need lemmas about
`SumFunctionOnSet`: it is a fold, a recursive function on numbers of a choice of elements, and
what it says of a set and one more element is shown from a least counterexample
(`LeastNatural`), as the induction theorems of the library cannot be instantiated. `SumAdd`,
`SumRemove`, `SumSame`, `SumGrows` follow. `LimitInv` adds to `BooksMatchOrders` and
`UnreviewedWithinLimits`, which are inductive together with `IInv`,

- `JournalInv`: no journal is of an order that has not reserved;
- `FiniteInv`: the orders that exist are finitely many, however many there may be.

From it: `BooksMatchOrdersHolds`, `UnreviewedWithinLimitsHolds`.

`PaymentsProofs`, deposits. `DepositsBalance` and `DepositsFitLimit` follow from `DepositInv`:

- `PaymentInv`: what the submission, the call and the payment of an order know of each other; a
  call is made once;
- `AnswerInv`: the answer that a worker holds is of a payment that exists, and if it is a last one
  it still holds. So an old answer that is written late never says of a finished payment that it
  is dead, or of a dead one that it is finished;
- `LedgerInv`: there is a journal for each confirmed order and no other, the order was credited
  what its payment settled, and the account has their sum;
- `RequestInv`: at most one request is open, and the total that it read is no less than what is
  asked for by the orders that are counted and whose payment is not dead (`Live`). Without
  `Live` it is not inductive: an order may leave the total, by a payment that expires, while
  the request is open; it cannot come back.

From it: `DepositsBalanceHolds`, `DepositsFitLimitHolds`.

`ReliableCommandsProofs`. `TypeOK` is proved (`TypeCorrect`) and in no run; `Typed` is `TypeOK` with what a running handler holds
(`RunInv`) and the kind of event that is an answer (`AckTyped`). `IInv` adds

- `LogInv`: revisions are unique and bounded by the room's, accepted receipts are the
  log's entries, and no two receipts share a command;
- `PhaseInv`: what the log may contain in each phase: before a match only what changes no game (`Unplayed`);
- `AnswerInv`: a handler about to answer carries what is stored, and so do the answers
  sent and the answers still in the outbox;
- `OutboxInv`: what is marked was delivered, and a publisher marks what it delivered;
- `DisconnectInv`: a handler that closes a row has a committed callback behind it.

`DeliveredInOrderHolds` needs one more, `OrderInv`: the events a publisher has not yet
delivered from its batch are preceded only by delivered ones or by events of the same
batch, and new events come last, since with equal clocks stamps grow with revisions.

`GameRoomsProofs` and the modules of the games. All but naval battle, to which we come below, share
one argument about their money. `StakesBalance` is not inductive: nothing in it says why a room that finishes has the stake
of every seat, or that the escrow of a match in play has not been touched. The
inductive invariant is `Good`:

- `Books`: an open room holds the stake of each player who paid, nothing went back and the
  house has nothing (`OpenBooks`); a finished one is settled (`ClosedBooks`);
- `Lawful`: a published match is started and has a stake of every seat, and somebody has a
  seat; before it there is no row for a sweeper;
- and so the sweepers rest in the lobby.

A command leaves a state in between, before its settlement: `Lead`. The lemma about the
settlement takes `Lead` to `Good`, and the lemmas of the shared actions (`JoinKept`,
`LeavingKept`, `AbsenceKept`, `HandlerKept`, `MoveKept`) show that each command is a lead. What a
game may do to a room in play is `Plays`: leave the money alone and go on, or finish with a
winner who has a seat, or, when it returns the stakes, with none. So a game's module proves
only that its moves play (`Turned` for those that change nothing but the game), and that its
departures do. Each step also is one of the five things that `RoomContract` knows
(`Promise`: `Still`, `Gathers`, `Confirms`, `Awards`, `Returns`), and respects a countdown
that runs (`GraceStep`). From them, for each of these five games: `...Good`, `...StakesBalance`,
`...RefreshedRowSurvives`, `...ImplementsContract`. The rules of the games enter these only
through the winner they may name; nothing is assumed of their boards.

The money of naval battle needs an argument of its own, because its HTTP placements start a match
that only one player may have paid for. `Lawful` is then false: a started room need not have a
stake of every seat, and a turn may be timed before the battle is on. `NavalGood` keeps `Books`, which
`StakesBalance` follows from (`BooksBalance`), and says instead why nothing is lost meanwhile:

- `Afloat`: a battle is played only after it was made ready, and a room that is not ready is
  `Moored`: no timer of it has been found over and nobody counts down in it;
- `Calm`: until then no sweeper is about to run a handler; the one of the turns may hold a row,
  which it lets go. A timeout or a forfeit could otherwise end such a room with a winner before
  the match was live.

A battle ends with a winner only after it has been live, and the pot is then what came in. So each step
is one of `PromiseLate`, the same five with stakes that may still come in after the start and a
winner who need not be among those who paid, and `Late`, the contract with `late <- TRUE`, is
implemented: `NavalStakesBalance`, `NavalRefreshedRowSurvives`, `NavalImplementsContract`. With three
seats the model itself has no meaning, as `Opponent` has no value.

The rules themselves are proved for the six games. Most steps do not know the game: they leave its
document, its seats and its result alone (`Quiet`), or put a new document there for seats that are
taken (`Dealt`). `GameRoomsProofs` shows that of each shared action, and with it that no player has
two seats (`Orderly`), so that the opponent of one is the other. What remains is the moves.

- `HalmaPiecesDecide`, from `PiecesInv`: there is no document, or it has its fields and a square for
  each dark one, and the three clauses of `PiecesDecide` hold. A move carries a piece from one square to
  another, so both sides keep what they have; only `handleEndTurn` takes pieces away, and there
  the code counts what is left.
- `ConnectFourDiscsDecide`, from `DiscsInv`. `Decides` is `DiscsDecide` for two players by name.
  Three facts carry it: a disc lands on the lowest free row (`LowestRow`, a least element, and
  `DropRests`); a drop adds one disc of the mover (`DiscsCount`); and a line that was not there
  before goes through the new cell, and is then one that `checkWinFromCell` counts, in either
  direction from there (`LineWins`, `DropLine`).
- `DominoTilesConserved`, from `DominoInv`: before the match there is no document; in it `Table` says where
  the tiles are (`Parts`) and that the chain closes (`Chain`), and as long as it goes on the player to
  move and at least one other are not out (`Going`). `Going` is why the turn can pass: `Following`
  walks the seats in either direction until it meets one who is not out (`FollowingFree`), and
  `getDominoGameResult` ends a match with one player left before the next turn (`ConcludeTiles`).
  A tile that is laid shows the number it fits twice and its other half once, which is the
  new end (`LaidChain`). `DominoAssumption` asks for a tile for every seat, as `deal` refuses more than ten
  players: then each hand has a tile and somebody starts (`StarterSeated`).
- `UnoCardsConserved`, from `UnoInv`: a room has no document, or one in which the
  hands and the piles share out `Deck` (`Spread`, `Piled`), a stack stands on a card that draws
  (`Stacked`), and, until the room is finished, the player to move is in the round with somebody else
  (`Going`) and what was declared fits the hands (`Told`). `CardsConserved` names no deck and so is not
  inductive: nothing in it bounds the cards of the next deal; it follows because hands and piles are the
  whole of `Deck`. Each move is cards that go between one hand and
  the piles (`SpreadMoved`), `drawNCards` taking cards of the pile, or all of it and some under the top
  (`DrawnCards`); `called` and `offender` survive a move because a hand of the others does not change.
- `ChessKingsSafe`, from `ChessInv`: there is no document, or `Ruled` holds of it, for the side to move: it
  is a `Position`, and, until the room is finished, one where that side can move and the kings are not
  alone; after it, a side that cannot move has lost if its king is found attacked, and nobody has won if not.
  In a `Position` no side is without a king, an only king (`Lone`) of the side at rest is not attacked (`Safe`),
  and the square that a pawn passed is empty, with the pawn before it (`Passed`); while no pawn has become a
  piece that the rules do not name (`irregular`), each side has one king, and a right to castle has its king at
  home (`Castles`). `isCheck` looks forward, through the moves of every piece, and `Safe` looks back
  from the king; they agree and depend on the board alone (`CheckStrikes`, from `WayBack`, `StepBack`,
  `HitsStrikes`, `StrikesHits`, `TakesKing`). So a legal move leaves its own king safe (`LegalAfter`), and
  none takes an only king, because that of the side at rest is not attacked (`Target`); a second king may be
  taken, and may stand in check, because `isCheck` looks at the first one found. The code tests a
  move before it brings the rook of a castle or promotes the pawn; neither lays anything open
  (`RookCovered`, `PromotionCovered`, by `StrikesKept` and `Corners`). So moves lead from positions to
  positions (`Applied`), beginning with the first board (`Opening`, `Sheltered`).

- `NavalFleetsDecide`, from `BattleInv`. `FleetsDecide` does not say all that it rests on: that a lobby has
  one player at most and a started room two (so whoever leaves a lobby takes all placements with him, and
  the second placement is the last), and that shots are of a room that was started (`Battle`). Nobody is asked whose turn it is, and the proof does not need it: a shot that sinks the last ship
  finishes the match for whoever fired (`FireBattle`).

`TournamentsProofs`. `BooksBalance` is not inductive: a command commits what it computed from a
snapshot, beside a scheduler that overwrites what it has not read. `MoneyInv` adds

- `Sound`: places of participants are taken once, the books are in order, and nothing was
  refunded or paid while users still come and go (`Early`);
- `Waiting`: until then there is no match and no room, no command is open and no job is past the
  point where it locks the tournament;
- `Seen`: a command has read the participants who are there now. What it commits, it computed
  from an escrow that it conflicts about, so the prizes are of the pot as it is.

From it: `TournamentBooksBalance`. For the results the jobs matter as well, and `ResultsInv` adds

- `Bracket`: rooms are for matches of two and end with one of them or nobody; a match that is ready, or has a
  room, has one of its own; whoever is its winner has won it (`Earned`: he has no opponent, or a room of
  the match that is over), and the loser is the other;
- `Jobs`: a job that has just created a room is about to save it in a match that has another or none, no two
  jobs with the same one, and a match is decided only for who has earned it;
- `Reads`: a command that will end a room has read it open, and rooms keep their matches.

`Moves` says what a step may do to matches and rooms, and that the result of a match with one room lasts
(`Lasts`). From it, with every trouble at any time: `TournamentResultsStand`, and `TournamentWinnersEarned`, that
nobody is put through who has not won, however many rooms a match was given.

`TournamentChampionUnbeaten` has no hypothesis either: what it presumes (`DrawnOnce`, `PlayedOnce`) is in the
property. It rests on `ChampionInv`, `ResultsInv` and, while no match has had two rooms, `Alone`: who is paid is
decided from documents of participants and of matches, at several steps of several actors. `PlayedOnce` cannot
become true again (`PlayedOnceBefore`), so `Alone` need not hold after it was false. Its parts are

- `Merited`: the winner of a match is one of its players and the loser the other one (`Fair`), a participant is
  marked a group winner only after he has won a group final, the players of a grand final are such
  winners, and the prizes are those of a decided match that ends the tournament (`Champions`: the grand
  final, or the only group's final);
- `Separate`: in groups that were drawn once nobody is in two;
- `ReadsMerited`: what a command has read was merited, with its matches still there (`Follows`).

A command inserts its finals behind what was inserted meanwhile, so what it computed and what is there
are put together (`MergedMerited`), and only finals that wait can have changed place (`Keeps`). Who meets whom rests on `BySeed`:
every rank is taken once (`Ranks`: an injection into as many numbers is onto them), so the two
of a group are two participants of it (`BySeedPlaces`), and of the seeding order it is
enough to know it for two (`SeedsOfTwo`); in larger finals no later round is ever drawn, and no prize is paid.

Only model-checked:

- `FinalsDrawnOnce`: that a bracket is drawn once holds of the small tournaments in which the scheduler
  decides no match, and not in general;
- all liveness properties: this prover has no rules for fairness and `ENABLED`;
- the five disagreements, which are counterexamples.

`StakesPromise` of `MC_Games` is `RoomContract` with `late` by `kind`; the theorems say that each
game implements it (`...ImplementsContract`).

## 6. Not modelled

- Sessions and one-time codes of `auth.service.ts`; `idempotency.service.ts`; rate limits.
- REST room actions as commands with retries, read snapshots and the queue limits of
  `reliable-commands.ts`; rooms of the older start protocol.
- Tournaments: the older bracket of ten players, the settlement before `FINANCE_V2`, edits of
  drafts, presence, what state reads return.
- Rock paper scissors and chat, which keep little state.
- Former recharges and withdrawals and the treasury, which `FINANCE_V2_ENABLED` replaces.
- Mail, push, translations, health, contact, audit, statistics, the catalogue and users:
  records that are written and read, or input and output. A mail that fails is a choice in
  `SendCode`.

## 7. Plan

1. done: `Withdrawals`, `ReliableCommands`.
2. done: `GameRooms` with the six games, `RoomContract`, and the proofs of their money,
   countdowns and rules, naval battle with the contract for late stakes.
3. done: `Tournaments`, its books and results proved, with rooms and matches saved apart.
4. done: `ChampionUnbeaten` proved, from what the matches say of participants, under every trouble.
5. done: `Deposits`, and the books and limits of both kinds of payment proved.
6. open: `Idempotency` and sessions.

The twelve runs are all in use, so a further module joins a run whose state it shares, or
takes the place of a run that has shown less.
