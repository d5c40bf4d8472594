-------------------------- MODULE ReliableCommands --------------------------
(***************************************************************************)
(* The commands of one game room: the decorators and the transaction of    *)
(* reliable-commands.ts, its outbox publisher, the durable disconnects and *)
(* the match-start barrier of match-start.ts.                              *)
(*                                                                         *)
(* A handler runs one command.  The transaction is a step; the reads       *)
(* before it, the stored rejection and the answer after it are steps of    *)
(* their own, and a handler may stop between any two (Abandon).  The game  *)
(* itself is the set of mutations committed to it.                         *)
(***************************************************************************)
EXTENDS Integers, FiniteSets

CONSTANTS
    Players,
    Commands,      \* ids of player commands
    Forfeits,      \* those among them that give the game up
    Placements,    \* those among them that place a fleet, which no early check refuses
    Sent,          \* the versions the client sends a command with, one if it is correct
    Sockets,       \* connections that may be lost
    Handlers,      \* commands in execution at the same time, over all replicas
    Publishers,    \* replicas that publish the outbox
    BatchLimit,    \* events a publisher fetches at once (100)
    ClockSkew,     \* how many commits apart the clocks of two replicas may be
    MaxRevision,   \* bound: no player or server command commits beyond it
    None

ASSUME CommandAssumption ==
    /\ Forfeits \subseteq Commands /\ Placements \subseteq Commands
    /\ Sent \in [Commands -> SUBSET Nat]
    /\ BatchLimit \in Nat \ {0} /\ ClockSkew \in Nat /\ MaxRevision \in Nat
    /\ Commands \cap Sockets = {}
    /\ (Commands \cup Sockets) \cap {"start", "forfeit", "barrier", "cancel"} = {}

VARIABLES
    room,          \* rooms: phase, command_revision, initial_state_ack_at of the players
    log,           \* the mutations committed to the game
    receipts,      \* game_commands
    outbox,        \* game_outbox
    published,     \* the events marked published
    delivered,     \* the events the brokers took at least once
    answers,       \* the command_ack events sent to players
    told,          \* the players were sent the end of the game
    disconnects,   \* game_disconnects
    proc,          \* the running handlers
    pub            \* the running publishers

gameVars   == <<room, log, receipts, outbox>>
outboxVars == <<published, delivered, pub>>
vars == <<gameVars, outboxVars, answers, told, disconnects, proc>>

(* start_protocol is set by the start; play_started_at lies in the future
   during the countdown; a closed room finished before it was started. *)
Phases == {"waiting", "closed", "preparing", "countdown", "active", "finished"}
ServerCommands == {"start", "forfeit"}
Mutations == Commands \cup Sockets \cup ServerCommands \cup {"barrier", "cancel"}

(* Rejections of server commands that an earlier version stored. *)
Legacy == {[cmd |-> "start", expected |-> 0, status |-> "rejected"]}

Idle == [pc |-> "idle", cmd |-> None, expected |-> 0, outcome |-> "none"]
Resting == [batch |-> {}, sent |-> None]

Init ==
    /\ room = [phase |-> "waiting", revision |-> 0, acked |-> {}]
    /\ log = {}
    /\ receipts \in SUBSET Legacy
    /\ outbox = {} /\ published = {} /\ delivered = {}
    /\ answers = {}
    /\ told = FALSE
    /\ disconnects = [s \in Sockets |-> "none"]
    /\ proc = [h \in Handlers |-> Idle]
    /\ pub = [q \in Publishers |-> Resting]

CanPlay     == room.phase \in {"waiting", "closed", "active"}
IsPreparing == room.phase = "preparing"
Over        == room.phase \in {"closed", "finished"}

At(h, at)          == proc[h].pc = at
Cmd(h)             == proc[h].cmd
Expected(h)        == proc[h].expected
Go(h, at)          == proc' = [proc EXCEPT ![h].pc = at]
Stop(h)            == proc' = [proc EXCEPT ![h] = Idle]
Start(h, at, c, v) == /\ At(h, "idle")
                      /\ proc' = [proc EXCEPT ![h] = [pc |-> at, cmd |-> c, expected |-> v,
                                                      outcome |-> "none"]]
Decide(h, at, as)  == proc' = [proc EXCEPT ![h].pc = at, ![h].outcome = as]

-----------------------------------------------------------------------------
(* The transaction. *)

(* The phase is that of the room before the mutation, kept for the properties. *)
Entry(c, r) == [revision |-> r, cmd |-> c, phase |-> room.phase]

(* createdAt is the clock of the replica that ran the command. *)
Events(c, r, kinds, stamp) ==
    {[stamp |-> stamp, revision |-> r, kind |-> k, cmd |-> c] : k \in kinds}

(* One mutation at revision r, with the events that leave with it. *)
Commit(c, r, to, kinds) ==
    /\ room' = [room EXCEPT !.phase = to, !.revision = r]
    /\ log' = log \cup {Entry(c, r)}
    /\ \E skew \in 0..ClockSkew : outbox' = outbox \cup Events(c, r, kinds, r - skew)

(* cancelPreparedMatch, in a transaction of its own. *)
CancelMatch == Commit("cancel", room.revision + 1, "finished", {"state"})

Stored(c)      == {r \in receipts : r.cmd = c}
Answered(h)    == {r \in receipts : r.cmd = Cmd(h) /\ r.expected = Expected(h)}
AcceptedBy(h)  == {r \in Answered(h) : r.status = "accepted"}
Receipt(h, as) == [cmd |-> Cmd(h), expected |-> Expected(h), status |-> as]

(* Mutant: a command meant for an earlier state is let through. *)
VersionReached(h) == room.revision >= Expected(h)

(* The work is done on the revision the command named, or not at all. *)
VersionHolds(h) == room.revision = Expected(h)

-----------------------------------------------------------------------------
(* A player's command: ReliableAction, then executeReliableAction. *)

Answer(c, v, as, kept) == [cmd |-> c, expected |-> v, status |-> as, stored |-> kept]

(* A client sends a command, or sends it again.  The version is part of the
   payload, so the same id with another version is another payload. *)
SendCommand(h, c, v) ==
    /\ v <= room.revision
    /\ CanPlay \/ c \in Placements
    /\ Start(h, "executing", c, v)
    /\ UNCHANGED <<gameVars, outboxVars, answers, told, disconnects>>

(* The match is not running: answered at once, and nothing is stored. *)
RefuseInactive(c, v) ==
    /\ v <= room.revision
    /\ ~CanPlay /\ c \notin Placements
    /\ answers' = answers \cup {Answer(c, v, "rejected", FALSE)}
    /\ IF c \in Forfeits /\ IsPreparing
       THEN CancelMatch /\ UNCHANGED receipts
       ELSE UNCHANGED gameVars
    /\ UNCHANGED <<outboxVars, told, disconnects, proc>>

Replay(h) ==
    /\ At(h, "executing")
    /\ Stored(Cmd(h)) # {}
    /\ IF AcceptedBy(h) # {}
       THEN Decide(h, "answering", "accepted") ELSE Decide(h, "storing", "rejected")
    /\ UNCHANGED <<gameVars, outboxVars, answers, told, disconnects>>

(* A stale version, a match not running, or a handler that emits success: false.
   Its events are delivered; a forfeit tells the room that the game ended. *)
Decline(h) ==
    /\ At(h, "executing")
    /\ Stored(Cmd(h)) = {}
    /\ Decide(h, "storing", "rejected")
    /\ \/ UNCHANGED told
       \/ Cmd(h) \in Forfeits /\ VersionHolds(h) /\ room.phase = "active" /\ told' = TRUE
    /\ UNCHANGED <<gameVars, outboxVars, answers, disconnects>>

(* What becomes of the room when the command succeeds.  Before the match, and
   in a room closed before it, there is no game to change: a forfeit or an end
   of turn returns, and the empty command commits.  The last fleet placed
   starts the preparation; from then on no fleet is taken. *)
Leads(c, to) ==
    /\ CanPlay
    /\ \/ /\ to = room.phase
          /\ c \in Placements => room.phase = "waiting"
          /\ c \in Forfeits => room.phase # "active"
       \/ to = "finished" /\ room.phase = "active" /\ c \notin Placements
       \/ to = "preparing" /\ room.phase = "waiting" /\ c \in Placements

(* Mutant: the receipt of an earlier copy is not looked for. *)
AcceptAgain(h) ==
    /\ At(h, "executing")
    /\ VersionHolds(h) /\ room.revision < MaxRevision
    /\ \E to \in Phases, kinds \in {{"ack"}, {"state", "ack"}} :
         Leads(Cmd(h), to) /\ Commit(Cmd(h), Expected(h) + 1, to, kinds)
    /\ receipts' = receipts \cup {Receipt(h, "accepted")}
    /\ Decide(h, "answering", "accepted")
    /\ UNCHANGED <<outboxVars, answers, told, disconnects>>

Accept(h) ==
    /\ At(h, "executing")
    /\ Stored(Cmd(h)) = {}
    /\ VersionHolds(h) /\ room.revision < MaxRevision
    /\ \E to \in Phases, kinds \in {{"ack"}, {"state", "ack"}} :
         Leads(Cmd(h), to) /\ Commit(Cmd(h), Expected(h) + 1, to, kinds)
    /\ receipts' = receipts \cup {Receipt(h, "accepted")}
    /\ Decide(h, "answering", "accepted")
    /\ UNCHANGED <<outboxVars, answers, told, disconnects>>

(* Mutant: what was stored by another copy is not read back. *)
StoreBlindly(h) ==
    /\ At(h, "storing")
    /\ receipts' = IF Stored(Cmd(h)) = {}
                   THEN receipts \cup {Receipt(h, "rejected")} ELSE receipts
    /\ Decide(h, "answering", "rejected")
    /\ UNCHANGED <<room, log, outbox, outboxVars, answers, told, disconnects>>

(* Mutant: $set where the code has $setOnInsert. *)
StoreOver(h) ==
    /\ At(h, "storing")
    /\ receipts' = (receipts \ Stored(Cmd(h))) \cup {Receipt(h, "rejected")}
    /\ Decide(h, "answering", "rejected")
    /\ UNCHANGED <<room, log, outbox, outboxVars, answers, told, disconnects>>

(* $setOnInsert and read back: another copy of the command may have won. *)
StoreRejection(h) ==
    /\ At(h, "storing")
    /\ receipts' = IF Stored(Cmd(h)) = {}
                   THEN receipts \cup {Receipt(h, "rejected")} ELSE receipts
    /\ Decide(h, "answering", IF AcceptedBy(h) # {} THEN "accepted" ELSE "rejected")
    /\ UNCHANGED <<room, log, outbox, outboxVars, answers, told, disconnects>>

SendAnswer(h) ==
    /\ At(h, "answering")
    /\ answers' = answers \cup {Answer(Cmd(h), Expected(h), proc[h].outcome, TRUE)}
    /\ Stop(h)
    /\ UNCHANGED <<gameVars, outboxVars, told, disconnects>>

-----------------------------------------------------------------------------
(* Server commands: ReliableInternalAction. *)

BeginServer(h, name) ==
    /\ Start(h, "serving", name, room.revision)
    /\ UNCHANGED <<gameVars, outboxVars, answers, told, disconnects>>

ReplayServer(h) ==
    /\ At(h, "serving")
    /\ AcceptedBy(h) # {}
    /\ Stop(h)
    /\ UNCHANGED <<gameVars, outboxVars, answers, told, disconnects>>

(* A stale version, a start that emitted nothing, or executeForfeit in a
   room with sockets: the work is undone, its events are delivered. *)
DeclineServer(h) ==
    /\ At(h, "serving")
    /\ AcceptedBy(h) = {}
    /\ ~VersionHolds(h) \/ Cmd(h) = "start" \/ room.phase = "active"
    /\ told' = (told \/ (VersionHolds(h) /\ Cmd(h) = "forfeit"))
    /\ Stop(h)
    /\ UNCHANGED <<gameVars, outboxVars, answers, disconnects>>

Serves(h) ==
    /\ At(h, "serving")
    /\ AcceptedBy(h) = {}
    /\ VersionHolds(h) /\ room.revision < MaxRevision
    /\ receipts' = (receipts \ Answered(h)) \cup {Receipt(h, "accepted")}
    /\ Stop(h)
    /\ UNCHANGED <<outboxVars, answers, told, disconnects>>

ServeStart(h) ==
    /\ Cmd(h) = "start" /\ room.phase = "waiting"
    /\ Serves(h)
    /\ Commit("start", Expected(h) + 1, "preparing", {"state"})

(* Outside a running match the guard returns, and the empty command commits. *)
ServeForfeit(h) ==
    /\ Cmd(h) = "forfeit" /\ ~IsPreparing
    /\ Serves(h)
    /\ Commit("forfeit", Expected(h) + 1,
              IF room.phase = "active" THEN "finished" ELSE room.phase,
              IF room.phase = "active" THEN {"state"} ELSE {})

(* The forfeit of a match in preparation cancels it in the same transaction. *)
ServeCancel(h) ==
    /\ Cmd(h) = "forfeit" /\ IsPreparing
    /\ Serves(h)
    /\ room' = [room EXCEPT !.phase = "finished", !.revision = Expected(h) + 2]
    /\ log' = log \cup {Entry("forfeit", Expected(h) + 1), Entry("cancel", Expected(h) + 2)}
    /\ \E skew \in 0..ClockSkew :
         outbox' = outbox \cup Events("cancel", Expected(h) + 2, {"state"}, Expected(h) + 2 - skew)

(* ReliableReadAction: a join that starts the match becomes a command. *)
JoinStarts ==
    /\ room.phase = "waiting" /\ room.revision < MaxRevision
    /\ Commit("start", room.revision + 1, "preparing", {"state"})
    /\ UNCHANGED <<receipts, outboxVars, answers, told, disconnects, proc>>

-----------------------------------------------------------------------------
(* The barrier: acknowledgeInitialState, and the deadline of the preparation. *)

Acknowledge(p) ==
    LET acked == room.acked \cup {p} IN
    /\ IsPreparing
    /\ IF acked = Players
       THEN /\ room' = [phase |-> "countdown", revision |-> room.revision + 1, acked |-> acked]
            /\ log' = log \cup {Entry("barrier", room.revision + 1)}
            /\ \E skew \in 0..ClockSkew :
                 outbox' = outbox \cup Events("barrier", room.revision + 1, {"state"},
                                              room.revision + 1 - skew)
       ELSE /\ room' = [room EXCEPT !.acked = acked]
            /\ UNCHANGED <<log, outbox>>
    /\ UNCHANGED <<receipts, outboxVars, answers, told, disconnects, proc>>

CountdownEnds ==
    /\ room.phase = "countdown"
    /\ room' = [room EXCEPT !.phase = "active"]
    /\ UNCHANGED <<log, receipts, outbox, outboxVars, answers, told, disconnects, proc>>

(* Mutant: the phase read when the sweep looked for rooms is not read again. *)
CancelStarted ==
    /\ room.phase \in {"preparing", "countdown", "active"}
    /\ CancelMatch
    /\ UNCHANGED <<receipts, outboxVars, answers, told, disconnects, proc>>

(* Mutant: a room that nobody acknowledged is left alone. *)
CancelAcknowledged ==
    /\ IsPreparing /\ room.acked # {}
    /\ CancelMatch
    /\ UNCHANGED <<receipts, outboxVars, answers, told, disconnects, proc>>

CancelExpired ==
    /\ IsPreparing
    /\ CancelMatch
    /\ UNCHANGED <<receipts, outboxVars, answers, told, disconnects, proc>>

-----------------------------------------------------------------------------
(* A lost connection: ReliableDisconnectAction and recoverDisconnects. *)

(* During the preparation a lost socket leaves no row. *)
LoseSocket(h, s) ==
    /\ disconnects[s] = "none" /\ ~IsPreparing
    /\ Start(h, "persisted", s, 0)
    /\ disconnects' = [disconnects EXCEPT ![s] = "pending"]
    /\ UNCHANGED <<gameVars, outboxVars, answers, told>>

(* The rows of a recovery round are read together, each is handled later. *)
FetchDisconnect(h, s) ==
    /\ disconnects[s] = "pending"
    /\ Start(h, "recovering", s, 0)
    /\ UNCHANGED <<gameVars, outboxVars, answers, told, disconnects>>

(* Mutant: only the connections of running matches are recovered. *)
RecoverActive(h) ==
    /\ At(h, "recovering")
    /\ IF room.phase # "active" THEN Stop(h) ELSE Go(h, "persisted")
    /\ UNCHANGED <<gameVars, outboxVars, answers, told, disconnects>>

RecoverDisconnect(h) ==
    /\ At(h, "recovering")
    /\ IF IsPreparing THEN Stop(h) ELSE Go(h, "persisted")
    /\ UNCHANGED <<gameVars, outboxVars, answers, told, disconnects>>

CheckRoom(h) ==
    /\ At(h, "persisted")
    /\ IF Over
       THEN Stop(h) /\ disconnects' = [disconnects EXCEPT ![Cmd(h)] = "completed"]
       ELSE Go(h, "reading") /\ UNCHANGED disconnects
    /\ UNCHANGED <<gameVars, outboxVars, answers, told>>

ReadVersion(h) ==
    /\ At(h, "reading")
    /\ proc' = [proc EXCEPT ![h].pc = "leaving", ![h].expected = room.revision]
    /\ UNCHANGED <<gameVars, outboxVars, answers, told, disconnects>>

(* The row is completed in the transaction, whatever the callback did: it
   does nothing for a finished game or a player who is connected elsewhere. *)
CompleteDisconnect(h) ==
    /\ At(h, "leaving")
    /\ AcceptedBy(h) = {}
    /\ VersionHolds(h)
    /\ \E to \in {room.phase, "closed", "finished"} :
         /\ to = "closed" => room.phase \in {"waiting", "closed"}
         /\ to = "finished" => room.phase \in {"active", "finished"}
         /\ \E kinds \in {{}, {"state"}} : Commit(Cmd(h), Expected(h) + 1, to, kinds)
    /\ receipts' = receipts \cup {Receipt(h, "accepted")}
    /\ disconnects' = [disconnects EXCEPT ![Cmd(h)] = "completed"]
    /\ Decide(h, "closing", "accepted")
    /\ UNCHANGED <<outboxVars, answers, told>>

DeclineDisconnect(h) ==
    /\ At(h, "leaving")
    /\ IF AcceptedBy(h) # {}
       THEN Decide(h, "closing", "accepted")
       ELSE Decide(h, "closing", "rejected")      \* stale version, or success: false
    /\ UNCHANGED <<gameVars, outboxVars, answers, told, disconnects>>

(* Mutant: the row is completed whatever became of the attempt. *)
CloseAlways(h) ==
    /\ At(h, "closing")
    /\ disconnects' = [disconnects EXCEPT ![Cmd(h)] = "completed"]
    /\ Stop(h)
    /\ UNCHANGED <<gameVars, outboxVars, answers, told>>

(* A rejected attempt leaves the row for the next round. *)
CloseDisconnect(h) ==
    /\ At(h, "closing")
    /\ disconnects' = IF proc[h].outcome = "accepted"
                      THEN [disconnects EXCEPT ![Cmd(h)] = "completed"] ELSE disconnects
    /\ Stop(h)
    /\ UNCHANGED <<gameVars, outboxVars, answers, told>>

-----------------------------------------------------------------------------
(* The outbox: publish, every 100 ms on every replica. *)

(* Mutant: the events are fetched unsorted. *)
Unsorted(e, f) == FALSE

(* sort({ createdAt: 1, sequence: 1, index: 1 }): the answer is the last event. *)
Before(e, f) ==
    \/ e.stamp < f.stamp
    \/ e.stamp = f.stamp /\ e.revision < f.revision
    \/ e.stamp = f.stamp /\ e.revision = f.revision /\ e.kind = "state" /\ f.kind = "ack"
First(S, n) == {e \in S : Cardinality({f \in S : Before(f, e)}) < n}

FetchEvents(q) ==
    /\ pub[q] = Resting
    /\ outbox \ published # {}
    /\ pub' = [pub EXCEPT ![q].batch = First(outbox \ published, BatchLimit)]
    /\ UNCHANGED <<gameVars, published, delivered, answers, told, disconnects, proc>>

DeliverEvent(q) ==
    /\ pub[q].sent = None
    /\ \E e \in First(pub[q].batch, 1) :
         /\ delivered' = delivered \cup {e}
         /\ answers' = IF e.kind = "ack"
                       THEN answers \cup {Answer(e.cmd, e.revision - 1, "accepted", TRUE)}
                       ELSE answers
         /\ pub' = [pub EXCEPT ![q].sent = e]
    /\ UNCHANGED <<gameVars, published, told, disconnects, proc>>

(* Mutant: the first delivery marks the whole batch. *)
MarkBatch(q) ==
    /\ pub[q].sent # None
    /\ published' = published \cup pub[q].batch
    /\ pub' = [pub EXCEPT ![q] = Resting]
    /\ UNCHANGED <<gameVars, delivered, answers, told, disconnects, proc>>

(* Mutant: busy is not reset at the end of a round. *)
MarkAndStayBusy(q) ==
    /\ pub[q].sent # None
    /\ published' = published \cup {pub[q].sent}
    /\ UNCHANGED <<gameVars, delivered, answers, told, disconnects, proc, pub>>

MarkPublished(q) ==
    /\ pub[q].sent # None
    /\ published' = published \cup {pub[q].sent}
    /\ pub' = [pub EXCEPT ![q] = [batch |-> @.batch \ {@.sent}, sent |-> None]]
    /\ UNCHANGED <<gameVars, delivered, answers, told, disconnects, proc>>

(* The replica died, or the broker or the database failed: the round ends. *)
StopPublishing(q) ==
    /\ pub[q] # Resting
    /\ pub' = [pub EXCEPT ![q] = Resting]
    /\ UNCHANGED <<gameVars, published, delivered, answers, told, disconnects, proc>>

Abandon(h) ==
    /\ ~At(h, "idle")
    /\ Stop(h)
    /\ UNCHANGED <<gameVars, outboxVars, answers, told, disconnects>>

-----------------------------------------------------------------------------
PlayerStep(h) ==
    \/ \E c \in Commands : \E v \in Sent[c] : SendCommand(h, c, v)
    \/ Replay(h) \/ Decline(h) \/ Accept(h) \/ StoreRejection(h) \/ SendAnswer(h)
ServerStep(h) ==
    \/ \E name \in ServerCommands : BeginServer(h, name)
    \/ ReplayServer(h) \/ DeclineServer(h) \/ ServeStart(h) \/ ServeForfeit(h) \/ ServeCancel(h)
DisconnectStep(h) ==
    \/ \E s \in Sockets : LoseSocket(h, s) \/ FetchDisconnect(h, s)
    \/ RecoverDisconnect(h) \/ CheckRoom(h) \/ ReadVersion(h)
    \/ CompleteDisconnect(h) \/ DeclineDisconnect(h) \/ CloseDisconnect(h)
MatchStep ==
    \/ JoinStarts \/ CountdownEnds \/ CancelExpired
    \/ \E p \in Players : Acknowledge(p)
    \/ \E c \in Commands : \E v \in Sent[c] : RefuseInactive(c, v)
PublishStep(q) ==
    FetchEvents(q) \/ DeliverEvent(q) \/ MarkPublished(q) \/ StopPublishing(q)

HandlerStep(h) == PlayerStep(h) \/ ServerStep(h) \/ DisconnectStep(h) \/ Abandon(h)

Next ==
    \/ \E h \in Handlers : HandlerStep(h)
    \/ MatchStep
    \/ \E q \in Publishers : PublishStep(q)

Spec == Init /\ [][Next]_vars

-----------------------------------------------------------------------------
(* Fairness.  The publishing rounds repeat for ever on every replica, and   *)
(* so do the recovery of disconnects and the sweep of expired preparations. *)
(* SF: an outage ends, and a version a retry reads is at last the current   *)
(* one.  A handler ends, done or dead.  Nothing is assumed of the players.  *)

PublishFairness(q) ==
    SF_vars(FetchEvents(q)) /\ SF_vars(DeliverEvent(q)) /\ SF_vars(MarkPublished(q))
RecoveryFairness(h) ==
    /\ \A s \in Sockets : SF_vars(FetchDisconnect(h, s))
    /\ SF_vars(RecoverDisconnect(h)) /\ SF_vars(CheckRoom(h)) /\ SF_vars(ReadVersion(h))
    /\ SF_vars(CompleteDisconnect(h)) /\ SF_vars(CloseDisconnect(h))
    /\ WF_vars(HandlerStep(h) /\ proc'[h] = Idle)
Fairness ==
    /\ \A q \in Publishers : PublishFairness(q)
    /\ \A h \in Handlers : RecoveryFairness(h)
    /\ WF_vars(CancelExpired)
FairSpec == Spec /\ Fairness

-----------------------------------------------------------------------------
(* Properties. *)

Places == {"idle", "executing", "storing", "answering", "serving", "recovering",
           "persisted", "reading", "leaving", "closing"}
Statuses == {"accepted", "rejected"}

(* Every variable holds a value of its kind. *)
TypeOK ==
    /\ room \in [phase : Phases, revision : Nat, acked : SUBSET Players]
    /\ log \subseteq [revision : Nat, cmd : Mutations, phase : Phases]
    /\ receipts \subseteq [cmd : Mutations, expected : Nat, status : Statuses]
    /\ outbox \subseteq [stamp : Int, revision : Nat, kind : {"state", "ack"}, cmd : Mutations]
    /\ published \subseteq outbox
    /\ delivered \subseteq outbox
    /\ answers \subseteq [cmd : Commands, expected : Nat, status : Statuses, stored : BOOLEAN]
    /\ told \in BOOLEAN
    /\ disconnects \in [Sockets -> {"none", "pending", "completed"}]
    /\ proc \in [Handlers -> [pc : Places, cmd : Mutations \cup {None}, expected : Nat,
                              outcome : Statuses \cup {"none"}]]
    /\ pub \in [Publishers -> [batch : SUBSET outbox, sent : outbox \cup {None}]]

(* A player's command changes the game once, and exactly when its receipt
   says accepted: whatever copies of it run at the same time, on whichever
   replica, before or after a crash. *)
AppliedIffAccepted ==
    \A c \in Commands :
        /\ \A e1, e2 \in log : e1.cmd = c /\ e2.cmd = c => e1 = e2
        /\ (\E e \in log : e.cmd = c) <=> (\E r \in Stored(c) : r.status = "accepted")

(* Two mutations never claim the same revision, and none claims one that is
   still to come: every step of the game is made on the state it was meant for. *)
OneMutationPerRevision ==
    /\ \A e1, e2 \in log : e1.revision = e2.revision => e1 = e2
    /\ \A e \in log : e.revision \in 1..room.revision

(* The answers a player gets from the executed command all say what its
   receipt says, also when one copy was refused while another was accepted;
   another payload under the same id is always refused. *)
AnswersMatchReceipts ==
    \A a \in answers : a.stored =>
        \E r \in Stored(a.cmd) :
            a.status = IF r.expected = a.expected THEN r.status ELSE "rejected"

(* A match that was cancelled in preparation was never played, nor started:
   the deadline and the last acknowledgement may come at the same time.  The
   commands its log has were made in the waiting room, before the match. *)
CancelledIsNotPlayed ==
    (\E e \in log : e.cmd = "cancel") =>
        \A e \in log : e.cmd # "barrier" /\ (e.cmd \in Commands => e.phase = "waiting")

(* An event is marked published only after the brokers took it. *)
MarkedIsDelivered == published \subseteq delivered

(* With clocks that agree, no event of a room is delivered for the first
   time after one of a later revision: two publishers with batches of
   different age can only repeat what was delivered. *)
DeliveredInOrder ==
    \A e \in delivered, f \in outbox : f.revision < e.revision => f \in delivered

(* A lost connection that was persisted is closed only by a room that is
   over or by a committed run of its callback. *)
DisconnectNotLost ==
    \A s \in Sockets : disconnects[s] = "completed" =>
        Over \/ \E e \in log : e.cmd = s

(* The runbook: repeating an accepted command returns the earlier result. *)
RepeatReturnsReceipt ==
    \A a \in answers, r \in receipts :
        r.cmd = a.cmd /\ r.expected = a.expected /\ r.status = "accepted" => a.status = "accepted"

(* durableEmit: emissions are delivered only after the commit, so players
   who are told that the game ended are not left in a running one. *)
ToldAfterCommit == told => Over

(* Every committed event reaches the brokers. *)
EventsAreDelivered ==
    \A n \in 1..MaxRevision :
        (\E e \in outbox : e.revision = n) ~> (\A e \in outbox : e.revision = n => e \in delivered)

(* A persisted disconnect is completed in the end. *)
DisconnectsComplete ==
    \A s \in Sockets : disconnects[s] = "pending" ~> disconnects[s] = "completed"

(* A match does not stay in preparation: it is started or cancelled. *)
PreparationEnds == IsPreparing ~> ~IsPreparing

-----------------------------------------------------------------------------
(* Refinement: the commands of the players keep the contract of CommandContract.
   A room closed before its match began is no match that is over: it goes on
   taking commands that change nothing. *)
decision == [c \in Commands |->
    IF \E r \in Stored(c) : r.status = "accepted" THEN "accepted"
    ELSE IF \E r \in Stored(c) : r.status = "rejected" THEN "rejected" ELSE "open"]
history == {e \in log : e.cmd \in Commands}

Contract == INSTANCE CommandContract WITH
    Commands <- Commands, decision <- decision, history <- history, over <- room.phase = "finished"
ImplementsContract == Contract!Spec

=============================================================================
