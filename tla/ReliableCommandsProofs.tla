----------------------- MODULE ReliableCommandsProofs -----------------------
(* Proofs about ReliableCommands for every set of players, commands and processes. *)
EXTENDS ReliableCommands, FiniteSetTheorems, TLAPS

-----------------------------------------------------------------------------
(* The inductive invariant. *)

PlayerPlaces     == {"executing", "storing", "answering"}
DisconnectPlaces == {"recovering", "persisted", "reading", "leaving", "closing"}

(* What a handler runs, by the place it is at. *)
RunInv ==
    \A h \in Handlers :
        /\ proc[h].pc \in PlayerPlaces => proc[h].cmd \in Commands
        /\ proc[h].pc = "answering" => proc[h].outcome \in Statuses
        /\ proc[h].pc = "serving" => proc[h].cmd \in ServerCommands
        /\ proc[h].pc \in DisconnectPlaces => proc[h].cmd \in Sockets

(* An answer in the outbox belongs to a player's command. *)
AckTyped == \A e \in outbox : e.kind = "ack" => e.cmd \in Commands /\ e.revision - 1 \in Nat

Typed == TypeOK /\ RunInv /\ AckTyped

Runs == [Handlers -> [pc : Places, cmd : Mutations \cup {None}, expected : Nat,
                      outcome : Statuses \cup {"none"}]]
RunTyped == proc \in Runs /\ RunInv

(* Accepted commands, and only they, are in the log, each once. *)
LogInv ==
    /\ OneMutationPerRevision
    /\ AppliedIffAccepted
    /\ \A r1, r2 \in receipts : r1.cmd = r2.cmd /\ r1.cmd \in Commands => r1 = r2
    /\ \A r \in receipts : r.cmd \in Sockets /\ r.status = "accepted" => \E e \in log : e.cmd = r.cmd

(* Before the barrier no player has moved, save in the waiting room; only a
   finished match was cancelled. *)
Unplayed(e) == e.cmd # "barrier" /\ (e.cmd \in Commands => e.phase = "waiting")
PhaseInv ==
    /\ room.phase \in {"waiting", "preparing"} => \A e \in log : Unplayed(e)
    /\ (\E e \in log : e.cmd = "cancel") => room.phase = "finished"
    /\ CancelledIsNotPlayed

GameInv == LogInv /\ PhaseInv

(* What is about to be answered, by the handler or by the outbox, is what the receipt says. *)
Matches(R, c, v, as) ==
    \E r \in R : r.cmd = c /\ as = IF r.expected = v THEN r.status ELSE "rejected"
AnswerInv ==
    /\ \A h \in Handlers : proc[h].pc = "answering" =>
         Matches(receipts, proc[h].cmd, proc[h].expected, proc[h].outcome)
    /\ \A e \in outbox : e.kind = "ack" => Matches(receipts, e.cmd, e.revision - 1, "accepted")
    /\ AnswersMatchReceipts

(* A publisher marks what it has just delivered. *)
OutboxInv ==
    /\ \A q \in Publishers : pub[q].sent # None => pub[q].sent \in delivered
    /\ MarkedIsDelivered

(* A disconnect about to be closed as accepted was committed. *)
DisconnectInv ==
    /\ \A h \in Handlers :
         proc[h].pc = "closing" /\ proc[h].outcome = "accepted" => \E e \in log : e.cmd = proc[h].cmd
    /\ DisconnectNotLost

IInv == Typed /\ GameInv /\ AnswerInv /\ OutboxInv /\ DisconnectInv

-----------------------------------------------------------------------------
(* The steps, by what they do to the game. *)

(* The steps that leave the game, its receipts and its outbox alone. *)
QuietStep ==
    \/ \E h \in Handlers :
         \/ \E c \in Commands : \E v \in Sent[c] : SendCommand(h, c, v)
         \/ Replay(h) \/ Decline(h) \/ SendAnswer(h)
         \/ \E name \in ServerCommands : BeginServer(h, name)
         \/ ReplayServer(h) \/ DeclineServer(h)
         \/ \E s \in Sockets : LoseSocket(h, s) \/ FetchDisconnect(h, s)
         \/ RecoverDisconnect(h) \/ CheckRoom(h) \/ ReadVersion(h)
         \/ DeclineDisconnect(h) \/ CloseDisconnect(h) \/ Abandon(h)
    \/ \E q \in Publishers : PublishStep(q)

(* The steps that write to them; a command sent outside a match may cancel it. *)
GameStep ==
    \/ \E h \in Handlers :
         \/ Accept(h) \/ StoreRejection(h)
         \/ ServeStart(h) \/ ServeForfeit(h) \/ ServeCancel(h) \/ CompleteDisconnect(h)
    \/ MatchStep

(* Every step is of one of the two kinds. *)
LEMMA NextCases == Next <=> QuietStep \/ GameStep
BY DEF Next, QuietStep, GameStep, HandlerStep, PlayerStep, ServerStep, DisconnectStep

(* The events of one mutation are typed, and name it. *)
LEMMA EventsEffect ==
    ASSUME Typed, NEW c \in Mutations, NEW r \in Nat, NEW kinds \in SUBSET {"state", "ack"},
           "ack" \in kinds => c \in Commands /\ r - 1 \in Nat, NEW skew \in 0..ClockSkew,
           outbox' = outbox \cup Events(c, r, kinds, r - skew)
    PROVE  /\ outbox \subseteq outbox'
           /\ outbox' \subseteq [stamp : Int, revision : Nat, kind : {"state", "ack"}, cmd : Mutations]
           /\ \A e \in outbox' : e \in outbox \/ (e.cmd = c /\ e.revision = r /\ e.kind \in kinds)
           /\ AckTyped'
<1>1. ASSUME NEW e \in Events(c, r, kinds, r - skew)
      PROVE  /\ e \in [stamp : Int, revision : Nat, kind : {"state", "ack"}, cmd : Mutations]
             /\ e.cmd = c /\ e.revision = r /\ e.kind \in kinds
  <2>1. r - skew \in Int
    BY CommandAssumption
  <2>2. PICK k \in kinds : e = [stamp |-> r - skew, revision |-> r, kind |-> k, cmd |-> c]
    BY DEF Events
  <2> QED BY <2>1, <2>2
<1>2. /\ outbox \subseteq outbox'
      /\ outbox' \subseteq [stamp : Int, revision : Nat, kind : {"state", "ack"}, cmd : Mutations]
      /\ \A e \in outbox' : e \in outbox \/ (e.cmd = c /\ e.revision = r /\ e.kind \in kinds)
  BY <1>1 DEF Typed, TypeOK
<1>3. AckTyped'
  BY <1>2 DEF Typed, AckTyped
<1> QED BY <1>2, <1>3

(* A mutation of the game, and what it leaves. *)
LEMMA CommitEffect ==
    ASSUME Typed, NEW c \in Mutations, NEW r \in Nat, NEW to \in Phases,
           NEW kinds \in SUBSET {"state", "ack"}, "ack" \in kinds => c \in Commands /\ r - 1 \in Nat,
           Commit(c, r, to, kinds)
    PROVE  /\ room' = [phase |-> to, revision |-> r, acked |-> room.acked]
           /\ room' \in [phase : Phases, revision : Nat, acked : SUBSET Players]
           /\ log' = log \cup {Entry(c, r)}
           /\ log' \subseteq [revision : Nat, cmd : Mutations, phase : Phases]
           /\ outbox \subseteq outbox'
           /\ outbox' \subseteq [stamp : Int, revision : Nat, kind : {"state", "ack"}, cmd : Mutations]
           /\ \A e \in outbox' : e \in outbox \/ (e.cmd = c /\ e.revision = r /\ e.kind \in kinds)
           /\ AckTyped'
<1>1. room' = [room EXCEPT !.phase = to, !.revision = r] /\ log' = log \cup {Entry(c, r)}
  BY DEF Commit
<1>2. PICK skew \in 0..ClockSkew : outbox' = outbox \cup Events(c, r, kinds, r - skew)
  BY DEF Commit
<1>3. /\ room' = [phase |-> to, revision |-> r, acked |-> room.acked]
      /\ room' \in [phase : Phases, revision : Nat, acked : SUBSET Players]
  BY <1>1 DEF Typed, TypeOK
<1>4. log' = log \cup {Entry(c, r)} /\ log' \subseteq [revision : Nat, cmd : Mutations, phase : Phases]
  BY <1>1 DEF Entry, Typed, TypeOK
<1> QED BY <1>2, <1>3, <1>4, EventsEffect

-----------------------------------------------------------------------------
(* Type correctness. *)

(* The game starts in the waiting room, and every value is of its kind. *)
LEMMA InitTyped == Init => Typed
<1> SUFFICES ASSUME Init PROVE Typed
  OBVIOUS
<1>1. room \in [phase : Phases, revision : Nat, acked : SUBSET Players]
  BY DEF Init, Phases
<1>2. receipts \subseteq [cmd : Mutations, expected : Nat, status : Statuses]
  BY DEF Init, Legacy, Mutations, ServerCommands, Statuses
<1>3. RunTyped
  BY DEF Init, Idle, RunTyped, Runs, RunInv, Places, PlayerPlaces, DisconnectPlaces
<1>4. pub \in [Publishers -> [batch : SUBSET outbox, sent : outbox \cup {None}]]
  BY DEF Init, Resting
<1> QED BY <1>1, <1>2, <1>3, <1>4 DEF Init, Typed, TypeOK, RunTyped, Runs, AckTyped

(* A handler that moves on runs what it ran, and keeps what it decided. *)
LEMMA DecideTyped ==
    ASSUME Typed, NEW h \in Handlers, NEW at \in Places, NEW as \in Statuses \cup {"none"},
           at = "answering" => as \in Statuses, at # "serving",
           at \in PlayerPlaces => proc[h].pc \in PlayerPlaces,
           at \in DisconnectPlaces => proc[h].pc \in DisconnectPlaces,
           Decide(h, at, as)
    PROVE  RunTyped'
<1>1. proc \in Runs /\ RunInv
  BY DEF Typed, TypeOK, Runs
<1>2. proc' \in Runs
  BY <1>1 DEF Decide, Runs
<1>3. /\ proc'[h].pc = at /\ proc'[h].cmd = proc[h].cmd /\ proc'[h].outcome = as
      /\ \A g \in Handlers \ {h} : proc'[g] = proc[g]
  BY <1>1 DEF Decide, Runs
<1>4. ASSUME NEW g \in Handlers
      PROVE  /\ proc'[g].pc \in PlayerPlaces => proc'[g].cmd \in Commands
             /\ proc'[g].pc = "answering" => proc'[g].outcome \in Statuses
             /\ proc'[g].pc = "serving" => proc'[g].cmd \in ServerCommands
             /\ proc'[g].pc \in DisconnectPlaces => proc'[g].cmd \in Sockets
  <2>1. CASE g = h
    BY <1>1, <1>3, <2>1 DEF RunInv
  <2>2. CASE g # h
    BY <1>1, <1>3, <2>2 DEF RunInv
  <2> QED BY <2>1, <2>2
<1> QED BY <1>2, <1>4 DEF RunTyped, RunInv, Runs

(* A step that leaves the game alone keeps every value of its kind. *)
LEMMA QuietTyped == Typed /\ QuietStep => Typed'
<1> SUFFICES ASSUME Typed, QuietStep PROVE Typed'
  OBVIOUS
<1>1. Typed /\ room.revision \in Nat
  BY DEF Typed, TypeOK
<1>a. ASSUME UNCHANGED <<gameVars, outboxVars, disconnects>>, RunTyped',
             told' \in BOOLEAN,
             answers' \subseteq [cmd : Commands, expected : Nat, status : Statuses, stored : BOOLEAN]
      PROVE  Typed'
  BY <1>a DEF RunTyped, Runs, Typed, TypeOK, AckTyped, gameVars, outboxVars
<1>b. ASSUME UNCHANGED <<gameVars, outboxVars, told, answers>>, RunTyped',
             disconnects' \in [Sockets -> {"none", "pending", "completed"}]
      PROVE  Typed'
  BY <1>b DEF RunTyped, Runs, Typed, TypeOK, AckTyped, gameVars, outboxVars
<1>s. ASSUME NEW h \in Handlers, Stop(h) PROVE RunTyped'
  BY <1>s DEF RunTyped, Runs, Typed, TypeOK, RunInv, Stop, Idle, Statuses, Places, PlayerPlaces, DisconnectPlaces
<1>2. ASSUME NEW h \in Handlers, NEW c \in Commands, NEW v \in Sent[c], SendCommand(h, c, v) PROVE Typed'
  <2>1. v \in Nat
    BY CommandAssumption
  <2>2. RunTyped'
    BY <1>2, <2>1 DEF SendCommand, Start, RunTyped, Runs, Typed, TypeOK, RunInv, Statuses, Places, PlayerPlaces,
       DisconnectPlaces, Mutations
  <2> QED BY <1>2, <2>2, <1>a DEF SendCommand, Typed, TypeOK
<1>3. ASSUME NEW h \in Handlers, Replay(h) \/ Decline(h) PROVE Typed'
  <2>1. ASSUME NEW at \in {"answering", "storing"}, NEW as \in Statuses, At(h, "executing"), Decide(h, at, as)
        PROVE  RunTyped'
    BY <2>1, DecideTyped DEF At, Places, PlayerPlaces, DisconnectPlaces
  <2>2. RunTyped' /\ told' \in BOOLEAN /\ UNCHANGED <<gameVars, outboxVars, disconnects, answers>>
    <3>1. CASE Replay(h)
      BY <3>1, <2>1 DEF Replay, Typed, TypeOK, Statuses
    <3>2. CASE Decline(h)
      BY <3>2, <2>1 DEF Decline, Typed, TypeOK, Statuses
    <3> QED BY <1>3, <3>1, <3>2
  <2> QED BY <2>2, <1>a DEF Typed, TypeOK
<1>4. ASSUME NEW h \in Handlers, SendAnswer(h) PROVE Typed'
  <2>1. Answer(Cmd(h), Expected(h), proc[h].outcome, TRUE)
          \in [cmd : Commands, expected : Nat, status : Statuses, stored : BOOLEAN]
    BY <1>4 DEF SendAnswer, At, Cmd, Expected, Answer, Typed, TypeOK, RunInv, PlayerPlaces
  <2> QED BY <1>4, <2>1, <1>a, <1>s DEF SendAnswer, Typed, TypeOK
<1>5. ASSUME NEW h \in Handlers, NEW name \in ServerCommands, BeginServer(h, name) PROVE Typed'
  <2>1. RunTyped'
    BY <1>5, <1>1 DEF BeginServer, Start, RunTyped, Runs, Typed, TypeOK, RunInv, Statuses, Places, PlayerPlaces,
       DisconnectPlaces, Mutations
  <2> QED BY <1>5, <2>1, <1>a DEF BeginServer, Typed, TypeOK
<1>6. ASSUME NEW h \in Handlers, ReplayServer(h) \/ DeclineServer(h) PROVE Typed'
  BY <1>6, <1>a, <1>s DEF ReplayServer, DeclineServer, Typed, TypeOK
<1>7. ASSUME NEW h \in Handlers, NEW s \in Sockets, LoseSocket(h, s) \/ FetchDisconnect(h, s) PROVE Typed'
  <2>1. ASSUME NEW at \in {"persisted", "recovering"}, Start(h, at, s, 0) PROVE RunTyped'
    BY <2>1 DEF Start, RunTyped, Runs, Typed, TypeOK, RunInv, Statuses, Places, PlayerPlaces, DisconnectPlaces, Mutations
  <2>2. disconnects' \in [Sockets -> {"none", "pending", "completed"}]
    BY <1>7 DEF LoseSocket, FetchDisconnect, Typed, TypeOK
  <2> QED BY <1>7, <2>1, <2>2, <1>b DEF LoseSocket, FetchDisconnect
<1>8. ASSUME NEW h \in Handlers, RecoverDisconnect(h) \/ CheckRoom(h) PROVE Typed'
  <2>1. ASSUME NEW at \in {"persisted", "reading"}, proc[h].pc \in {"recovering", "persisted"}, Go(h, at)
        PROVE  RunTyped'
    BY <2>1 DEF Go, RunTyped, Runs, Typed, TypeOK, RunInv, Statuses, Places, PlayerPlaces, DisconnectPlaces
  <2>2. disconnects' \in [Sockets -> {"none", "pending", "completed"}]
    BY <1>8 DEF RecoverDisconnect, CheckRoom, Typed, TypeOK
  <2>3. RunTyped'
    BY <1>8, <2>1, <1>s DEF RecoverDisconnect, CheckRoom, At
  <2> QED BY <1>8, <2>2, <2>3, <1>b DEF RecoverDisconnect, CheckRoom
<1>9. ASSUME NEW h \in Handlers, ReadVersion(h) PROVE Typed'
  <2>1. proc \in Runs /\ RunInv
    BY DEF Typed, TypeOK, Runs
  <2>2. proc' \in Runs
    <3>1. proc' = [proc EXCEPT ![h].pc = "leaving", ![h].expected = room.revision] /\ room.revision \in Nat
      BY <1>1, <1>9 DEF ReadVersion
    <3>2. "leaving" \in Places
      BY DEF Places
    <3> QED BY <2>1, <3>1, <3>2 DEF Runs
  <2>3. /\ proc'[h].pc = "leaving" /\ proc'[h].cmd = proc[h].cmd /\ proc[h].pc = "reading"
        /\ \A g \in Handlers \ {h} : proc'[g] = proc[g]
    BY <1>9, <2>1 DEF ReadVersion, At, Runs
  <2>4. RunTyped'
    BY <2>1, <2>2, <2>3 DEF RunTyped, RunInv, PlayerPlaces, DisconnectPlaces
  <2> QED BY <1>9, <2>4, <1>a DEF ReadVersion, Typed, TypeOK
<1>10. ASSUME NEW h \in Handlers, DeclineDisconnect(h) PROVE Typed'
  <2>1. ASSUME NEW as \in Statuses, Decide(h, "closing", as), At(h, "leaving") PROVE RunTyped'
    BY <2>1, DecideTyped DEF At, Places, PlayerPlaces, DisconnectPlaces
  <2>2. RunTyped'
    BY <1>10, <2>1 DEF DeclineDisconnect, Statuses
  <2> QED BY <1>10, <2>2, <1>a DEF DeclineDisconnect, Typed, TypeOK
<1>11. ASSUME NEW h \in Handlers, CloseDisconnect(h) \/ Abandon(h) PROVE Typed'
  <2>1. disconnects' \in [Sockets -> {"none", "pending", "completed"}]
    BY <1>11 DEF CloseDisconnect, Abandon, Typed, TypeOK
  <2> QED BY <1>11, <2>1, <1>b, <1>s DEF CloseDisconnect, Abandon
<1>12. ASSUME NEW q \in Publishers, PublishStep(q) PROVE Typed'
  <2>1. ASSUME NEW S, NEW n PROVE First(S, n) \subseteq S
    BY DEF First
  <2>2. pub \in [Publishers -> [batch : SUBSET outbox, sent : outbox \cup {None}]]
    BY DEF Typed, TypeOK
  <2>3. UNCHANGED <<gameVars, told, disconnects, proc>> => UNCHANGED <<room, log, receipts, outbox>>
    BY DEF gameVars
  <2>4. ASSUME UNCHANGED <<gameVars, told, disconnects, proc>>,
               pub' \in [Publishers -> [batch : SUBSET outbox, sent : outbox \cup {None}]],
               published' \subseteq outbox, delivered' \subseteq outbox,
               answers' \subseteq [cmd : Commands, expected : Nat, status : Statuses, stored : BOOLEAN]
        PROVE  Typed'
    BY <2>3, <2>4 DEF Typed, TypeOK, AckTyped, RunInv
  <2>5. CASE FetchEvents(q)
    <3>1. First(outbox \ published, BatchLimit) \in SUBSET outbox
      BY <2>1
    <3>2. pub' \in [Publishers -> [batch : SUBSET outbox, sent : outbox \cup {None}]]
      BY <2>2, <2>5, <3>1 DEF FetchEvents
    <3> QED BY <2>4, <2>5, <3>2 DEF FetchEvents, Typed, TypeOK
  <2>6. CASE DeliverEvent(q)
    <3>1. PICK e \in First(pub[q].batch, 1) :
            /\ delivered' = delivered \cup {e}
            /\ answers' = IF e.kind = "ack"
                          THEN answers \cup {Answer(e.cmd, e.revision - 1, "accepted", TRUE)}
                          ELSE answers
            /\ pub' = [pub EXCEPT ![q].sent = e]
      BY <2>6 DEF DeliverEvent
    <3>2. e \in outbox
      BY <2>1, <2>2, <3>1
    <3>3. answers' \subseteq [cmd : Commands, expected : Nat, status : Statuses, stored : BOOLEAN]
      <4>1. CASE e.kind = "ack"
        <5>1. Answer(e.cmd, e.revision - 1, "accepted", TRUE)
                \in [cmd : Commands, expected : Nat, status : Statuses, stored : BOOLEAN]
          BY <3>2, <4>1 DEF Answer, Typed, AckTyped, Statuses
        <5> QED BY <3>1, <4>1, <5>1 DEF Typed, TypeOK
      <4>2. CASE e.kind # "ack"
        BY <3>1, <4>2 DEF Typed, TypeOK
      <4> QED BY <4>1, <4>2
    <3>4. pub' \in [Publishers -> [batch : SUBSET outbox, sent : outbox \cup {None}]]
      BY <2>2, <3>1, <3>2
    <3> QED BY <2>4, <2>6, <3>1, <3>2, <3>3, <3>4 DEF DeliverEvent, Typed, TypeOK
  <2>7. CASE MarkPublished(q)
    <3>1. pub' \in [Publishers -> [batch : SUBSET outbox, sent : outbox \cup {None}]]
      BY <2>2, <2>7 DEF MarkPublished
    <3>2. published' \subseteq outbox
      BY <2>2, <2>7 DEF MarkPublished, Typed, TypeOK
    <3> QED BY <2>4, <2>7, <3>1, <3>2 DEF MarkPublished, Typed, TypeOK
  <2>8. CASE StopPublishing(q)
    <3>1. pub' \in [Publishers -> [batch : SUBSET outbox, sent : outbox \cup {None}]]
      BY <2>2, <2>8 DEF StopPublishing, Resting
    <3> QED BY <2>4, <2>8, <3>1 DEF StopPublishing, Typed, TypeOK
  <2> QED BY <1>12, <2>5, <2>6, <2>7, <2>8 DEF PublishStep
<1> QED BY <1>2, <1>3, <1>4, <1>5, <1>6, <1>7, <1>8, <1>9, <1>10, <1>11, <1>12 DEF QuietStep

(* The sets that only grow, and the room that changes with them. *)
LEMMA GameUpdate ==
    ASSUME Typed, UNCHANGED outboxVars, RunTyped', AckTyped',
           room' \in [phase : Phases, revision : Nat, acked : SUBSET Players],
           log' \subseteq [revision : Nat, cmd : Mutations, phase : Phases],
           receipts' \subseteq [cmd : Mutations, expected : Nat, status : Statuses],
           outbox \subseteq outbox',
           outbox' \subseteq [stamp : Int, revision : Nat, kind : {"state", "ack"}, cmd : Mutations],
           answers' \subseteq [cmd : Commands, expected : Nat, status : Statuses, stored : BOOLEAN],
           told' = told,
           disconnects' \in [Sockets -> {"none", "pending", "completed"}]
    PROVE  Typed'
<1>1. published' \subseteq outbox' /\ delivered' \subseteq outbox'
  BY DEF Typed, TypeOK, outboxVars
<1>2. pub' \in [Publishers -> [batch : SUBSET outbox', sent : outbox' \cup {None}]]
  <2>1. pub \in [Publishers -> [batch : SUBSET outbox, sent : outbox \cup {None}]] /\ pub' = pub
    BY DEF Typed, TypeOK, outboxVars
  <2>2. SUBSET outbox \subseteq SUBSET outbox'
    OBVIOUS
  <2> QED BY <2>1, <2>2
<1> QED BY <1>1, <1>2 DEF Typed, TypeOK, RunTyped, Runs

(* What a handler that runs a command may write. *)
LEMMA HandlerFacts ==
    ASSUME Typed, NEW h \in Handlers
    PROVE  /\ proc \in Runs /\ RunInv
           /\ Expected(h) \in Nat /\ Expected(h) + 1 \in Nat /\ Expected(h) + 2 \in Nat
           /\ proc[h].pc \in PlayerPlaces => Cmd(h) \in Commands
           /\ proc[h].pc = "serving" => Cmd(h) \in ServerCommands
           /\ proc[h].pc \in DisconnectPlaces => Cmd(h) \in Sockets
           /\ Cmd(h) \in Commands \cup ServerCommands \cup Sockets =>
                /\ Cmd(h) \in Mutations
                /\ \A as \in Statuses :
                     Receipt(h, as) \in [cmd : Mutations, expected : Nat, status : Statuses]
           /\ Stop(h) => RunTyped'
<1>1. proc \in Runs /\ RunInv
  BY DEF Typed, TypeOK, Runs
<1>2. Expected(h) \in Nat /\ Expected(h) + 1 \in Nat /\ Expected(h) + 2 \in Nat
  BY <1>1 DEF Runs, Expected
<1>3. Cmd(h) \in Commands \cup ServerCommands \cup Sockets => Cmd(h) \in Mutations
  BY DEF Mutations
<1>4. Stop(h) => RunTyped'
  BY <1>1 DEF RunTyped, Runs, RunInv, Stop, Idle, Statuses, Places, PlayerPlaces, DisconnectPlaces
<1> QED BY <1>1, <1>2, <1>3, <1>4 DEF RunInv, Cmd, Receipt

(* A step that writes to the game keeps every value of its kind. *)
LEMMA GameTyped == Typed /\ GameStep => Typed'
<1> SUFFICES ASSUME Typed, GameStep PROVE Typed'
  OBVIOUS
<1>1. /\ room \in [phase : Phases, revision : Nat, acked : SUBSET Players]
      /\ receipts \subseteq [cmd : Mutations, expected : Nat, status : Statuses]
      /\ answers \subseteq [cmd : Commands, expected : Nat, status : Statuses, stored : BOOLEAN]
      /\ disconnects \in [Sockets -> {"none", "pending", "completed"}]
      /\ room.revision + 1 \in Nat /\ room.revision + 1 - 1 \in Nat
      /\ RunTyped /\ AckTyped
  BY DEF Typed, TypeOK, RunTyped, Runs
<1>2. {"state"} \in SUBSET {"state", "ack"} /\ {} \in SUBSET {"state", "ack"}
  OBVIOUS
<1>3. ASSUME NEW h \in Handlers, Accept(h) PROVE Typed'
  <2>1. proc[h].pc = "executing" /\ Cmd(h) \in Commands
    BY <1>3, HandlerFacts DEF Accept, At, PlayerPlaces
  <2>2. PICK to \in Phases, kinds \in {{"ack"}, {"state", "ack"}} :
          Commit(Cmd(h), Expected(h) + 1, to, kinds)
    BY <1>3 DEF Accept
  <2>3. kinds \in SUBSET {"state", "ack"} /\ Expected(h) + 1 - 1 \in Nat
    BY HandlerFacts
  <2>4. RunTyped'
    BY <1>3, <2>1, DecideTyped DEF Accept, Places, Statuses, PlayerPlaces, DisconnectPlaces
  <2> QED BY <1>1, <1>3, <2>1, <2>2, <2>3, <2>4, HandlerFacts, CommitEffect, GameUpdate
          DEF Accept, Statuses
<1>4. ASSUME NEW h \in Handlers, StoreRejection(h) PROVE Typed'
  <2>1. proc[h].pc = "storing" /\ Cmd(h) \in Commands
    BY <1>4, HandlerFacts DEF StoreRejection, At, PlayerPlaces
  <2>2. RunTyped'
    BY <1>4, <2>1, DecideTyped DEF StoreRejection, Places, Statuses, PlayerPlaces, DisconnectPlaces
  <2>3. receipts' \subseteq [cmd : Mutations, expected : Nat, status : Statuses]
    BY <1>1, <1>4, <2>1, HandlerFacts DEF StoreRejection, Statuses
  <2>4. UNCHANGED <<room, log, outbox, outboxVars, answers, told, disconnects>> /\ AckTyped'
    BY <1>1, <1>4 DEF StoreRejection, AckTyped
  <2> QED BY <2>2, <2>3, <2>4, GameUpdate DEF Typed, TypeOK
<1>5. ASSUME NEW h \in Handlers, Serves(h)
      PROVE  /\ Cmd(h) \in Mutations /\ RunTyped' /\ UNCHANGED <<outboxVars, answers, told, disconnects>>
             /\ receipts' \subseteq [cmd : Mutations, expected : Nat, status : Statuses]
  <2>1. proc[h].pc = "serving" /\ Cmd(h) \in ServerCommands
    BY <1>5, HandlerFacts DEF Serves, At
  <2> QED BY <1>1, <1>5, <2>1, HandlerFacts DEF Serves, Statuses
<1>6. ASSUME NEW h \in Handlers, ServeStart(h) PROVE Typed'
  <2>1. "start" \in Mutations /\ "preparing" \in Phases /\ Serves(h)
    BY <1>6 DEF ServeStart, Mutations, ServerCommands, Phases
  <2>2. Commit("start", Expected(h) + 1, "preparing", {"state"})
    BY <1>6 DEF ServeStart
  <2> QED BY <1>1, <1>2, <1>5, <2>1, <2>2, HandlerFacts, CommitEffect, GameUpdate
<1>7. ASSUME NEW h \in Handlers, ServeForfeit(h) PROVE Typed'
  <2> DEFINE to == IF room.phase = "active" THEN "finished" ELSE room.phase
             kinds == IF room.phase = "active" THEN {"state"} ELSE {}
  <2>1. "forfeit" \in Mutations /\ to \in Phases /\ kinds \in SUBSET {"state", "ack"}
    BY <1>1 DEF Mutations, ServerCommands, Phases
  <2>2. Commit("forfeit", Expected(h) + 1, to, kinds) /\ Serves(h) /\ "ack" \notin kinds
    BY <1>7 DEF ServeForfeit
  <2> HIDE DEF to, kinds
  <2> QED BY <1>1, <1>5, <2>1, <2>2, HandlerFacts, CommitEffect, GameUpdate
<1>8. ASSUME NEW h \in Handlers, ServeCancel(h) PROVE Typed'
  <2>1. PICK skew \in 0..ClockSkew :
          outbox' = outbox \cup Events("cancel", Expected(h) + 2, {"state"}, Expected(h) + 2 - skew)
    BY <1>8 DEF ServeCancel
  <2>2. "cancel" \in Mutations /\ "forfeit" \in Mutations /\ "finished" \in Phases /\ Serves(h)
    BY <1>8 DEF ServeCancel, Mutations, ServerCommands, Phases
  <2>3. room' \in [phase : Phases, revision : Nat, acked : SUBSET Players]
    BY <1>1, <1>8, <2>2, HandlerFacts DEF ServeCancel
  <2>4. log' \subseteq [revision : Nat, cmd : Mutations, phase : Phases]
    BY <1>8, <2>2, HandlerFacts DEF ServeCancel, Entry, Typed, TypeOK
  <2>5. /\ outbox \subseteq outbox' /\ AckTyped'
        /\ outbox' \subseteq [stamp : Int, revision : Nat, kind : {"state", "ack"}, cmd : Mutations]
    <3> DEFINE r == Expected(h) + 2
    <3>1. r \in Nat /\ "ack" \notin {"state"}
      BY HandlerFacts
    <3>2. outbox' = outbox \cup Events("cancel", r, {"state"}, r - skew)
      <4>1. Expected(h) + 2 - skew = r - skew
        BY HandlerFacts, CommandAssumption
      <4> QED BY <2>1, <4>1
    <3> HIDE DEF r
    <3> QED BY <1>2, <2>2, <3>1, <3>2, EventsEffect
  <2> QED BY <1>1, <1>5, <2>2, <2>3, <2>4, <2>5, GameUpdate
<1>9. ASSUME NEW h \in Handlers, CompleteDisconnect(h) PROVE Typed'
  <2>1. proc[h].pc = "leaving" /\ Cmd(h) \in Sockets
    BY <1>9, HandlerFacts DEF CompleteDisconnect, At, DisconnectPlaces
  <2>2. PICK to \in {room.phase, "closed", "finished"} : \E kinds \in {{}, {"state"}} :
          Commit(Cmd(h), Expected(h) + 1, to, kinds)
    BY <1>9 DEF CompleteDisconnect
  <2>3. PICK kinds \in {{}, {"state"}} : Commit(Cmd(h), Expected(h) + 1, to, kinds)
    BY <2>2
  <2>4. to \in Phases /\ "ack" \notin kinds
    BY <1>1 DEF Phases
  <2>5. RunTyped'
    BY <1>9, <2>1, DecideTyped DEF CompleteDisconnect, Places, Statuses, PlayerPlaces, DisconnectPlaces
  <2>6. receipts' \subseteq [cmd : Mutations, expected : Nat, status : Statuses]
    BY <1>1, <1>9, <2>1, HandlerFacts DEF CompleteDisconnect, Statuses
  <2>7. /\ room' \in [phase : Phases, revision : Nat, acked : SUBSET Players]
        /\ log' \subseteq [revision : Nat, cmd : Mutations, phase : Phases]
        /\ outbox \subseteq outbox' /\ AckTyped'
        /\ outbox' \subseteq [stamp : Int, revision : Nat, kind : {"state", "ack"}, cmd : Mutations]
    BY <2>1, <2>3, <2>4, HandlerFacts, CommitEffect
  <2>8. disconnects' \in [Sockets -> {"none", "pending", "completed"}]
    BY <1>1, <1>9 DEF CompleteDisconnect
  <2> QED BY <1>1, <1>9, <2>5, <2>6, <2>7, <2>8, GameUpdate DEF CompleteDisconnect
<1>10. ASSUME CancelMatch PROVE
         /\ room' \in [phase : Phases, revision : Nat, acked : SUBSET Players]
         /\ log' \subseteq [revision : Nat, cmd : Mutations, phase : Phases]
         /\ outbox \subseteq outbox' /\ AckTyped'
         /\ outbox' \subseteq [stamp : Int, revision : Nat, kind : {"state", "ack"}, cmd : Mutations]
  <2>1. "cancel" \in Mutations /\ "finished" \in Phases
    BY DEF Mutations, Phases
  <2> QED BY <1>1, <1>2, <1>10, <2>1, CommitEffect DEF CancelMatch
<1>11. ASSUME JoinStarts PROVE Typed'
  <2>1. "start" \in Mutations /\ "preparing" \in Phases
    BY DEF Mutations, ServerCommands, Phases
  <2>2. Commit("start", room.revision + 1, "preparing", {"state"})
    BY <1>11 DEF JoinStarts
  <2>3. RunTyped'
    BY <1>1, <1>11 DEF JoinStarts, RunTyped, Runs, RunInv
  <2> QED BY <1>1, <1>2, <1>11, <2>1, <2>2, <2>3, CommitEffect, GameUpdate DEF JoinStarts
<1>12. ASSUME CountdownEnds PROVE Typed'
  <2>1. room' \in [phase : Phases, revision : Nat, acked : SUBSET Players]
    BY <1>1, <1>12 DEF CountdownEnds, Phases
  <2>2. RunTyped' /\ AckTyped'
    BY <1>1, <1>12 DEF CountdownEnds, RunTyped, Runs, RunInv, AckTyped
  <2> QED BY <1>12, <2>1, <2>2, GameUpdate DEF CountdownEnds, Typed, TypeOK
<1>13. ASSUME CancelExpired PROVE Typed'
  <2>1. RunTyped'
    BY <1>1, <1>13 DEF CancelExpired, RunTyped, Runs, RunInv
  <2> QED BY <1>1, <1>10, <1>13, <2>1, GameUpdate DEF CancelExpired
<1>14. ASSUME NEW p \in Players, Acknowledge(p) PROVE Typed'
  <2> DEFINE acked == room.acked \cup {p}
  <2>1. UNCHANGED <<receipts, outboxVars, answers, told, disconnects, proc>>
    BY <1>14 DEF Acknowledge
  <2>2. RunTyped'
    BY <1>1, <2>1 DEF RunTyped, Runs, RunInv
  <2>3. acked \in SUBSET Players
    BY <1>1
  <2>4. CASE acked = Players
    <3>1. /\ room' = [phase |-> "countdown", revision |-> room.revision + 1, acked |-> acked]
          /\ log' = log \cup {Entry("barrier", room.revision + 1)}
      BY <1>14, <2>4 DEF Acknowledge
    <3>2. PICK skew \in 0..ClockSkew : outbox' = outbox
            \cup Events("barrier", room.revision + 1, {"state"}, room.revision + 1 - skew)
      BY <1>14, <2>4 DEF Acknowledge
    <3>3. "barrier" \in Mutations /\ "countdown" \in Phases
      BY DEF Mutations, Phases
    <3>4. room' \in [phase : Phases, revision : Nat, acked : SUBSET Players]
      BY <1>1, <2>3, <3>1, <3>3
    <3>5. log' \subseteq [revision : Nat, cmd : Mutations, phase : Phases]
      BY <1>1, <3>1, <3>3 DEF Entry, Typed, TypeOK
    <3>6. /\ outbox \subseteq outbox' /\ AckTyped'
          /\ outbox' \subseteq [stamp : Int, revision : Nat, kind : {"state", "ack"}, cmd : Mutations]
      <4>1. "ack" \notin {"state"}
        OBVIOUS
      <4> QED BY <1>1, <1>2, <3>2, <3>3, <4>1, EventsEffect
    <3> QED BY <1>1, <2>1, <2>2, <3>4, <3>5, <3>6, GameUpdate
  <2>5. CASE acked # Players
    <3>1. room' \in [phase : Phases, revision : Nat, acked : SUBSET Players] /\ UNCHANGED <<log, outbox>>
      BY <1>1, <1>14, <2>3, <2>5 DEF Acknowledge
    <3> QED BY <1>1, <2>1, <2>2, <3>1, GameUpdate DEF Typed, TypeOK, AckTyped
  <2> QED BY <2>4, <2>5
<1>15. ASSUME NEW c \in Commands, NEW v \in Sent[c], RefuseInactive(c, v) PROVE Typed'
  <2>1. Answer(c, v, "rejected", FALSE)
          \in [cmd : Commands, expected : Nat, status : Statuses, stored : BOOLEAN]
    BY CommandAssumption DEF Answer, Statuses
  <2>2. answers' \subseteq [cmd : Commands, expected : Nat, status : Statuses, stored : BOOLEAN]
    BY <1>1, <1>15, <2>1 DEF RefuseInactive
  <2>3. RunTyped'
    BY <1>1, <1>15 DEF RefuseInactive, RunTyped, Runs, RunInv
  <2>4. CASE CancelMatch /\ UNCHANGED receipts
    <3>1. RunTyped' /\ told' = told /\ UNCHANGED <<outboxVars, disconnects>>
      BY <1>15, <2>3 DEF RefuseInactive
    <3> QED BY <1>1, <1>10, <2>2, <2>4, <3>1, GameUpdate
  <2>5. CASE UNCHANGED gameVars
    BY <1>1, <1>15, <2>2, <2>3, <2>5, GameUpdate DEF RefuseInactive, gameVars, Typed, TypeOK, AckTyped
  <2> QED BY <1>15, <2>4, <2>5 DEF RefuseInactive
<1> QED BY <1>3, <1>4, <1>6, <1>7, <1>8, <1>9, <1>11, <1>12, <1>13, <1>14, <1>15 DEF GameStep, MatchStep

(* The types and what each handler runs hold in every state. *)
LEMMA TypedHolds == Spec => []Typed
<1>1. Typed /\ [Next]_vars => Typed'
  <2>1. ASSUME Typed, UNCHANGED vars PROVE Typed'
    BY <2>1 DEF Typed, TypeOK, RunInv, AckTyped, vars, gameVars, outboxVars
  <2> QED BY <2>1, QuietTyped, GameTyped, NextCases
<1> QED BY InitTyped, <1>1, PTL DEF Spec

(* Every variable keeps its type: only committed events are published, and
   only commands of players are answered. *)
THEOREM TypeCorrect == Spec => []TypeOK
BY TypedHolds, PTL DEF Typed

-----------------------------------------------------------------------------
(* The game and its receipts. *)

(* A mutation that is no player's move: it takes the next revision, keeps the
   receipts of the players, and cancels or starts only a match in preparation. *)
LEMMA ServerCommit ==
    ASSUME Typed, GameInv, NEW c \in Mutations \ Commands,
           room'.revision = room.revision + 1,
           log' = log \cup {Entry(c, room.revision + 1)},
           \A r : r.cmd \in Commands => (r \in receipts' <=> r \in receipts),
           \A r \in receipts' : r.cmd \in Sockets /\ r.status = "accepted" => r \in receipts \/ r.cmd = c,
           room'.phase \in {"waiting", "preparing"} =>
             room.phase \in {"waiting", "preparing"} /\ c # "barrier",
           room.phase = "finished" => room'.phase = "finished",
           c = "barrier" => room.phase = "preparing",
           c = "cancel" => room.phase = "preparing" /\ room'.phase = "finished"
    PROVE  GameInv'
<1> DEFINE new == Entry(c, room.revision + 1)
<1>1. room.revision \in Nat /\ log \subseteq [revision : Nat, cmd : Mutations, phase : Phases]
  BY DEF Typed, TypeOK
<1>2. new.revision = room.revision + 1 /\ new.cmd = c /\ log' = log \cup {new}
  BY DEF Entry
<1> HIDE DEF new
<1>3. OneMutationPerRevision'
  <2>1. \A e \in log : e.revision \in 1..room.revision /\ e.revision # new.revision
    BY <1>1, <1>2 DEF GameInv, LogInv, OneMutationPerRevision
  <2>2. \A e1, e2 \in log' : e1.revision = e2.revision => e1 = e2
    BY <1>2, <2>1 DEF GameInv, LogInv, OneMutationPerRevision
  <2>3. \A e \in log' : e.revision \in 1..room'.revision
    BY <1>1, <1>2, <2>1
  <2> QED BY <2>2, <2>3 DEF OneMutationPerRevision
<1>4. AppliedIffAccepted'
  <2>1. \A d \in Commands : \A e : e.cmd = d => (e \in log' <=> e \in log)
    BY <1>2
  <2> QED BY <2>1 DEF GameInv, LogInv, AppliedIffAccepted, Stored
<1>5. \A r1, r2 \in receipts' : r1.cmd = r2.cmd /\ r1.cmd \in Commands => r1 = r2
  BY DEF GameInv, LogInv
<1>6. \A r \in receipts' : r.cmd \in Sockets /\ r.status = "accepted" => \E e \in log' : e.cmd = r.cmd
  BY <1>2 DEF GameInv, LogInv
<1>7. PhaseInv'
  <2>1. room'.phase \in {"waiting", "preparing"} => \A e \in log' : Unplayed(e)
    BY <1>2 DEF GameInv, PhaseInv, Unplayed
  <2>2. (\E e \in log' : e.cmd = "cancel") => room'.phase = "finished"
    BY <1>2 DEF GameInv, PhaseInv
  <2>3. CancelledIsNotPlayed'
    BY <1>2 DEF GameInv, PhaseInv, CancelledIsNotPlayed, Unplayed
  <2> QED BY <2>1, <2>2, <2>3 DEF PhaseInv
<1> QED BY <1>3, <1>4, <1>5, <1>6, <1>7 DEF GameInv, LogInv

(* A player's command: the first with its id, at the next revision. *)
LEMMA AcceptGame == ASSUME Typed, GameInv, NEW h \in Handlers, Accept(h) PROVE GameInv'
<1> DEFINE new == Entry(Cmd(h), room.revision + 1)
           receipt == Receipt(h, "accepted")
<1>1. /\ room.revision \in Nat /\ log \subseteq [revision : Nat, cmd : Mutations, phase : Phases]
      /\ Cmd(h) \in Commands /\ Cmd(h) \in Mutations /\ Expected(h) = room.revision
  BY HandlerFacts DEF Typed, TypeOK, Accept, At, PlayerPlaces, VersionHolds
<1>2. PICK to \in Phases, kinds \in {{"ack"}, {"state", "ack"}} :
        Leads(Cmd(h), to) /\ Commit(Cmd(h), Expected(h) + 1, to, kinds)
  BY DEF Accept
<1>3. /\ room' = [room EXCEPT !.phase = to, !.revision = room.revision + 1]
      /\ log' = log \cup {new}
  BY <1>1, <1>2 DEF Commit
<1>4. /\ new.revision = room.revision + 1 /\ new.cmd = Cmd(h) /\ new.phase = room.phase
      /\ room'.revision = room.revision + 1 /\ room'.phase = to
  BY <1>3 DEF Typed, TypeOK, Entry
<1>5. /\ receipts' = receipts \cup {receipt} /\ receipt.cmd = Cmd(h) /\ receipt.status = "accepted"
      /\ \A r \in receipts : r.cmd # Cmd(h)
      /\ room.phase \in {"waiting", "closed", "active"}
      /\ to \in {"waiting", "preparing"} => room.phase = "waiting"
  BY <1>2 DEF Accept, Receipt, Stored, Leads, CanPlay
<1> HIDE DEF new, receipt
<1>6. \A e \in log : e.cmd # Cmd(h)
  BY <1>1, <1>5 DEF GameInv, LogInv, AppliedIffAccepted, Stored
<1>7. OneMutationPerRevision'
  <2>1. \A e \in log : e.revision \in 1..room.revision /\ e.revision # new.revision
    BY <1>1, <1>4 DEF GameInv, LogInv, OneMutationPerRevision
  <2>2. \A e1, e2 \in log' : e1.revision = e2.revision => e1 = e2
    BY <1>3, <2>1 DEF GameInv, LogInv, OneMutationPerRevision
  <2>3. \A e \in log' : e.revision \in 1..room'.revision
    BY <1>1, <1>3, <1>4, <2>1
  <2> QED BY <2>2, <2>3 DEF OneMutationPerRevision
<1>8. AppliedIffAccepted'
  <2>1. ASSUME NEW d \in Commands
        PROVE  /\ \A e1, e2 \in log' : e1.cmd = d /\ e2.cmd = d => e1 = e2
               /\ (\E e \in log' : e.cmd = d) <=> (\E r \in receipts' : r.cmd = d /\ r.status = "accepted")
    <3>1. CASE d = Cmd(h)
      BY <1>3, <1>4, <1>5, <1>6, <3>1
    <3>2. CASE d # Cmd(h)
      BY <1>3, <1>4, <1>5, <3>2 DEF GameInv, LogInv, AppliedIffAccepted, Stored
    <3> QED BY <3>1, <3>2
  <2> QED BY <2>1 DEF AppliedIffAccepted, Stored
<1>9. \A r1, r2 \in receipts' : r1.cmd = r2.cmd /\ r1.cmd \in Commands => r1 = r2
  BY <1>5 DEF GameInv, LogInv
<1>10. \A r \in receipts' : r.cmd \in Sockets /\ r.status = "accepted" => \E e \in log' : e.cmd = r.cmd
  BY <1>1, <1>3, <1>5, CommandAssumption DEF GameInv, LogInv
<1>11. PhaseInv'
  <2>1. ~\E e \in log' : e.cmd = "cancel"
    BY <1>1, <1>3, <1>4, <1>5, CommandAssumption DEF GameInv, PhaseInv
  <2>2. room'.phase \in {"waiting", "preparing"} => \A e \in log' : Unplayed(e)
    BY <1>1, <1>3, <1>4, <1>5, CommandAssumption DEF GameInv, PhaseInv, Unplayed
  <2> QED BY <2>1, <2>2 DEF PhaseInv, CancelledIsNotPlayed
<1> QED BY <1>7, <1>8, <1>9, <1>10, <1>11 DEF GameInv, LogInv

(* A server command replaces at most a receipt of its own name. *)
LEMMA ServesReceipts ==
    ASSUME Typed, NEW h \in Handlers, Serves(h)
    PROVE  /\ Cmd(h) \in ServerCommands /\ Expected(h) = room.revision
           /\ \A r : r.cmd \in Commands => (r \in receipts' <=> r \in receipts)
           /\ \A r \in receipts' : r.cmd \in Sockets /\ r.status = "accepted" => r \in receipts
<1>1. Cmd(h) \in ServerCommands /\ Expected(h) = room.revision
  BY HandlerFacts DEF Serves, At, VersionHolds
<1>2. Cmd(h) \notin Commands /\ Cmd(h) \notin Sockets
  BY <1>1, CommandAssumption DEF ServerCommands
<1>3. Receipt(h, "accepted").cmd = Cmd(h) /\ \A r \in Answered(h) : r.cmd = Cmd(h)
  BY DEF Receipt, Answered
<1> QED BY <1>1, <1>2, <1>3 DEF Serves

(* The forfeit of a match in preparation makes two mutations, one after the other. *)
LEMMA ServeCancelGame == ASSUME Typed, GameInv, NEW h \in Handlers, ServeCancel(h) PROVE GameInv'
<1> DEFINE n1 == Entry("forfeit", room.revision + 1)
           n2 == Entry("cancel", room.revision + 2)
<1>1. /\ room \in [phase : Phases, revision : Nat, acked : SUBSET Players] /\ room.phase = "preparing"
      /\ Serves(h)
  BY DEF Typed, TypeOK, ServeCancel, IsPreparing
<1>2. /\ room'.phase = "finished" /\ room'.revision = room.revision + 2 /\ log' = log \cup {n1, n2}
  BY <1>1, ServesReceipts DEF ServeCancel
<1>3. /\ n1.revision = room.revision + 1 /\ n1.cmd = "forfeit"
      /\ n2.revision = room.revision + 2 /\ n2.cmd = "cancel"
      /\ "forfeit" \notin Commands /\ "cancel" \notin Commands
  BY CommandAssumption DEF Entry
<1> HIDE DEF n1, n2
<1>4. OneMutationPerRevision'
  <2>1. \A e \in log : e.revision \in 1..room.revision
    BY DEF GameInv, LogInv, OneMutationPerRevision
  <2>2. \A e \in log : e.revision # n1.revision /\ e.revision # n2.revision
    BY <1>1, <1>3, <2>1
  <2>3. n1.revision # n2.revision
    BY <1>1, <1>3
  <2>4. \A e1, e2 \in log' : e1.revision = e2.revision => e1 = e2
    BY <1>2, <2>2, <2>3 DEF GameInv, LogInv, OneMutationPerRevision
  <2>5. \A e \in log' : e.revision \in 1..room'.revision
    BY <1>1, <1>2, <1>3, <2>1
  <2> QED BY <2>4, <2>5 DEF OneMutationPerRevision
<1>5. AppliedIffAccepted'
  <2>1. \A d \in Commands : \A e : e.cmd = d => (e \in log' <=> e \in log)
    BY <1>2, <1>3
  <2> QED BY <1>1, <2>1, ServesReceipts DEF GameInv, LogInv, AppliedIffAccepted, Stored
<1>6. \A r1, r2 \in receipts' : r1.cmd = r2.cmd /\ r1.cmd \in Commands => r1 = r2
  BY <1>1, ServesReceipts DEF GameInv, LogInv
<1>7. \A r \in receipts' : r.cmd \in Sockets /\ r.status = "accepted" => \E e \in log' : e.cmd = r.cmd
  BY <1>1, <1>2, ServesReceipts DEF GameInv, LogInv
<1>8. PhaseInv'
  <2>1. \A e \in log' : Unplayed(e)
    BY <1>1, <1>2, <1>3 DEF GameInv, PhaseInv, Unplayed
  <2> QED BY <1>2, <2>1 DEF PhaseInv, CancelledIsNotPlayed, Unplayed
<1> QED BY <1>4, <1>5, <1>6, <1>7, <1>8 DEF GameInv, LogInv

(* The first refusal of a command is its receipt, unless it has one. *)
LEMMA StoreGame == ASSUME Typed, GameInv, NEW h \in Handlers, StoreRejection(h) PROVE GameInv'
<1>1. /\ Cmd(h) \in Commands /\ UNCHANGED <<room, log>>
      /\ Receipt(h, "rejected").cmd = Cmd(h) /\ Receipt(h, "rejected").status = "rejected"
  BY HandlerFacts DEF StoreRejection, At, PlayerPlaces, Receipt
<1>2. CASE Stored(Cmd(h)) # {}
  <2>1. receipts' = receipts
    BY <1>2 DEF StoreRejection
  <2> QED BY <1>1, <2>1 DEF GameInv, LogInv, PhaseInv, OneMutationPerRevision, AppliedIffAccepted,
                            CancelledIsNotPlayed, Stored
<1>3. CASE Stored(Cmd(h)) = {}
  <2>1. receipts' = receipts \cup {Receipt(h, "rejected")} /\ \A r \in receipts : r.cmd # Cmd(h)
    BY <1>3 DEF StoreRejection, Stored
  <2>2. AppliedIffAccepted'
    <3>1. \A d \in Commands : (\E r \in receipts' : r.cmd = d /\ r.status = "accepted")
                              <=> (\E r \in receipts : r.cmd = d /\ r.status = "accepted")
      BY <1>1, <2>1
    <3> QED BY <1>1, <3>1 DEF GameInv, LogInv, AppliedIffAccepted, Stored
  <2>3. \A r1, r2 \in receipts' : r1.cmd = r2.cmd /\ r1.cmd \in Commands => r1 = r2
    BY <1>1, <2>1 DEF GameInv, LogInv
  <2>4. \A r \in receipts' : r.cmd \in Sockets /\ r.status = "accepted" => \E e \in log' : e.cmd = r.cmd
    BY <1>1, <2>1 DEF GameInv, LogInv
  <2> QED BY <1>1, <2>2, <2>3, <2>4 DEF GameInv, LogInv, PhaseInv, OneMutationPerRevision,
                                        CancelledIsNotPlayed
<1> QED BY <1>2, <1>3

(* Every other write is the mutation of a server command, of a disconnect,
   of the barrier or of a cancellation. *)
LEMMA GameKept == Typed /\ GameInv /\ GameStep => GameInv'
<1> SUFFICES ASSUME Typed, GameInv, GameStep PROVE GameInv'
  OBVIOUS
<1>1. /\ room \in [phase : Phases, revision : Nat, acked : SUBSET Players]
      /\ {"start", "forfeit", "barrier", "cancel"} \subseteq Mutations \ Commands
      /\ Sockets \subseteq Mutations \ Commands
      /\ Sockets \cap {"start", "forfeit", "barrier", "cancel"} = {}
  BY CommandAssumption DEF Typed, TypeOK, Mutations, ServerCommands
<1>2. ASSUME NEW c, NEW to, NEW kinds, Commit(c, room.revision + 1, to, kinds)
      PROVE  /\ room'.revision = room.revision + 1 /\ room'.phase = to
             /\ log' = log \cup {Entry(c, room.revision + 1)}
  BY <1>1, <1>2 DEF Commit
<1>3. ASSUME NEW h \in Handlers, ServeStart(h) PROVE GameInv'
  <2>1. Serves(h) /\ room.phase = "waiting" /\ Commit("start", Expected(h) + 1, "preparing", {"state"})
    BY <1>3 DEF ServeStart
  <2>2. Commit("start", room.revision + 1, "preparing", {"state"})
    BY <2>1, ServesReceipts
  <2> QED BY <1>1, <1>2, <2>1, <2>2, ServesReceipts, ServerCommit
<1>4. ASSUME NEW h \in Handlers, ServeForfeit(h) PROVE GameInv'
  <2> DEFINE to == IF room.phase = "active" THEN "finished" ELSE room.phase
             kinds == IF room.phase = "active" THEN {"state"} ELSE {}
  <2>1. Serves(h) /\ room.phase # "preparing" /\ Commit("forfeit", Expected(h) + 1, to, kinds)
    BY <1>4 DEF ServeForfeit, IsPreparing
  <2>2. Commit("forfeit", room.revision + 1, to, kinds)
    BY <2>1, ServesReceipts
  <2>3. room'.phase = to /\ room'.revision = room.revision + 1
        /\ log' = log \cup {Entry("forfeit", room.revision + 1)}
    BY <1>2, <2>2
  <2> QED BY <1>1, <2>1, <2>3, ServesReceipts, ServerCommit
<1>5. ASSUME NEW h \in Handlers, CompleteDisconnect(h) PROVE GameInv'
  <2>1. Cmd(h) \in Sockets /\ Expected(h) = room.revision
    BY <1>5, HandlerFacts DEF CompleteDisconnect, At, DisconnectPlaces, VersionHolds
  <2>2. PICK to \in {room.phase, "closed", "finished"} :
          /\ to = "closed" => room.phase \in {"waiting", "closed"}
          /\ to = "finished" => room.phase \in {"active", "finished"}
          /\ \E kinds \in {{}, {"state"}} : Commit(Cmd(h), room.revision + 1, to, kinds)
    BY <1>5, <2>1 DEF CompleteDisconnect
  <2>3. /\ room'.revision = room.revision + 1 /\ room'.phase = to
        /\ log' = log \cup {Entry(Cmd(h), room.revision + 1)}
    BY <1>2, <2>2
  <2>4. receipts' = receipts \cup {Receipt(h, "accepted")} /\ Receipt(h, "accepted").cmd = Cmd(h)
    BY <1>5 DEF CompleteDisconnect, Receipt
  <2>5. \A r : r.cmd \in Commands => (r \in receipts' <=> r \in receipts)
    BY <1>1, <2>1, <2>4
  <2>6. \A r \in receipts' : r.cmd \in Sockets /\ r.status = "accepted" => r \in receipts \/ r.cmd = Cmd(h)
    BY <2>4
  <2> QED BY <1>1, <2>1, <2>2, <2>3, <2>5, <2>6, ServerCommit
<1>6. ASSUME JoinStarts PROVE GameInv'
  <2>1. receipts' = receipts /\ room.phase = "waiting" /\ Commit("start", room.revision + 1, "preparing", {"state"})
    BY <1>6 DEF JoinStarts
  <2> QED BY <1>1, <1>2, <2>1, ServerCommit
<1>7. ASSUME IsPreparing, CancelMatch, UNCHANGED receipts PROVE GameInv'
  <2>1. receipts' = receipts /\ room.phase = "preparing" /\ Commit("cancel", room.revision + 1, "finished", {"state"})
    BY <1>7 DEF CancelMatch, IsPreparing
  <2> QED BY <1>1, <1>2, <2>1, ServerCommit
<1>8. ASSUME UNCHANGED <<log, receipts>>, room'.revision = room.revision,
             room'.phase = room.phase \/ (room.phase = "countdown" /\ room'.phase = "active")
      PROVE  GameInv'
  BY <1>8 DEF GameInv, LogInv, PhaseInv, OneMutationPerRevision, AppliedIffAccepted,
              CancelledIsNotPlayed, Stored
<1>9. ASSUME CountdownEnds PROVE GameInv'
  <2>1. room.phase = "countdown" /\ room'.phase = "active" /\ room'.revision = room.revision
        /\ UNCHANGED <<log, receipts>>
    BY <1>1, <1>9 DEF CountdownEnds
  <2> QED BY <1>8, <2>1
<1>10. ASSUME NEW p \in Players, Acknowledge(p) PROVE GameInv'
  <2> DEFINE acked == room.acked \cup {p}
  <2>1. receipts' = receipts /\ room.phase = "preparing"
    BY <1>10 DEF Acknowledge, IsPreparing
  <2>2. CASE acked = Players
    <3>1. /\ room'.phase = "countdown" /\ room'.revision = room.revision + 1
          /\ log' = log \cup {Entry("barrier", room.revision + 1)}
      BY <1>10, <2>2 DEF Acknowledge
    <3> QED BY <1>1, <2>1, <3>1, ServerCommit
  <2>3. CASE acked # Players
    BY <1>1, <1>8, <1>10, <2>1, <2>3 DEF Acknowledge
  <2> QED BY <2>2, <2>3
<1>11. ASSUME NEW c \in Commands, NEW v \in Sent[c], RefuseInactive(c, v) PROVE GameInv'
  <2>1. CASE UNCHANGED gameVars
    BY <1>8, <2>1 DEF gameVars
  <2> QED BY <1>7, <1>11, <2>1 DEF RefuseInactive
<1> QED BY <1>3, <1>4, <1>5, <1>6, <1>7, <1>9, <1>10, <1>11, AcceptGame, StoreGame, ServeCancelGame
        DEF GameStep, MatchStep, CancelExpired

-----------------------------------------------------------------------------
(* What only grows. *)

Finished == room.phase = "finished"

Growth ==
    /\ log \subseteq log' /\ outbox \subseteq outbox'
    /\ \A r \in receipts : r.cmd \in Commands => r \in receipts'
    /\ Over => Over'
    /\ Finished => Finished'

(* The log and the outbox only grow, the receipt of a player stays, and a
   room that is over stays so. *)
LEMMA Grows == Typed /\ [Next]_vars => Growth
<1> SUFFICES ASSUME Typed, [Next]_vars PROVE Growth
  OBVIOUS
<1>1. CASE UNCHANGED gameVars
  BY <1>1 DEF Growth, gameVars, Over, Finished
<1>2. CASE QuietStep
  <2>1. UNCHANGED gameVars
    BY <1>2 DEF QuietStep, SendCommand, Replay, Decline, SendAnswer, BeginServer, ReplayServer,
       DeclineServer, LoseSocket, FetchDisconnect, RecoverDisconnect, CheckRoom, ReadVersion,
       DeclineDisconnect, CloseDisconnect, Abandon, PublishStep, FetchEvents, DeliverEvent,
       MarkPublished, StopPublishing
  <2> QED BY <1>1, <2>1
<1>3. /\ room \in [phase : Phases, revision : Nat, acked : SUBSET Players]
  BY DEF Typed, TypeOK
<1>4. ASSUME NEW c, NEW r, NEW to, NEW kinds, Commit(c, r, to, kinds)
      PROVE  room'.phase = to /\ log \subseteq log' /\ outbox \subseteq outbox'
  BY <1>3, <1>4 DEF Commit
<1>5. ASSUME NEW h \in Handlers, Accept(h) PROVE Growth
  <2>1. PICK to, kinds : Leads(Cmd(h), to) /\ Commit(Cmd(h), Expected(h) + 1, to, kinds)
    BY <1>5 DEF Accept
  <2> QED BY <1>4, <1>5, <2>1 DEF Accept, Leads, CanPlay, Growth, Over, Finished
<1>6. ASSUME NEW h \in Handlers, StoreRejection(h) PROVE Growth
  BY <1>6 DEF StoreRejection, Growth, Over, Finished
<1>7. ASSUME NEW h \in Handlers, ServeStart(h) \/ ServeForfeit(h) PROVE Growth
  <2>1. Serves(h) /\ log \subseteq log' /\ outbox \subseteq outbox'
    BY <1>4, <1>7 DEF ServeStart, ServeForfeit
  <2>2. (Over => Over') /\ (Finished => Finished')
    BY <1>4, <1>7 DEF ServeStart, ServeForfeit, Over, Finished
  <2> QED BY <2>1, <2>2, ServesReceipts DEF Growth
<1>8. ASSUME NEW h \in Handlers, ServeCancel(h) PROVE Growth
  <2>1. Serves(h) /\ log \subseteq log' /\ outbox \subseteq outbox' /\ room.phase = "preparing"
    BY <1>8 DEF ServeCancel, IsPreparing
  <2> QED BY <2>1, ServesReceipts DEF Growth, Over, Finished
<1>9. ASSUME NEW h \in Handlers, CompleteDisconnect(h) PROVE Growth
  <2>1. PICK to \in {room.phase, "closed", "finished"} :
          /\ to = "closed" => room.phase \in {"waiting", "closed"}
          /\ \E kinds : Commit(Cmd(h), Expected(h) + 1, to, kinds)
    BY <1>9 DEF CompleteDisconnect
  <2> QED BY <1>4, <1>9, <2>1 DEF CompleteDisconnect, Growth, Over, Finished
<1>10. ASSUME JoinStarts \/ CancelExpired PROVE Growth
  BY <1>4, <1>10 DEF JoinStarts, CancelExpired, CancelMatch, IsPreparing, Growth, Over, Finished
<1>11. ASSUME CountdownEnds PROVE Growth
  BY <1>3, <1>11 DEF CountdownEnds, Growth, Over, Finished
<1>12. ASSUME NEW p \in Players, Acknowledge(p) PROVE Growth
  BY <1>12 DEF Acknowledge, IsPreparing, Growth, Over, Finished
<1>13. ASSUME NEW c \in Commands, NEW v \in Sent[c], RefuseInactive(c, v) PROVE Growth
  BY <1>1, <1>4, <1>13 DEF RefuseInactive, CancelMatch, IsPreparing, Growth, Over, Finished
<1>14. CASE UNCHANGED vars
  BY <1>1, <1>14 DEF vars, gameVars
<1> QED BY <1>2, <1>5, <1>6, <1>7, <1>8, <1>9, <1>10, <1>11, <1>12, <1>13, <1>14, NextCases
        DEF GameStep, MatchStep

-----------------------------------------------------------------------------
(* Answers and disconnects. *)

(* The steps that bring a handler to its answer or to the closing of its row. *)
DecidingStep(h) ==
    Replay(h) \/ Accept(h) \/ StoreRejection(h) \/ CompleteDisconnect(h) \/ DeclineDisconnect(h)

(* The steps that send an answer to a player. *)
SendingStep ==
    \/ \E h \in Handlers : SendAnswer(h)
    \/ \E q \in Publishers : DeliverEvent(q)
    \/ \E c \in Commands : \E v \in Sent[c] : RefuseInactive(c, v)

Settled(h) ==
    \A g \in Handlers \ {h} : proc'[g].pc \in {"answering", "closing"} => proc'[g] = proc[g]

(* A handler at one of those two places came there by its own step. *)
LEMMA SettledKept ==
    Typed /\ [Next]_vars =>
        \/ \E h \in Handlers : DecidingStep(h) /\ Settled(h)
        \/ \A g \in Handlers : proc'[g].pc \in {"answering", "closing"} => proc'[g] = proc[g]
<1> SUFFICES ASSUME Typed, [Next]_vars
             PROVE  \/ \E h \in Handlers : DecidingStep(h) /\ Settled(h)
                    \/ \A g \in Handlers : proc'[g].pc \in {"answering", "closing"} => proc'[g] = proc[g]
  OBVIOUS
<1> DEFINE Kept == \A g \in Handlers : proc'[g].pc \in {"answering", "closing"} => proc'[g] = proc[g]
<1>1. proc \in Runs
  BY DEF Typed, TypeOK, Runs
<1>2. ASSUME NEW h \in Handlers, NEW at \in Places, NEW as, Decide(h, at, as) PROVE Settled(h)
  BY <1>1, <1>2 DEF Decide, Settled, Runs
<1>3. ASSUME NEW h \in Handlers, DecidingStep(h) PROVE Settled(h)
  BY <1>2, <1>3 DEF DecidingStep, Replay, Accept, StoreRejection, CompleteDisconnect,
     DeclineDisconnect, Places
<1>4. ASSUME NEW h \in Handlers,
             \/ Stop(h)
             \/ \E at : at \notin {"answering", "closing"} /\ Go(h, at)
             \/ \E at, c, v : at \notin {"answering", "closing"} /\ Start(h, at, c, v)
             \/ \E at, as : at \notin {"answering", "closing"} /\ Decide(h, at, as)
      PROVE  Kept
  <2>1. CASE Stop(h)
    BY <1>1, <2>1 DEF Stop, Idle, Runs
  <2>2. ASSUME NEW at, at \notin {"answering", "closing"}, Go(h, at) PROVE Kept
    BY <1>1, <2>2 DEF Go, Runs
  <2>3. ASSUME NEW at, NEW c, NEW v, at \notin {"answering", "closing"}, Start(h, at, c, v) PROVE Kept
    BY <1>1, <2>3 DEF Start, Runs
  <2>4. ASSUME NEW at, NEW as, at \notin {"answering", "closing"}, Decide(h, at, as) PROVE Kept
    BY <1>1, <2>4 DEF Decide, Runs
  <2> QED BY <1>4, <2>1, <2>2, <2>3, <2>4
<1>5. CASE UNCHANGED proc
  BY <1>5
<1>6. ASSUME NEW h \in Handlers, PlayerStep(h), ~DecidingStep(h) PROVE Kept
  <2>1. CASE \E c \in Commands : \E v \in Sent[c] : SendCommand(h, c, v)
    BY <1>4, <2>1 DEF SendCommand
  <2>2. CASE Decline(h)
    BY <1>4, <2>2 DEF Decline
  <2>3. CASE SendAnswer(h)
    BY <1>4, <2>3 DEF SendAnswer
  <2> QED BY <1>6, <2>1, <2>2, <2>3 DEF PlayerStep, DecidingStep
<1>7. ASSUME NEW h \in Handlers, ServerStep(h) PROVE Kept
  BY <1>4, <1>7 DEF ServerStep, BeginServer, ReplayServer, DeclineServer, ServeStart, ServeForfeit,
     ServeCancel, Serves
<1>8. ASSUME NEW h \in Handlers, ReadVersion(h) PROVE Kept
  BY <1>1, <1>8 DEF ReadVersion, Runs
<1>9. ASSUME NEW h \in Handlers, DisconnectStep(h), ~DecidingStep(h) PROVE Kept
  BY <1>4, <1>8, <1>9 DEF DisconnectStep, DecidingStep, LoseSocket, FetchDisconnect, RecoverDisconnect,
     CheckRoom, CloseDisconnect
<1>10. ASSUME NEW h \in Handlers, Abandon(h) PROVE Kept
  BY <1>4, <1>10 DEF Abandon
<1>11. ASSUME MatchStep \/ (\E q \in Publishers : PublishStep(q)) \/ UNCHANGED vars PROVE Kept
  BY <1>5, <1>11 DEF MatchStep, JoinStarts, CountdownEnds, CancelExpired, Acknowledge, RefuseInactive,
     PublishStep, FetchEvents, DeliverEvent, MarkPublished, StopPublishing, vars
<1> HIDE DEF Kept
<1>12. Kept \/ \E h \in Handlers : DecidingStep(h)
  BY <1>6, <1>7, <1>9, <1>10, <1>11 DEF Next, HandlerStep
<1> QED BY <1>3, <1>12 DEF Kept

(* What a deciding step decides is what the receipt says, or a committed run. *)
LEMMA Deciding ==
    ASSUME Typed, GameInv, NEW h \in Handlers, DecidingStep(h)
    PROVE  /\ proc'[h].pc = "answering" =>
                Matches(receipts', proc'[h].cmd, proc'[h].expected, proc'[h].outcome)
           /\ proc'[h].pc = "closing" /\ proc'[h].outcome = "accepted" =>
                \E e \in log' : e.cmd = proc'[h].cmd
<1>1. proc \in Runs
  BY DEF Typed, TypeOK, Runs
<1>2. ASSUME NEW at, NEW as, Decide(h, at, as)
      PROVE  /\ proc'[h].pc = at /\ proc'[h].outcome = as
             /\ proc'[h].cmd = Cmd(h) /\ proc'[h].expected = Expected(h)
  BY <1>1, <1>2 DEF Decide, Runs, Cmd, Expected
<1>3. ASSUME AcceptedBy(h) # {} PROVE \E r \in receipts : r.cmd = Cmd(h) /\ r.expected = Expected(h)
                                                          /\ r.status = "accepted"
  BY <1>3 DEF AcceptedBy, Answered
<1>4. CASE Replay(h)
  <2>1. CASE AcceptedBy(h) # {}
    <3>1. Decide(h, "answering", "accepted") /\ receipts' = receipts
      BY <1>4, <2>1 DEF Replay, gameVars
    <3> QED BY <1>2, <1>3, <2>1, <3>1 DEF Matches
  <2>2. CASE AcceptedBy(h) = {}
    <3>1. Decide(h, "storing", "rejected")
      BY <1>4, <2>2 DEF Replay
    <3> QED BY <1>2, <3>1
  <2> QED BY <2>1, <2>2
<1>5. CASE Accept(h)
  <2>1. Receipt(h, "accepted") \in receipts' /\ Decide(h, "answering", "accepted")
    BY <1>5 DEF Accept
  <2>2. /\ Receipt(h, "accepted").cmd = Cmd(h) /\ Receipt(h, "accepted").expected = Expected(h)
        /\ Receipt(h, "accepted").status = "accepted"
    BY DEF Receipt
  <2> QED BY <1>2, <2>1, <2>2 DEF Matches
<1>6. CASE StoreRejection(h)
  <2> DEFINE as == IF AcceptedBy(h) # {} THEN "accepted" ELSE "rejected"
             new == Receipt(h, "rejected")
  <2>1. Decide(h, "answering", as) /\ receipts' = IF Stored(Cmd(h)) = {} THEN receipts \cup {new} ELSE receipts
    BY <1>6 DEF StoreRejection
  <2>2. new.cmd = Cmd(h) /\ new.expected = Expected(h) /\ new.status = "rejected"
    BY DEF Receipt
  <2>3. Matches(receipts', Cmd(h), Expected(h), as)
    <3>1. CASE Stored(Cmd(h)) = {}
      <4>1. AcceptedBy(h) = {}
        BY <3>1 DEF Stored, AcceptedBy, Answered
      <4> QED BY <2>1, <2>2, <3>1, <4>1 DEF Matches
    <3>2. CASE AcceptedBy(h) # {}
      BY <1>3, <2>1, <3>2 DEF Matches, Stored
    <3>3. CASE Stored(Cmd(h)) # {} /\ AcceptedBy(h) = {}
      <4>1. PICK r \in receipts : r.cmd = Cmd(h)
        BY <3>3 DEF Stored
      <4>2. r.expected = Expected(h) => r.status = "rejected"
        BY <3>3, <4>1 DEF AcceptedBy, Answered, Typed, TypeOK, Statuses
      <4>3. as = IF r.expected = Expected(h) THEN r.status ELSE "rejected"
        BY <3>3, <4>2
      <4>4. r \in receipts'
        BY <2>1, <3>3
      <4> QED BY <4>1, <4>3, <4>4 DEF Matches
    <3> QED BY <3>1, <3>2, <3>3
  <2>4. /\ proc'[h].pc = "answering" /\ proc'[h].outcome = as
        /\ proc'[h].cmd = Cmd(h) /\ proc'[h].expected = Expected(h)
    BY <1>2, <2>1
  <2> QED BY <2>3, <2>4
<1>7. CASE CompleteDisconnect(h)
  <2>1. PICK to, kinds : Commit(Cmd(h), Expected(h) + 1, to, kinds)
    BY <1>7 DEF CompleteDisconnect
  <2>2. \E e \in log' : e.cmd = Cmd(h)
    <3>1. Entry(Cmd(h), Expected(h) + 1) \in log'
      BY <2>1 DEF Commit
    <3> QED BY <3>1 DEF Entry
  <2>3. Decide(h, "closing", "accepted")
    BY <1>7 DEF CompleteDisconnect
  <2>4. proc'[h].pc = "closing" /\ proc'[h].cmd = Cmd(h)
    BY <1>2, <2>3
  <2> QED BY <2>2, <2>4
<1>8. CASE DeclineDisconnect(h)
  <2>1. Cmd(h) \in Sockets /\ log' = log
    BY <1>8, HandlerFacts DEF DeclineDisconnect, At, DisconnectPlaces, gameVars
  <2>2. AcceptedBy(h) # {} => \E e \in log : e.cmd = Cmd(h)
    BY <1>3, <2>1 DEF GameInv, LogInv
  <2> QED BY <1>2, <1>8, <2>1, <2>2 DEF DeclineDisconnect
<1> QED BY <1>4, <1>5, <1>6, <1>7, <1>8 DEF DecidingStep

(* An event that leaves with a player's move carries the acceptance its receipt has. *)
LEMMA NewAnswers ==
    Typed /\ [Next]_vars =>
        \A e \in outbox' : e.kind = "ack" => e \in outbox \/ Matches(receipts', e.cmd, e.revision - 1, "accepted")
<1> SUFFICES ASSUME Typed, [Next]_vars, NEW e \in outbox', e.kind = "ack", e \notin outbox
             PROVE  Matches(receipts', e.cmd, e.revision - 1, "accepted")
  OBVIOUS
<1>1. GameStep
  BY NextCases DEF QuietStep, SendCommand, Replay, Decline, SendAnswer, BeginServer, ReplayServer,
     DeclineServer, LoseSocket, FetchDisconnect, RecoverDisconnect, CheckRoom, ReadVersion,
     DeclineDisconnect, CloseDisconnect, Abandon, PublishStep, FetchEvents, DeliverEvent,
     MarkPublished, StopPublishing, gameVars, vars
<1>2. ASSUME NEW c, NEW r, NEW kinds, NEW stamp, e \in Events(c, r, kinds, stamp)
      PROVE  e.cmd = c /\ e.revision = r /\ "ack" \in kinds
  BY <1>2 DEF Events
<1>3. ASSUME NEW c, NEW r, NEW to, NEW kinds, Commit(c, r, to, kinds)
      PROVE  e.cmd = c /\ e.revision = r /\ "ack" \in kinds
  BY <1>2, <1>3 DEF Commit
<1>4. PICK h \in Handlers : Accept(h)
  <2>1. ASSUME NEW h \in Handlers, StoreRejection(h) \/ ServeStart(h) \/ ServeForfeit(h) PROVE FALSE
    BY <1>3, <2>1 DEF StoreRejection, ServeStart, ServeForfeit
  <2>2. ASSUME NEW h \in Handlers, ServeCancel(h) PROVE FALSE
    BY <1>2, <2>2 DEF ServeCancel
  <2>3. ASSUME NEW h \in Handlers, CompleteDisconnect(h) PROVE FALSE
    BY <1>3, <2>3 DEF CompleteDisconnect
  <2>4. ASSUME JoinStarts \/ CancelExpired \/ CountdownEnds PROVE FALSE
    BY <1>3, <2>4 DEF JoinStarts, CancelExpired, CancelMatch, CountdownEnds
  <2>5. ASSUME NEW p \in Players, Acknowledge(p) PROVE FALSE
    BY <1>2, <2>5 DEF Acknowledge
  <2>6. ASSUME NEW c \in Commands, NEW v \in Sent[c], RefuseInactive(c, v) PROVE FALSE
    BY <1>3, <2>6 DEF RefuseInactive, CancelMatch, gameVars
  <2> QED BY <1>1, <2>1, <2>2, <2>3, <2>4, <2>5, <2>6 DEF GameStep, MatchStep
<1>5. PICK to, kinds : Commit(Cmd(h), Expected(h) + 1, to, kinds)
  BY <1>4 DEF Accept
<1>6. e.cmd = Cmd(h) /\ e.revision - 1 = Expected(h)
  BY <1>3, <1>5, HandlerFacts
<1>7. /\ Receipt(h, "accepted") \in receipts' /\ Receipt(h, "accepted").cmd = Cmd(h)
      /\ Receipt(h, "accepted").expected = Expected(h) /\ Receipt(h, "accepted").status = "accepted"
  BY <1>4 DEF Accept, Receipt
<1> QED BY <1>6, <1>7 DEF Matches

(* Answers, and what is about to be answered, keep saying what the receipts say. *)
LEMMA AnswersKept == Typed /\ GameInv /\ AnswerInv /\ [Next]_vars => AnswerInv'
<1> SUFFICES ASSUME Typed, GameInv, AnswerInv, [Next]_vars PROVE AnswerInv'
  OBVIOUS
<1>1. Growth
  BY Grows
<1>2. ASSUME NEW c \in Commands, NEW v, NEW as, Matches(receipts, c, v, as)
      PROVE  Matches(receipts', c, v, as)
  BY <1>1, <1>2 DEF Growth, Matches
<1>3. ASSUME NEW h \in Handlers, proc'[h].pc = "answering"
      PROVE  Matches(receipts', proc'[h].cmd, proc'[h].expected, proc'[h].outcome)
  <2>1. CASE DecidingStep(h)
    BY <1>3, <2>1, Deciding
  <2>2. CASE ~DecidingStep(h)
    <3>1. proc'[h] = proc[h]
      BY <1>3, <2>2, SettledKept DEF Settled
    <3>2. proc[h].cmd \in Commands
      BY <1>3, <3>1 DEF Typed, RunInv, PlayerPlaces
    <3> QED BY <1>2, <1>3, <3>1, <3>2 DEF AnswerInv
  <2> QED BY <2>1, <2>2
<1>4. ASSUME NEW e \in outbox', e.kind = "ack" PROVE Matches(receipts', e.cmd, e.revision - 1, "accepted")
  <2>1. CASE e \in outbox
    BY <1>2, <1>4, <2>1 DEF AnswerInv, Typed, AckTyped
  <2> QED BY <1>4, <2>1, NewAnswers
<1>5. ASSUME NEW a \in answers', a.stored, a \notin answers
      PROVE  a.cmd \in Commands /\ Matches(receipts, a.cmd, a.expected, a.status)
  <2>1. CASE \E h \in Handlers : SendAnswer(h)
    <3>1. PICK h \in Handlers : SendAnswer(h)
      BY <2>1
    <3>2. a = Answer(Cmd(h), Expected(h), proc[h].outcome, TRUE) /\ proc[h].pc = "answering"
      BY <1>5, <3>1 DEF SendAnswer, At
    <3>3. /\ a.cmd = proc[h].cmd /\ a.expected = proc[h].expected /\ a.status = proc[h].outcome
          /\ proc[h].cmd \in Commands
      BY <3>2 DEF Answer, Cmd, Expected, Typed, RunInv, PlayerPlaces
    <3> QED BY <3>2, <3>3 DEF AnswerInv
  <2>2. CASE \E q \in Publishers : DeliverEvent(q)
    <3>1. PICK q \in Publishers : DeliverEvent(q)
      BY <2>2
    <3>2. PICK e \in First(pub[q].batch, 1) :
            answers' = IF e.kind = "ack"
                       THEN answers \cup {Answer(e.cmd, e.revision - 1, "accepted", TRUE)} ELSE answers
      BY <3>1 DEF DeliverEvent
    <3>3. e \in outbox
      BY DEF First, Typed, TypeOK
    <3>4. e.kind = "ack" /\ a = Answer(e.cmd, e.revision - 1, "accepted", TRUE)
      BY <1>5, <3>2
    <3>5. a.cmd = e.cmd /\ a.expected = e.revision - 1 /\ a.status = "accepted"
      BY <3>4 DEF Answer
    <3> QED BY <3>3, <3>4, <3>5 DEF AnswerInv, Typed, AckTyped
  <2>3. CASE \E c \in Commands : \E v \in Sent[c] : RefuseInactive(c, v)
    BY <1>5, <2>3 DEF RefuseInactive, Answer
  <2>4. CASE ~SendingStep
    <3>1. answers' = answers
      BY <2>4, NextCases DEF SendingStep, QuietStep, GameStep, MatchStep, PublishStep, SendCommand,
         Replay, Decline, BeginServer, ReplayServer, DeclineServer, LoseSocket, FetchDisconnect,
         RecoverDisconnect, CheckRoom, ReadVersion, DeclineDisconnect, CloseDisconnect, Abandon,
         FetchEvents, MarkPublished, StopPublishing, Accept, StoreRejection, Serves, ServeStart,
         ServeForfeit, ServeCancel, CompleteDisconnect, JoinStarts, CountdownEnds, CancelExpired,
         Acknowledge, vars
    <3> QED BY <1>5, <3>1
  <2> QED BY <2>1, <2>2, <2>3, <2>4 DEF SendingStep
<1>6. ASSUME NEW a \in answers', a.stored PROVE Matches(receipts', a.cmd, a.expected, a.status)
  <2>1. CASE a \in answers
    <3>1. a.cmd \in Commands /\ Matches(receipts, a.cmd, a.expected, a.status)
      BY <1>6, <2>1 DEF AnswerInv, AnswersMatchReceipts, Matches, Stored, Typed, TypeOK
    <3> QED BY <1>2, <3>1
  <2> QED BY <1>2, <1>5, <1>6, <2>1
<1>7. AnswersMatchReceipts'
  BY <1>6 DEF AnswersMatchReceipts, Matches, Stored
<1> QED BY <1>3, <1>4, <1>7 DEF AnswerInv

(* A publisher marks only the event it has just delivered. *)
LEMMA OutboxKept == Typed /\ OutboxInv /\ [Next]_vars => OutboxInv'
<1> SUFFICES ASSUME Typed, OutboxInv, [Next]_vars PROVE OutboxInv'
  OBVIOUS
<1>1. pub \in [Publishers -> [batch : SUBSET outbox, sent : outbox \cup {None}]]
  BY DEF Typed, TypeOK
<1>2. CASE UNCHANGED outboxVars
  BY <1>2 DEF OutboxInv, MarkedIsDelivered, outboxVars
<1>3. ASSUME NEW q \in Publishers, FetchEvents(q) PROVE OutboxInv'
  BY <1>1, <1>3 DEF FetchEvents, OutboxInv, MarkedIsDelivered
<1>4. ASSUME NEW q \in Publishers, DeliverEvent(q) PROVE OutboxInv'
  <2>1. PICK e : delivered' = delivered \cup {e} /\ pub' = [pub EXCEPT ![q].sent = e]
    BY <1>4 DEF DeliverEvent
  <2> QED BY <1>1, <1>4, <2>1 DEF DeliverEvent, OutboxInv, MarkedIsDelivered
<1>5. ASSUME NEW q \in Publishers, MarkPublished(q) PROVE OutboxInv'
  <2>1. pub'[q].sent = None /\ \A r \in Publishers \ {q} : pub'[r] = pub[r]
    BY <1>1, <1>5 DEF MarkPublished
  <2> QED BY <1>1, <1>5, <2>1 DEF MarkPublished, OutboxInv, MarkedIsDelivered
<1>6. ASSUME NEW q \in Publishers, StopPublishing(q) PROVE OutboxInv'
  BY <1>1, <1>6 DEF StopPublishing, Resting, OutboxInv, MarkedIsDelivered
<1>7. ~(\E q \in Publishers : PublishStep(q)) => UNCHANGED outboxVars
  BY NextCases DEF QuietStep, GameStep, MatchStep, SendCommand, Replay, Decline, SendAnswer,
     BeginServer, ReplayServer, DeclineServer, LoseSocket, FetchDisconnect, RecoverDisconnect,
     CheckRoom, ReadVersion, DeclineDisconnect, CloseDisconnect, Abandon, Accept, StoreRejection,
     Serves, ServeStart, ServeForfeit, ServeCancel, CompleteDisconnect, JoinStarts, CountdownEnds,
     CancelExpired, Acknowledge, RefuseInactive, vars
<1> QED BY <1>2, <1>3, <1>4, <1>5, <1>6, <1>7 DEF PublishStep

(* A row is completed by a room that is over or after a committed run. *)
LEMMA DisconnectsKept == Typed /\ GameInv /\ DisconnectInv /\ [Next]_vars => DisconnectInv'
<1> SUFFICES ASSUME Typed, GameInv, DisconnectInv, [Next]_vars PROVE DisconnectInv'
  OBVIOUS
<1>1. Growth
  BY Grows
<1>2. ASSUME NEW h \in Handlers, proc'[h].pc = "closing", proc'[h].outcome = "accepted"
      PROVE  \E e \in log' : e.cmd = proc'[h].cmd
  <2>1. CASE DecidingStep(h)
    BY <1>2, <2>1, Deciding
  <2>2. CASE ~DecidingStep(h)
    <3>1. proc'[h] = proc[h]
      BY <1>2, <2>2, SettledKept DEF Settled
    <3> QED BY <1>1, <1>2, <3>1 DEF Growth, DisconnectInv
  <2> QED BY <2>1, <2>2
<1>3. ASSUME NEW s \in Sockets, disconnects'[s] = "completed", disconnects[s] # "completed"
      PROVE  Over \/ \E e \in log' : e.cmd = s
  <2>1. disconnects \in [Sockets -> {"none", "pending", "completed"}]
    BY DEF Typed, TypeOK
  <2>2. PICK h \in Handlers : CheckRoom(h) \/ CompleteDisconnect(h) \/ CloseDisconnect(h)
    <3>1. ASSUME NEW h \in Handlers, NEW z \in Sockets, LoseSocket(h, z) PROVE FALSE
      BY <1>3, <2>1, <3>1 DEF LoseSocket
    <3> QED BY <1>3, <3>1, NextCases DEF QuietStep, GameStep, MatchStep, PublishStep, SendCommand,
         Replay, Decline, SendAnswer, BeginServer, ReplayServer, DeclineServer, FetchDisconnect,
         RecoverDisconnect, ReadVersion, DeclineDisconnect, Abandon, FetchEvents, DeliverEvent,
         MarkPublished, StopPublishing, Accept, StoreRejection, Serves, ServeStart, ServeForfeit,
         ServeCancel, JoinStarts, CountdownEnds, CancelExpired, Acknowledge, RefuseInactive, vars
  <2>3. CASE CheckRoom(h)
    BY <1>3, <2>3 DEF CheckRoom
  <2>4. CASE CompleteDisconnect(h)
    <3>1. s = Cmd(h)
      BY <1>3, <2>1, <2>4 DEF CompleteDisconnect
    <3>2. PICK to, kinds : Commit(Cmd(h), Expected(h) + 1, to, kinds)
      BY <2>4 DEF CompleteDisconnect
    <3>3. Entry(Cmd(h), Expected(h) + 1) \in log'
      BY <3>2 DEF Commit
    <3> QED BY <3>1, <3>3 DEF Entry
  <2>5. CASE CloseDisconnect(h)
    <3>1. s = Cmd(h) /\ proc[h].outcome = "accepted" /\ proc[h].pc = "closing" /\ log' = log
      BY <1>3, <2>1, <2>5 DEF CloseDisconnect, At, gameVars
    <3> QED BY <3>1 DEF DisconnectInv, Cmd
  <2> QED BY <2>2, <2>3, <2>4, <2>5
<1>4. DisconnectNotLost'
  <2> SUFFICES ASSUME NEW s \in Sockets, disconnects'[s] = "completed"
               PROVE  Over' \/ \E e \in log' : e.cmd = s
    BY DEF DisconnectNotLost
  <2>1. CASE disconnects[s] = "completed"
    BY <1>1, <2>1 DEF Growth, DisconnectInv, DisconnectNotLost
  <2> QED BY <1>1, <1>3, <2>1 DEF Growth
<1> QED BY <1>2, <1>4 DEF DisconnectInv

-----------------------------------------------------------------------------
(* The inductive invariant, and what follows from it. *)

(* The inductive invariant holds when the room is created. *)
LEMMA InitInv == Init => IInv
<1> SUFFICES ASSUME Init PROVE IInv
  OBVIOUS
<1>1. \A r \in receipts : r.status = "rejected" /\ r.cmd = "start"
  BY DEF Init, Legacy
<1>2. LogInv
  BY <1>1, CommandAssumption DEF Init, LogInv, OneMutationPerRevision, AppliedIffAccepted, Stored
<1>3. PhaseInv
  BY DEF Init, PhaseInv, CancelledIsNotPlayed
<1>4. AnswerInv
  BY DEF Init, AnswerInv, AnswersMatchReceipts, Idle
<1>5. OutboxInv
  BY DEF Init, OutboxInv, MarkedIsDelivered, Resting
<1>6. DisconnectInv
  BY DEF Init, DisconnectInv, DisconnectNotLost, Idle
<1> QED BY InitTyped, <1>2, <1>3, <1>4, <1>5, <1>6 DEF IInv, GameInv

(* Every step of a handler, of a publisher or of the match keeps it. *)
LEMMA StepInv == IInv /\ [Next]_vars => IInv'
<1> SUFFICES ASSUME IInv, [Next]_vars PROVE IInv'
  OBVIOUS
<1>1. Typed'
  <2>1. ASSUME UNCHANGED vars PROVE Typed'
    BY <2>1 DEF IInv, Typed, TypeOK, RunInv, AckTyped, vars, gameVars, outboxVars
  <2> QED BY <2>1, QuietTyped, GameTyped, NextCases DEF IInv
<1>2. GameInv'
  <2>1. ASSUME UNCHANGED gameVars PROVE GameInv'
    BY <2>1 DEF IInv, gameVars, GameInv, LogInv, PhaseInv, OneMutationPerRevision,
       AppliedIffAccepted, CancelledIsNotPlayed, Stored
  <2>2. QuietStep \/ UNCHANGED vars => UNCHANGED gameVars
    BY DEF QuietStep, SendCommand, Replay, Decline, SendAnswer, BeginServer, ReplayServer,
       DeclineServer, LoseSocket, FetchDisconnect, RecoverDisconnect, CheckRoom, ReadVersion,
       DeclineDisconnect, CloseDisconnect, Abandon, PublishStep, FetchEvents, DeliverEvent,
       MarkPublished, StopPublishing, vars
  <2> QED BY <2>1, <2>2, GameKept, NextCases DEF IInv
<1>3. AnswerInv'
  BY AnswersKept DEF IInv
<1>4. OutboxInv'
  BY OutboxKept DEF IInv
<1>5. DisconnectInv'
  BY DisconnectsKept DEF IInv
<1> QED BY <1>1, <1>2, <1>3, <1>4, <1>5 DEF IInv

(* The inductive invariant holds in every state. *)
THEOREM Invariance == Spec => []IInv
BY InitInv, StepInv, PTL DEF Spec

(* No command is applied twice, and a command is applied exactly when its
   receipt says accepted, with any number of copies, replicas and crashes. *)
THEOREM AppliedIffAcceptedHolds == Spec => []AppliedIffAccepted
<1>1. IInv => AppliedIffAccepted
  BY DEF IInv, GameInv, LogInv
<1> QED BY <1>1, Invariance, PTL

(* Every revision of a game has at most one mutation. *)
THEOREM OneMutationPerRevisionHolds == Spec => []OneMutationPerRevision
<1>1. IInv => OneMutationPerRevision
  BY DEF IInv, GameInv, LogInv
<1> QED BY <1>1, Invariance, PTL

(* What an executed command is answered is what its receipt says. *)
THEOREM AnswersMatchReceiptsHolds == Spec => []AnswersMatchReceipts
<1>1. IInv => AnswersMatchReceipts
  BY DEF IInv, AnswerInv
<1> QED BY <1>1, Invariance, PTL

(* No match is both played and cancelled in preparation. *)
THEOREM CancelledIsNotPlayedHolds == Spec => []CancelledIsNotPlayed
<1>1. IInv => CancelledIsNotPlayed
  BY DEF IInv, GameInv, PhaseInv
<1> QED BY <1>1, Invariance, PTL

(* No event is marked published before the brokers took it. *)
THEOREM MarkedIsDeliveredHolds == Spec => []MarkedIsDelivered
<1>1. IInv => MarkedIsDelivered
  BY DEF IInv, OutboxInv
<1> QED BY <1>1, Invariance, PTL

(* No persisted disconnect is completed without its run while the room is open. *)
THEOREM DisconnectNotLostHolds == Spec => []DisconnectNotLost
<1>1. IInv => DisconnectNotLost
  BY DEF IInv, DisconnectInv
<1> QED BY <1>1, Invariance, PTL

-----------------------------------------------------------------------------
(* Refinement of CommandContract. *)

(* What a step does to the commands and the moves of the players. *)
PlayersKept ==
    /\ \A r : r.cmd \in Commands => (r \in receipts' <=> r \in receipts)
    /\ \A e : e.cmd \in Commands => (e \in log' <=> e \in log)

(* Only Accept and StoreRejection touch the commands of the players. *)
LEMMA OthersKeepPlayers ==
    ASSUME Typed, [Next]_vars, \A h \in Handlers : ~Accept(h) /\ ~StoreRejection(h)
    PROVE  PlayersKept
<1>1. CASE UNCHANGED <<log, receipts>>
  BY <1>1 DEF PlayersKept
<1>2. CASE QuietStep \/ CountdownEnds \/ UNCHANGED vars
  <2>1. UNCHANGED <<log, receipts>>
    BY <1>2 DEF QuietStep, SendCommand, Replay, Decline, SendAnswer, BeginServer, ReplayServer,
       DeclineServer, LoseSocket, FetchDisconnect, RecoverDisconnect, CheckRoom, ReadVersion,
       DeclineDisconnect, CloseDisconnect, Abandon, PublishStep, FetchEvents, DeliverEvent,
       MarkPublished, StopPublishing, CountdownEnds, gameVars, vars
  <2> QED BY <1>1, <2>1
<1>3. /\ "start" \notin Commands /\ "forfeit" \notin Commands
      /\ "barrier" \notin Commands /\ "cancel" \notin Commands
  BY CommandAssumption
<1>4. ASSUME NEW c, c \notin Commands, NEW n, log' = log \cup {Entry(c, n)}
      PROVE  \A e : e.cmd \in Commands => (e \in log' <=> e \in log)
  <2>1. Entry(c, n).cmd = c
    BY DEF Entry
  <2> QED BY <1>4, <2>1
<1>5. ASSUME NEW h \in Handlers, ServeStart(h) \/ ServeForfeit(h) PROVE PlayersKept
  BY <1>3, <1>4, <1>5, ServesReceipts DEF ServeStart, ServeForfeit, Commit, PlayersKept
<1>6. ASSUME NEW h \in Handlers, ServeCancel(h) PROVE PlayersKept
  <2>1. /\ log' = log \cup {Entry("forfeit", Expected(h) + 1), Entry("cancel", Expected(h) + 2)}
        /\ Serves(h)
    BY <1>6 DEF ServeCancel
  <2>2. Entry("forfeit", Expected(h) + 1).cmd = "forfeit" /\ Entry("cancel", Expected(h) + 2).cmd = "cancel"
    BY DEF Entry
  <2> QED BY <1>3, <2>1, <2>2, ServesReceipts DEF PlayersKept
<1>7. ASSUME NEW h \in Handlers, CompleteDisconnect(h) PROVE PlayersKept
  <2>1. Cmd(h) \notin Commands
    BY <1>7, HandlerFacts, CommandAssumption DEF CompleteDisconnect, At, DisconnectPlaces
  <2>2. \E n : log' = log \cup {Entry(Cmd(h), n)}
    BY <1>7 DEF CompleteDisconnect, Commit
  <2>3. receipts' = receipts \cup {Receipt(h, "accepted")} /\ Receipt(h, "accepted").cmd = Cmd(h)
    BY <1>7 DEF CompleteDisconnect, Receipt
  <2> QED BY <1>4, <2>1, <2>2, <2>3 DEF PlayersKept
<1>8. ASSUME CancelMatch, UNCHANGED receipts PROVE PlayersKept
  BY <1>3, <1>4, <1>8 DEF CancelMatch, Commit, PlayersKept
<1>9. ASSUME JoinStarts PROVE PlayersKept
  BY <1>3, <1>4, <1>9 DEF JoinStarts, Commit, PlayersKept
<1>10. ASSUME NEW p \in Players, Acknowledge(p) PROVE PlayersKept
  <2>1. receipts' = receipts /\ (log' = log \/ \E n : log' = log \cup {Entry("barrier", n)})
    BY <1>10 DEF Acknowledge
  <2> QED BY <1>1, <1>3, <1>4, <2>1 DEF PlayersKept
<1>11. ASSUME NEW c \in Commands, NEW v \in Sent[c], RefuseInactive(c, v) PROVE PlayersKept
  BY <1>1, <1>8, <1>11 DEF RefuseInactive, gameVars
<1>12. ASSUME CancelExpired PROVE PlayersKept
  BY <1>8, <1>12 DEF CancelExpired
<1> QED BY <1>2, <1>5, <1>6, <1>7, <1>9, <1>10, <1>11, <1>12, NextCases DEF GameStep, MatchStep

(* The decision on a command, read off its only receipt. *)
LEMMA DecisionOf ==
    ASSUME LogInv, NEW c \in Commands
    PROVE  /\ Stored(c) = {} => decision[c] = "open"
           /\ \A r \in receipts : r.cmd = c /\ r.status \in Statuses => decision[c] = r.status
BY DEF LogInv, decision, Stored, Statuses

(* A room of the contract starts with no command decided. *)
LEMMA InitRefines == Init => Contract!Init
<1> SUFFICES ASSUME Init PROVE Contract!Init
  OBVIOUS
<1>1. \A c \in Commands : Stored(c) = {}
  BY CommandAssumption DEF Init, Legacy, Stored
<1> QED BY <1>1 DEF Init, Contract!Init, decision, history, Finished, Stored

(* The first acceptance of a command is the contract's. *)
LEMMA AcceptRefines ==
    ASSUME IInv, IInv', NEW h \in Handlers, Accept(h) PROVE Contract!Next
<1>1. /\ Cmd(h) \in Commands /\ Expected(h) = room.revision /\ room.revision \in Nat
      /\ Stored(Cmd(h)) = {} /\ ~Finished
  BY HandlerFacts DEF IInv, Typed, TypeOK, Accept, Leads, CanPlay, At, PlayerPlaces, VersionHolds, Finished
<1> DEFINE new == Entry(Cmd(h), room.revision + 1)
           receipt == Receipt(h, "accepted")
<1>2. /\ log' = log \cup {new} /\ receipts' = receipts \cup {receipt}
  BY <1>1 DEF Accept, Commit
<1>3. /\ new.cmd = Cmd(h) /\ new.revision = room.revision + 1
      /\ receipt.cmd = Cmd(h) /\ receipt.status = "accepted"
  BY DEF Entry, Receipt
<1> HIDE DEF new, receipt
<1>4. Contract!Decide(Cmd(h), "accepted")
  <2>1. decision[Cmd(h)] = "open"
    BY <1>1, DecisionOf DEF IInv, GameInv
  <2>2. \A d \in Commands : decision'[d] = IF d = Cmd(h) THEN "accepted" ELSE decision[d]
    <3>1. ASSUME NEW d \in Commands, d # Cmd(h) PROVE decision'[d] = decision[d]
      BY <1>2, <1>3, <3>1 DEF decision, Stored
    <3>2. decision'[Cmd(h)] = "accepted"
      BY <1>1, <1>2, <1>3 DEF decision, Stored
    <3> QED BY <3>1, <3>2
  <2>3. decision' = [decision EXCEPT ![Cmd(h)] = "accepted"]
    BY <1>1, <2>2 DEF decision
  <2> QED BY <2>1, <2>3 DEF Contract!Decide
<1>5. new \in history' /\ history' = history \cup {new}
  BY <1>1, <1>2, <1>3 DEF history
<1>6. \A f \in history : f.revision < new.revision
  <2>1. \A f \in log : f.revision \in 1..room.revision
    BY DEF IInv, GameInv, LogInv, OneMutationPerRevision
  <2> QED BY <1>1, <1>3, <2>1 DEF history
<1>7. Finished' \in BOOLEAN
  BY DEF Finished
<1> QED BY <1>1, <1>3, <1>4, <1>5, <1>6, <1>7 DEF Contract!Next, Contract!Accept, Finished

(* The first refusal of a command is the contract's; a later one changes nothing. *)
LEMMA StoreRefines ==
    ASSUME IInv, NEW h \in Handlers, StoreRejection(h) PROVE [Contract!Next]_(Contract!vars)
<1>1. Cmd(h) \in Commands /\ UNCHANGED <<room, log>>
  BY HandlerFacts DEF IInv, StoreRejection, At, PlayerPlaces
<1>2. UNCHANGED <<history, Finished>>
  BY <1>1 DEF history, Finished
<1>3. CASE Stored(Cmd(h)) # {}
  <2>1. decision' = decision
    BY <1>3 DEF StoreRejection, decision, Stored
  <2> QED BY <1>2, <2>1 DEF Contract!vars, Finished
<1>4. CASE Stored(Cmd(h)) = {}
  <2> DEFINE receipt == Receipt(h, "rejected")
  <2>1. /\ receipts' = receipts \cup {receipt}
        /\ receipt.cmd = Cmd(h) /\ receipt.status = "rejected"
    BY <1>4 DEF StoreRejection, Receipt
  <2> HIDE DEF receipt
  <2>2. decision[Cmd(h)] = "open"
    BY <1>1, <1>4, DecisionOf DEF IInv, GameInv
  <2>3. ASSUME NEW d \in Commands, d # Cmd(h) PROVE decision'[d] = decision[d]
    BY <2>1, <2>3 DEF decision, Stored
  <2>4. decision'[Cmd(h)] = "rejected"
    BY <1>1, <1>4, <2>1 DEF decision, Stored
  <2>5. decision' = [decision EXCEPT ![Cmd(h)] = "rejected"]
    BY <1>1, <2>3, <2>4 DEF decision
  <2> QED BY <1>1, <1>2, <2>2, <2>5 DEF Contract!Next, Contract!Reject, Contract!Decide, Finished
<1> QED BY <1>3, <1>4

(* Every step is a step of the contract, its end, or none. *)
LEMMA StepRefines == IInv /\ IInv' /\ [Next]_vars => [Contract!Next]_(Contract!vars)
<1> SUFFICES ASSUME IInv, IInv', [Next]_vars PROVE [Contract!Next]_(Contract!vars)
  OBVIOUS
<1>1. CASE \E h \in Handlers : Accept(h)
  BY <1>1, AcceptRefines
<1>2. CASE \E h \in Handlers : StoreRejection(h)
  BY <1>2, StoreRefines
<1>3. CASE \A h \in Handlers : ~Accept(h) /\ ~StoreRejection(h)
  <2>1. PlayersKept
    BY <1>3, OthersKeepPlayers DEF IInv
  <2>2. decision' = decision
    BY <2>1 DEF PlayersKept, decision, Stored
  <2>3. history' = history
    BY <2>1 DEF PlayersKept, history
  <2>4. Finished' = Finished \/ Finished' = TRUE
    BY Grows DEF IInv, Growth, Finished
  <2> QED BY <2>2, <2>3, <2>4 DEF Contract!Next, Contract!End, Contract!vars, Finished
<1> QED BY <1>1, <1>2, <1>3

(* The commands of the players keep the contract: decided once, in one
   history, and never after the end of the game. *)
THEOREM Refinement == Spec => ImplementsContract
<1>1. Spec => []IInv
  BY Invariance
<1>2. IInv /\ IInv' /\ [Next]_vars => [Contract!Next]_(Contract!vars)
  BY StepRefines
<1> QED BY <1>1, <1>2, InitRefines, PTL DEF Spec, ImplementsContract, Contract!Spec

-----------------------------------------------------------------------------
(* The order of delivery, when the clocks of the replicas agree. *)

(* Events are stamped in the order of their revisions; a publisher holds, or
   the brokers took, all that comes before what it is about to deliver. *)
OrderInv ==
    /\ IsFiniteSet(outbox)
    /\ \A e \in outbox : e.stamp = e.revision /\ e.revision <= room.revision
    /\ \A q \in Publishers : \A e \in pub[q].batch, f \in outbox :
         f.revision < e.revision => f \in delivered \cup pub[q].batch
    /\ DeliveredInOrder

NewEvents ==
    /\ IsFiniteSet(outbox')
    /\ room.revision <= room'.revision
    /\ \A f \in outbox' : f \in outbox \/ (/\ f.stamp = f.revision
                                           /\ room.revision < f.revision /\ f.revision <= room'.revision)

(* The events of one mutation are finitely many, stamped with its revision. *)
LEMMA EventsFinite ==
    ASSUME ClockSkew = 0, IsFiniteSet(outbox), room.revision \in Nat, NEW c,
           NEW r \in Nat, NEW kinds \in SUBSET {"state", "ack"}, NEW skew \in 0..ClockSkew,
           outbox' = outbox \cup Events(c, r, kinds, r - skew)
    PROVE  /\ IsFiniteSet(outbox')
           /\ \A f \in outbox' : f \in outbox \/ (f.stamp = r /\ f.revision = r)
<1> DEFINE event(k) == [stamp |-> r, revision |-> r, kind |-> k, cmd |-> c]
           both == ({} \cup {event("state")}) \cup {event("ack")}
<1>1. r - skew = r
  OBVIOUS
<1>2. Events(c, r, kinds, r - skew) = {event(k) : k \in kinds}
  BY <1>1 DEF Events
<1>3. IsFiniteSet(both)
  BY FS_EmptySet, FS_AddElement
<1>4. {event(k) : k \in kinds} \subseteq both
  OBVIOUS
<1>5. IsFiniteSet({event(k) : k \in kinds})
  BY <1>3, <1>4, FS_Subset
<1>6. IsFiniteSet(outbox')
  BY <1>2, <1>5, FS_Union
<1>7. \A f \in {event(k) : k \in kinds} : f.stamp = r /\ f.revision = r
  OBVIOUS
<1> QED BY <1>2, <1>6, <1>7

(* Whatever a step adds to the outbox comes after all that was there. *)
LEMMA NewEventsLater ==
    ASSUME ClockSkew = 0, Typed, IsFiniteSet(outbox), [Next]_vars PROVE NewEvents
<1>1. room \in [phase : Phases, revision : Nat, acked : SUBSET Players]
  BY DEF Typed, TypeOK
<1>2. ASSUME outbox' = outbox, room'.revision = room.revision PROVE NewEvents
  BY <1>1, <1>2 DEF NewEvents
<1>3. {"state"} \in SUBSET {"state", "ack"} /\ {} \in SUBSET {"state", "ack"}
  OBVIOUS
<1>4. ASSUME NEW c, NEW r \in Nat, room.revision < r, room'.revision = r,
             NEW kinds \in SUBSET {"state", "ack"},
             \E skew \in 0..ClockSkew : outbox' = outbox \cup Events(c, r, kinds, r - skew)
      PROVE  NewEvents
  <2>1. PICK skew \in 0..ClockSkew : outbox' = outbox \cup Events(c, r, kinds, r - skew)
    BY <1>4
  <2>2. IsFiniteSet(outbox') /\ \A f \in outbox' : f \in outbox \/ (f.stamp = r /\ f.revision = r)
    BY <1>1, <2>1, EventsFinite
  <2> QED BY <1>1, <1>4, <2>2 DEF NewEvents
<1>5. ASSUME NEW c, NEW to, NEW kinds \in SUBSET {"state", "ack"}, Commit(c, room.revision + 1, to, kinds)
      PROVE  NewEvents
  <2> DEFINE r == room.revision + 1
  <2>1. r \in Nat /\ room.revision < r /\ room'.revision = r
    BY <1>1, <1>5 DEF Commit
  <2>2. \E skew \in 0..ClockSkew : outbox' = outbox \cup Events(c, r, kinds, r - skew)
    BY <1>5 DEF Commit
  <2> HIDE DEF r
  <2> QED BY <1>4, <2>1, <2>2
<1>6. CASE QuietStep \/ CountdownEnds \/ UNCHANGED vars
  <2>1. UNCHANGED gameVars \/ (CountdownEnds /\ outbox' = outbox)
    BY <1>6 DEF QuietStep, SendCommand, Replay, Decline, SendAnswer, BeginServer, ReplayServer,
       DeclineServer, LoseSocket, FetchDisconnect, RecoverDisconnect, CheckRoom, ReadVersion,
       DeclineDisconnect, CloseDisconnect, Abandon, PublishStep, FetchEvents, DeliverEvent,
       MarkPublished, StopPublishing, CountdownEnds, vars
  <2> QED BY <1>1, <1>2, <2>1 DEF CountdownEnds, gameVars
<1>7. ASSUME NEW h \in Handlers, Accept(h) PROVE NewEvents
  <2>1. PICK to \in Phases, kinds \in {{"ack"}, {"state", "ack"}} :
          Commit(Cmd(h), Expected(h) + 1, to, kinds)
    BY <1>7 DEF Accept
  <2>2. Expected(h) = room.revision
    BY <1>7 DEF Accept, VersionHolds
  <2>3. kinds \in SUBSET {"state", "ack"}
    OBVIOUS
  <2> QED BY <1>5, <2>1, <2>2, <2>3
<1>8. ASSUME NEW h \in Handlers, StoreRejection(h) PROVE NewEvents
  BY <1>2, <1>8 DEF StoreRejection
<1>9. ASSUME NEW h \in Handlers, ServeStart(h) \/ ServeForfeit(h) PROVE NewEvents
  <2>1. PICK c, to : \E kinds \in SUBSET {"state", "ack"} : Commit(c, Expected(h) + 1, to, kinds)
    <3>1. CASE ServeStart(h)
      BY <1>3, <3>1 DEF ServeStart
    <3>2. CASE ServeForfeit(h)
      BY <1>3, <3>2 DEF ServeForfeit
    <3> QED BY <1>9, <3>1, <3>2
  <2>2. Expected(h) = room.revision
    BY <1>9, ServesReceipts DEF ServeStart, ServeForfeit
  <2> QED BY <1>5, <2>1, <2>2
<1>10. ASSUME NEW h \in Handlers, ServeCancel(h) PROVE NewEvents
  <2> DEFINE r == room.revision + 2
  <2>1. Expected(h) = room.revision
    BY <1>10, ServesReceipts DEF ServeCancel
  <2>2. r \in Nat /\ room.revision < r /\ room'.revision = r
    BY <1>1, <1>10, <2>1 DEF ServeCancel
  <2>3. \E skew \in 0..ClockSkew : outbox' = outbox \cup Events("cancel", r, {"state"}, r - skew)
    <3>1. PICK skew \in 0..ClockSkew :
            outbox' = outbox \cup Events("cancel", Expected(h) + 2, {"state"}, Expected(h) + 2 - skew)
      BY <1>10 DEF ServeCancel
    <3>2. Expected(h) + 2 - skew = r - skew
      BY <1>1, <2>1
    <3> QED BY <2>1, <3>1, <3>2
  <2> HIDE DEF r
  <2> QED BY <1>3, <1>4, <2>2, <2>3
<1>11. ASSUME NEW h \in Handlers, CompleteDisconnect(h) PROVE NewEvents
  <2>1. PICK to : \E kinds \in SUBSET {"state", "ack"} : Commit(Cmd(h), Expected(h) + 1, to, kinds)
    BY <1>3, <1>11 DEF CompleteDisconnect
  <2>2. Expected(h) = room.revision
    BY <1>11 DEF CompleteDisconnect, VersionHolds
  <2> QED BY <1>5, <2>1, <2>2
<1>12. ASSUME CancelMatch PROVE NewEvents
  BY <1>3, <1>5, <1>12 DEF CancelMatch
<1>13. ASSUME JoinStarts \/ CancelExpired PROVE NewEvents
  BY <1>3, <1>5, <1>12, <1>13 DEF JoinStarts, CancelExpired
<1>14. ASSUME NEW p \in Players, Acknowledge(p) PROVE NewEvents
  <2>1. CASE room.acked \cup {p} = Players
    <3> DEFINE r == room.revision + 1
    <3>1. r \in Nat /\ room.revision < r /\ room'.revision = r
      BY <1>1, <1>14, <2>1 DEF Acknowledge
    <3>2. \E skew \in 0..ClockSkew : outbox' = outbox \cup Events("barrier", r, {"state"}, r - skew)
      <4>1. PICK skew \in 0..ClockSkew : outbox' = outbox
              \cup Events("barrier", room.revision + 1, {"state"}, room.revision + 1 - skew)
        BY <1>14, <2>1 DEF Acknowledge
      <4>2. room.revision + 1 - skew = r - skew
        BY <1>1
      <4> QED BY <4>1, <4>2
    <3> HIDE DEF r
    <3> QED BY <1>3, <1>4, <3>1, <3>2
  <2>2. CASE room.acked \cup {p} # Players
    BY <1>1, <1>2, <1>14, <2>2 DEF Acknowledge
  <2> QED BY <2>1, <2>2
<1>15. ASSUME NEW c \in Commands, NEW v \in Sent[c], RefuseInactive(c, v) PROVE NewEvents
  BY <1>2, <1>12, <1>15 DEF RefuseInactive, gameVars
<1> QED BY <1>6, <1>7, <1>8, <1>9, <1>10, <1>11, <1>13, <1>14, <1>15, NextCases DEF GameStep, MatchStep

(* The events fetched are the first ones: what comes before one of them is fetched too. *)
LEMMA FirstClosed ==
    ASSUME NEW S, IsFiniteSet(S), NEW n, n \in Nat,
           \A g \in S : g.stamp = g.revision /\ g.revision \in Nat,
           NEW e \in First(S, n), NEW f \in S, f.revision < e.revision
    PROVE  f \in First(S, n)
<1> DEFINE below(x) == {g \in S : Before(g, x)}
<1>1. e \in S /\ Cardinality(below(e)) < n
  BY DEF First
<1>2. below(f) \subseteq below(e)
  BY <1>1 DEF Before
<1>3. IsFiniteSet(below(e)) /\ IsFiniteSet(below(f))
  BY FS_Subset
<1>4. /\ Cardinality(below(f)) \in Nat /\ Cardinality(below(e)) \in Nat
      /\ Cardinality(below(f)) <= Cardinality(below(e))
  BY <1>2, <1>3, FS_Subset, FS_CardinalityType
<1>5. Cardinality(below(f)) < n
  BY <1>1, <1>4
<1> QED BY <1>5 DEF First

(* The first event of a batch comes before all the others. *)
LEMMA FirstIsLeast ==
    ASSUME NEW S, IsFiniteSet(S), \A g \in S : g.stamp = g.revision /\ g.revision \in Nat,
           NEW e \in First(S, 1), NEW f \in S
    PROVE  ~(f.revision < e.revision)
<1> DEFINE below == {g \in S : Before(g, e)}
<1>1. Cardinality(below) < 1 /\ e \in S
  BY DEF First
<1>2. IsFiniteSet(below)
  BY FS_Subset
<1>3. below = {}
  <2>1. Cardinality(below) = 0
    BY <1>1, <1>2, FS_CardinalityType
  <2> HIDE DEF below
  <2> QED BY <1>2, <2>1, FS_EmptySet
<1>4. f.revision < e.revision => f \in below
  BY <1>1 DEF Before
<1> QED BY <1>3, <1>4

(* With clocks that agree, each step delivers in the order of the revisions. *)
LEMMA OrderKept == ClockSkew = 0 /\ IInv /\ OrderInv /\ [Next]_vars => OrderInv'
<1> SUFFICES ASSUME ClockSkew = 0, IInv, OrderInv, [Next]_vars PROVE OrderInv'
  OBVIOUS
<1>1. /\ pub \in [Publishers -> [batch : SUBSET outbox, sent : outbox \cup {None}]]
      /\ delivered \subseteq outbox /\ published \subseteq delivered
      /\ \A e \in outbox : e.revision \in Nat /\ e.stamp = e.revision
      /\ room.revision \in Nat /\ IsFiniteSet(outbox)
      /\ \A e \in outbox : e.revision <= room.revision
  BY DEF IInv, Typed, TypeOK, OrderInv, OutboxInv, MarkedIsDelivered
<1>2. NewEvents
  BY <1>1, NewEventsLater DEF IInv
<1>3. room'.revision \in Nat /\ \A e \in outbox' : e.revision \in Nat
  BY StepInv DEF IInv, Typed, TypeOK
<1>4. IsFiniteSet(outbox') /\ \A e \in outbox' : e.stamp = e.revision /\ e.revision <= room'.revision
  BY <1>1, <1>2, <1>3 DEF NewEvents
<1>5. CASE UNCHANGED outboxVars
  <2>1. ASSUME NEW e \in outbox, NEW f \in outbox', f.revision < e.revision PROVE f \in outbox
    BY <1>1, <1>2, <1>3, <2>1 DEF NewEvents
  <2>2. ASSUME NEW q \in Publishers, NEW e \in pub'[q].batch, NEW f \in outbox', f.revision < e.revision
        PROVE  f \in delivered' \cup pub'[q].batch
    BY <1>1, <1>5, <2>1, <2>2 DEF OrderInv, outboxVars
  <2>3. ASSUME NEW e \in delivered', NEW f \in outbox', f.revision < e.revision PROVE f \in delivered'
    BY <1>1, <1>5, <2>1, <2>3 DEF OrderInv, DeliveredInOrder, outboxVars
  <2> QED BY <1>4, <2>2, <2>3 DEF OrderInv, DeliveredInOrder
<1>6. ASSUME NEW q \in Publishers, PublishStep(q),
             \A e \in pub'[q].batch, f \in outbox :
               f.revision < e.revision => f \in delivered' \cup pub'[q].batch,
             \A r \in Publishers \ {q} : pub'[r] = pub[r],
             delivered \subseteq delivered', DeliveredInOrder'
      PROVE  OrderInv'
  <2>1. outbox' = outbox
    BY <1>6 DEF PublishStep, FetchEvents, DeliverEvent, MarkPublished, StopPublishing, gameVars
  <2> QED BY <1>4, <1>6, <2>1 DEF OrderInv
<1>7. ASSUME NEW q \in Publishers, FetchEvents(q) PROVE OrderInv'
  <2> DEFINE S == outbox \ published
  <2>1. UNCHANGED <<outbox, delivered>> /\ pub' = [pub EXCEPT ![q].batch = First(S, BatchLimit)]
    BY <1>7 DEF FetchEvents, gameVars
  <2>2. IsFiniteSet(S) /\ \A g \in S : g.stamp = g.revision /\ g.revision \in Nat
    BY <1>1, FS_Subset
  <2>3. BatchLimit \in Nat
    BY CommandAssumption
  <2> HIDE DEF S
  <2>4. \A e \in First(S, BatchLimit), f \in S : f.revision < e.revision => f \in First(S, BatchLimit)
    BY <2>2, <2>3, FirstClosed
  <2>5. pub'[q].batch = First(S, BatchLimit) /\ \A r \in Publishers \ {q} : pub'[r] = pub[r]
    BY <1>1, <2>1
  <2>6. \A e \in pub'[q].batch, f \in outbox :
          f.revision < e.revision => f \in delivered' \cup pub'[q].batch
    BY <1>1, <2>1, <2>4, <2>5 DEF S
  <2>7. DeliveredInOrder'
    BY <2>1 DEF OrderInv, DeliveredInOrder
  <2> QED BY <1>6, <1>7, <2>1, <2>5, <2>6, <2>7 DEF PublishStep
<1>8. ASSUME NEW q \in Publishers, DeliverEvent(q) PROVE OrderInv'
  <2>1. PICK e \in First(pub[q].batch, 1) : delivered' = delivered \cup {e} /\ pub' = [pub EXCEPT ![q].sent = e]
    BY <1>8 DEF DeliverEvent
  <2>2. outbox' = outbox
    BY <1>8 DEF DeliverEvent, gameVars
  <2>3. pub[q].batch \subseteq outbox /\ e \in pub[q].batch
    BY <1>1, <2>1 DEF First
  <2>4. IsFiniteSet(pub[q].batch) /\ \A g \in pub[q].batch : g.stamp = g.revision /\ g.revision \in Nat
    BY <1>1, <2>3, FS_Subset
  <2>5. \A f \in pub[q].batch : ~(f.revision < e.revision)
    BY <2>1, <2>4, FirstIsLeast
  <2>6. \A f \in outbox : f.revision < e.revision => f \in delivered
    BY <2>3, <2>5 DEF OrderInv
  <2>7. DeliveredInOrder'
    BY <2>1, <2>2, <2>6 DEF OrderInv, DeliveredInOrder
  <2>8. pub'[q].batch = pub[q].batch /\ \A r \in Publishers \ {q} : pub'[r] = pub[r]
    BY <1>1, <2>1
  <2>9. \A d \in pub'[q].batch, f \in outbox :
          f.revision < d.revision => f \in delivered' \cup pub'[q].batch
    BY <2>1, <2>8 DEF OrderInv
  <2> QED BY <1>6, <1>8, <2>1, <2>7, <2>8, <2>9 DEF PublishStep
<1>9. ASSUME NEW q \in Publishers, MarkPublished(q) PROVE OrderInv'
  <2>1. UNCHANGED <<outbox, delivered>> /\ pub[q].sent \in delivered
    BY <1>9 DEF MarkPublished, gameVars, IInv, OutboxInv
  <2>2. pub'[q].batch = pub[q].batch \ {pub[q].sent} /\ \A r \in Publishers \ {q} : pub'[r] = pub[r]
    BY <1>1, <1>9 DEF MarkPublished
  <2>3. \A d \in pub'[q].batch, f \in outbox :
          f.revision < d.revision => f \in delivered' \cup pub'[q].batch
    BY <2>1, <2>2 DEF OrderInv
  <2>4. DeliveredInOrder'
    BY <2>1 DEF OrderInv, DeliveredInOrder
  <2> QED BY <1>6, <1>9, <2>1, <2>2, <2>3, <2>4 DEF PublishStep
<1>10. ASSUME NEW q \in Publishers, StopPublishing(q) PROVE OrderInv'
  <2>1. UNCHANGED <<outbox, delivered>>
    BY <1>10 DEF StopPublishing, gameVars
  <2>2. pub'[q].batch = {} /\ \A r \in Publishers \ {q} : pub'[r] = pub[r]
    BY <1>1, <1>10 DEF StopPublishing, Resting
  <2>3. DeliveredInOrder'
    BY <2>1 DEF OrderInv, DeliveredInOrder
  <2> QED BY <1>6, <1>10, <2>1, <2>2, <2>3 DEF PublishStep
<1>11. ~(\E q \in Publishers : PublishStep(q)) => UNCHANGED outboxVars
  BY NextCases DEF QuietStep, GameStep, MatchStep, SendCommand, Replay, Decline, SendAnswer,
     BeginServer, ReplayServer, DeclineServer, LoseSocket, FetchDisconnect, RecoverDisconnect,
     CheckRoom, ReadVersion, DeclineDisconnect, CloseDisconnect, Abandon, Accept, StoreRejection,
     Serves, ServeStart, ServeForfeit, ServeCancel, CompleteDisconnect, JoinStarts, CountdownEnds,
     CancelExpired, Acknowledge, RefuseInactive, vars
<1> QED BY <1>5, <1>7, <1>8, <1>9, <1>10, <1>11 DEF PublishStep

(* With clocks that agree, no event of a room is delivered for the first time
   after one of a later revision, whatever publishers run and die. *)
THEOREM DeliveredInOrderHolds == ClockSkew = 0 => (Spec => []DeliveredInOrder)
<1> SUFFICES ASSUME ClockSkew = 0 PROVE Spec => []DeliveredInOrder
  OBVIOUS
<1>1. Init => OrderInv
  <2> SUFFICES ASSUME Init PROVE OrderInv
    OBVIOUS
  <2>1. IsFiniteSet(outbox)
    BY FS_EmptySet DEF Init
  <2> QED BY <2>1 DEF Init, OrderInv, DeliveredInOrder, Resting
<1>2. IInv /\ OrderInv /\ [Next]_vars => OrderInv'
  BY OrderKept
<1>3. OrderInv => DeliveredInOrder
  BY DEF OrderInv
<1> QED BY <1>1, <1>2, <1>3, Invariance, PTL DEF Spec

=============================================================================
