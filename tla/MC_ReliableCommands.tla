------------------------ MODULE MC_ReliableCommands ------------------------
(* Small instances of ReliableCommands. *)
EXTENDS ReliableCommands, TLC

CONSTANTS c1, c2, c3, p1, p2

Symmetry == Permutations(Handlers) \cup Permutations(Publishers) \cup Permutations(Players)

\* c1 is a move that its client sends again with another version; c2 gives up;
\* c3 places a fleet before the match.
SentOnce  == [c \in Commands |-> IF c = c3 THEN {0} ELSE {2}]
SentTwice == [c \in Commands |-> CASE c = c1 -> {2, 3} [] c = c2 -> {3} [] OTHER -> {2}]

\* Fleets are sent while the room waits for them.
FleetsFirst ==
    \A h \in Handlers : proc[h] = Idle /\ proc'[h].cmd = c3 => room.phase = "waiting"

\* Where nobody publishes and no connection is lost, no step reads the outbox or the
\* answers of RefuseInactive, and the properties of the run commands do not: states that
\* differ in these alone have the same future, and one of them is explored.
CommandView == <<room, log, receipts, {a \in answers : a.stored}, proc>>

=============================================================================
