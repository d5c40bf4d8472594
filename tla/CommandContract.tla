--------------------------- MODULE CommandContract ---------------------------
(***************************************************************************)
(* What the reliable commands of a room promise to its players.  A command *)
(* is decided once, accepted or rejected, and its decision never changes.  *)
(* Accepted commands form one history: each has a revision above those of  *)
(* all the commands accepted before it, and the game takes none of them    *)
(* after it is over.                                                       *)
(***************************************************************************)
EXTENDS Naturals

CONSTANT Commands

VARIABLES decision, history, over

vars == <<decision, history, over>>

Init ==
    /\ decision = [c \in Commands |-> "open"]
    /\ history = {}
    /\ over = FALSE

Decide(c, as) == decision[c] = "open" /\ decision' = [decision EXCEPT ![c] = as]

Accept(c) ==
    /\ ~over
    /\ Decide(c, "accepted")
    /\ \E e \in history' :
         /\ e.cmd = c
         /\ \A f \in history : f.revision < e.revision
         /\ history' = history \cup {e}
    /\ over' \in BOOLEAN

Reject(c) ==
    /\ Decide(c, "rejected")
    /\ UNCHANGED <<history, over>>

End ==
    /\ over' = TRUE
    /\ UNCHANGED <<decision, history>>

Next == (\E c \in Commands : Accept(c) \/ Reject(c)) \/ End

Spec == Init /\ [][Next]_vars

=============================================================================
