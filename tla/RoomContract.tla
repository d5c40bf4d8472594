---------------------------- MODULE RoomContract ----------------------------
(* What a room promises about its stakes, whatever the game is: they come in *)
(* before the match, lie untouched while it is prepared and played, and go   *)
(* out once: to the winner of a match that was really played, less the       *)
(* fee of the house, or back to those who paid them.                         *)
EXTENDS Integers, FiniteSets

CONSTANTS Players, Stake, Fee, None

VARIABLES stage,    \* lobby, held, live, closed
          staked,   \* whose stake the escrow has or had
          escrow,   \* what it holds
          house,    \* what the house has earned
          late,     \* whether a stake may come after the start
          winner    \* who took the pot, or None

contractVars == <<stage, staked, escrow, house, late, winner>>

Init == /\ stage = "lobby" /\ staked = {} /\ escrow = 0 /\ house = 0 /\ winner = None
        /\ late \in BOOLEAN

\* Players stake in the lobby, and the match is set up; after that a stake comes
\* only to a table where it may be late.
Gather ==
  /\ IF stage = "lobby" THEN stage' \in {"lobby", "held"}
     ELSE late /\ stage # "closed" /\ stage' = stage
  /\ \E ps \in SUBSET Players : staked \subseteq ps /\ staked' = ps
  /\ escrow' = Stake * Cardinality(staked')
  /\ UNCHANGED <<house, late, winner>>

\* Everyone has seen the board: the match is on.
Confirm ==
  /\ stage = "held" /\ stage' = "live"
  /\ UNCHANGED <<staked, escrow, house, late, winner>>

Award ==
  /\ stage = "live" /\ stage' = "closed"
  /\ winner' \in (IF late THEN Players ELSE staked) /\ escrow' = 0
  /\ house' = (escrow * Fee + 99) \div 100
  /\ UNCHANGED <<staked, late>>

Return ==
  /\ stage # "closed" /\ stage' = "closed"
  /\ escrow' = 0
  /\ UNCHANGED <<staked, house, late, winner>>

Next == Gather \/ Confirm \/ Award \/ Return

Spec == Init /\ [][Next]_contractVars
=============================================================================
