------------------------ MODULE WithdrawalContract ------------------------
(***************************************************************************)
(* What a withdrawal promises about the player's money.  An open order has *)
(* taken nothing.  A held one has its amount reserved.  Then the money is  *)
(* either returned to the player, or delivered to the player's address and *)
(* afterwards written off as paid: never both, and neither twice.          *)
(***************************************************************************)
CONSTANT Orders

VARIABLE phase

Init == phase = [o \in Orders |-> "open"]

Move(o, from, to) == phase[o] = from /\ phase' = [phase EXCEPT ![o] = to]

Hold(o)    == Move(o, "open", "held")
Deliver(o) == Move(o, "held", "delivered")
Pay(o)     == Move(o, "delivered", "paid")
Return(o)  == Move(o, "held", "returned")

Next == \E o \in Orders : Hold(o) \/ Deliver(o) \/ Pay(o) \/ Return(o)

Spec == Init /\ [][Next]_phase

=============================================================================
