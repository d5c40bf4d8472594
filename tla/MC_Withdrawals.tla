---------------------------- MODULE MC_Withdrawals ----------------------------
(* Small instances of Withdrawals. *)
EXTENDS Withdrawals, TLC

CONSTANTS u1, c2, w2, r2

\* Two orders of one user: the limits and the shared balance matter.
OneOwner    == [o \in Orders |-> u1]
\* Either order passes the limits alone; together they are above the daily one.
TwoAmounts  == [o \in Orders |-> 2]
OpeningFive == [u \in Users |-> 5]

\* Orders have the same owner and amount, keys are opaque.
Symmetry == Permutations(Orders) \cup Permutations(Keys)

\* One order with two handlers of each kind and two attempts, or two orders with one
\* handler of each kind and one attempt.
Begun == {o \in Orders : status[o] # "absent" \/ \E p \in Procs : Job(p) = o}
Used  == {r.key : r \in receipts} \cup {proc[c].note : c \in {d \in Clients : At(d, "verifying")}}
OneOrder == Cardinality(Begun) <= 1 /\ Cardinality(Used) <= 1
TwoOrders == /\ \A p \in {c2, w2, r2} \cap Procs : At(p, "idle")
             /\ \A o \in Orders : challenge[o].attempts <= 1
SmallNext == Next /\ (OneOrder' \/ TwoOrders')
SmallSpec == Init /\ [][SmallNext]_vars

=============================================================================
