----------------------------- MODULE MC_Payments -----------------------------
(* Withdrawals, or a deposit, or two deposits.  kind is what a behaviour is about; *)
(* the other system stays where it begins, where no fair action is enabled.      *)
EXTENDS MC_Withdrawals, Payments

CONSTANTS p1, d1, Kinds

VARIABLE kind

\* Either deposit fits under a limit of three alone.
TwoDeposits == [o \in DepositOrders |-> 2]

\* One deposit and the workers that reconcile it.
OneDeposit ==
  /\ \A o \in DepositOrders \ {d1} : dstatus[o] = "absent"
  /\ \A t \in requests : t.order = d1
  /\ \A q \in dproposals : q.provider = d1
\* Two deposits, one worker, and payments that settle or expire at once.
OneReconciler ==
  /\ \A r \in DepositReconcilers \ {p1} : run[r].pc = "idle"
  /\ \A o \in DepositOrders : /\ payment[o] \in {"none", "waiting", "finished", "expired"}
                              /\ payment[o] = "finished" => settled[o] = 1

MCInit == kind \in Kinds /\ Init /\ D!Init
MCNext ==
  /\ UNCHANGED kind
  /\ \/ kind = "Withdrawal" /\ SmallNext /\ UNCHANGED dvars
     \/ kind = "Single" /\ D!Next /\ OneDeposit' /\ UNCHANGED vars
     \/ kind = "Pair" /\ D!Next /\ OneReconciler' /\ UNCHANGED vars
MCSpec == MCInit /\ [][MCNext]_<<kind, PaymentsVars>>

\* The fairness of Deposits, in the kind that has a liveness property.
Alone(step) == kind = "Single" /\ UNCHANGED <<kind, vars>> /\ step
FairMCSpec ==
  /\ MCSpec
  /\ Fairness
  /\ WF_<<kind, PaymentsVars>>(Alone(D!TransactionEnds)) /\ WF_<<kind, PaymentsVars>>(Alone(D!RunEnds))
  /\ SF_<<kind, PaymentsVars>>(Alone(D!TakesUp(d1))) /\ SF_<<kind, PaymentsVars>>(Alone(D!Polls(d1)))
  /\ SF_<<kind, PaymentsVars>>(Alone(D!Asks(d1))) /\ SF_<<kind, PaymentsVars>>(Alone(D!Applies(d1)))
=============================================================================
