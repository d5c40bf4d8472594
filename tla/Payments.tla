------------------------------ MODULE Payments ------------------------------
(***************************************************************************)
(* The payments of the platform: the withdrawals of all users beside the   *)
(* deposits of one.  They are handled by the same service and the same     *)
(* worker but share no order, and each step is of one of them.             *)
(***************************************************************************)
EXTENDS Withdrawals

CONSTANTS DepositOrders, DepositReconcilers, DepositAmount, Limit, Outcomes, Reports
VARIABLES dstatus, dprovider, credited, requests, submit, dproposals, inbox, processed,
          run, djournal, available, recharged, call, created, payment, settled

dvars == <<dstatus, dprovider, credited, requests, submit, dproposals, inbox, processed,
           run, djournal, available, recharged, call, created, payment, settled>>

D == INSTANCE Deposits WITH
       Orders <- DepositOrders, Reconcilers <- DepositReconcilers, Amount <- DepositAmount,
       status <- dstatus, providerId <- dprovider, proposals <- dproposals, journal <- djournal

ASSUME DepositsAssumption == D!DepositAssumption

PaymentsVars == <<vars, dvars>>
PaymentsNext == (Next /\ UNCHANGED dvars) \/ (D!Next /\ UNCHANGED vars)
PaymentsSpec == Init /\ D!Init /\ [][PaymentsNext]_PaymentsVars

-----------------------------------------------------------------------------
(* Stated in Deposits.tla. reconcileDeposit credits each finished payment once and in full. *)
DepositsBalance == D!DepositsBalance
(* deposit: requests that run at the same time do not exceed the limit together. *)
DepositsFitLimit == D!DepositsFitLimit
(* tick: a stored notification of a finished payment brings it to the account. *)
NotifiedDepositIsCredited == D!NotifiedIsCredited
(* The runbook: the tick does so without a notification as well. *)
FinishedDepositIsCredited == D!FinishedIsCredited
=============================================================================
