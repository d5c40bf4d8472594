------------------------------ MODULE Deposits ------------------------------
(***************************************************************************)
(* The USDT deposits of one user: the request of payments.service.ts, the  *)
(* submission, the inbox of notifications and the polling of               *)
(* payments.worker.ts, the proposals of payments-admin.controller.ts, the  *)
(* credit in the ledger, and the payments of the provider as those files   *)
(* use it.                                                                 *)
(*                                                                         *)
(* A request is a MongoDB transaction, so it reads a snapshot and then     *)
(* commits.  What the worker does between two awaits is a step; it may die *)
(* at any of them.  The provider has at most one payment per order here,   *)
(* and names it by the order_id it was created with.                       *)
(***************************************************************************)
EXTENDS Integers, FiniteSets, Functions

CONSTANTS
    Orders,        \* deposit orders, one per idempotency key of the user
    Reconcilers,   \* reconcileDeposit runs: the tick of each worker replica
    Amount,        \* Orders -> the amount asked for
    Limit,         \* DEPOSIT_LIMIT_24H
    Outcomes,      \* what a payment may settle; 0 is an outcome that is not USDT
    Reports,       \* the statuses of a payment that the provider passes through
    None

VARIABLES
    status,        \* finance_orders.status, "absent" before the insert
    providerId,    \* finance_orders.providerId: the order whose payment it names
    credited,      \* finance_orders.credited, 0 before it is set
    requests,      \* open transactions of deposit(): the order, the total they read
    submit,        \* where submitDeposit is with the order it claimed
    proposals,     \* pending finance_resolution_requests
    inbox,         \* finance_ipn, not processed: payment and status of the body
    processed,     \* finance_ipn, processed
    run,           \* Reconcilers -> the order at hand, its notification, the answer
    journal,       \* orders whose journal deposit:<order> exists
    available,     \* finance_accounts.balance of the user
    recharged,     \* users.total_recharged
    call,          \* provider: the create-payment call of an order
    created,       \* provider: how many payments it created for an order
    payment,       \* provider: payment_status
    settled        \* provider: outcome_amount, 0 unless it is in USDT

ipnVars      == <<inbox, processed>>
moneyVars    == <<credited, journal, available, recharged>>
providerVars == <<call, created, payment, settled>>
vars == <<status, providerId, requests, submit, proposals, ipnVars, run, moneyVars, providerVars>>

Dropped == {"expired", "failed", "refunded", "rejected"}      \* not counted by the limit
Polled  == {"submitting", "uncertain", "waiting", "confirming", "partially_paid"}
Dead    == {"expired", "failed", "refunded"}                  \* the payment ended unpaid
Final   == Dead \cup {"none", "finished"}
Rank    == [waiting |-> 1, partially_paid |-> 2, confirming |-> 3, confirmed |-> 4,
            sending |-> 5, finished |-> 6, expired |-> 7, failed |-> 7, refunded |-> 7]

(* The instances assume it. *)
DepositAssumption ==
    /\ Amount \in [Orders -> Nat \ {0}]
    /\ Limit \in Nat /\ Outcomes \subseteq Nat
    /\ Reports \subseteq DOMAIN Rank
    /\ None \notin Orders

Resting == [pc |-> "idle", order |-> None, event |-> "none", answer |-> "none"]
Asking(o, s) == [pc |-> "asking", order |-> o, event |-> s, answer |-> "none"]

Init ==
    /\ status = [o \in Orders |-> "absent"]
    /\ providerId = [o \in Orders |-> None]
    /\ credited = [o \in Orders |-> 0]
    /\ requests = {}
    /\ submit = [o \in Orders |-> "idle"]
    /\ proposals = {}
    /\ inbox = {} /\ processed = {}
    /\ run = [r \in Reconcilers |-> Resting]
    /\ journal = {} /\ available = 0 /\ recharged = 0
    /\ call = [o \in Orders |-> "none"]
    /\ created = [o \in Orders |-> 0]
    /\ payment = [o \in Orders |-> "none"]
    /\ settled = [o \in Orders |-> 0]

(* updateOne({ _id, status: from }, { $set: { status: to } }) *)
Cas(o, from, to) == status' = [status EXCEPT ![o] = IF @ \in from THEN to ELSE @]
Larger(a, b)     == IF a > b THEN a ELSE b

-----------------------------------------------------------------------------
(* The player: deposit.  The first operation writes the user, so a second  *)
(* transaction that writes it conflicts and is retried when this one ended.*)

Counted == {o \in Orders : status[o] \notin Dropped \cup {"absent"}}
charge == [o \in Orders |-> Larger(Amount[o], credited[o])]
UserIsFree == requests = {}

(* Mutant: the request does not write the user. *)
BeginRequestUnserialized(o) ==
    /\ status[o] = "absent" /\ \A t \in requests : t.order # o
    /\ requests' = requests \cup
         {[order |-> o, total |-> SumFunctionOnSet(charge, Counted)]}
    /\ UNCHANGED <<status, providerId, submit, proposals, ipnVars, run, moneyVars, providerVars>>

BeginRequest(o) ==
    /\ status[o] = "absent" /\ UserIsFree
    /\ requests' = {[order |-> o, total |-> SumFunctionOnSet(charge, Counted)]}
    /\ UNCHANGED <<status, providerId, submit, proposals, ipnVars, run, moneyVars, providerVars>>

(* The insert, or DEPOSIT_DAILY_LIMIT, or the end of a transaction that died. *)
EndRequest(t) ==
    /\ requests' = requests \ {t}
    /\ \/ t.total + Amount[t.order] <= Limit /\ Cas(t.order, {"absent"}, "created")
       \/ UNCHANGED status
    /\ UNCHANGED <<providerId, submit, proposals, ipnVars, run, moneyVars, providerVars>>

-----------------------------------------------------------------------------
(* The worker: submitDeposit.  The queue's read and the claim are one step: *)
(* the claim repeats the condition and nothing else of the read is used.    *)

ClaimDeposit(o) ==
    /\ status[o] = "created"
    /\ Cas(o, {"created"}, "submitting")
    /\ submit' = [submit EXCEPT ![o] = "claimed"]
    /\ UNCHANGED <<providerId, requests, proposals, ipnVars, run, moneyVars, providerVars>>

CreateDeposit(o) ==
    /\ submit[o] = "claimed"
    /\ call' = [call EXCEPT ![o] = "inflight"]
    /\ submit' = [submit EXCEPT ![o] = "calling"]
    /\ UNCHANGED <<status, providerId, requests, proposals, ipnVars, run, moneyVars,
                   created, payment, settled>>

(* The reply: a payment, a structured refusal, or nothing usable in ten seconds. *)
ReceiveReply(o) ==
    /\ submit[o] = "calling"
    /\ \E got \in {"created", "refused", "unresolved"} :
         /\ got # "unresolved" => call[o] = got
         /\ submit' = [submit EXCEPT ![o] = got]
    /\ UNCHANGED <<status, providerId, requests, proposals, ipnVars, run, moneyVars, providerVars>>

StorePayment(o) ==
    /\ submit[o] = "created"
    /\ \/ /\ Cas(o, {"submitting"}, "waiting")
          /\ providerId' = IF status[o] = "submitting" THEN [providerId EXCEPT ![o] = o]
                                                       ELSE providerId
          /\ submit' = [submit EXCEPT ![o] = "idle"]
       \/ submit' = [submit EXCEPT ![o] = "unresolved"]            \* the update threw
          /\ UNCHANGED <<status, providerId>>
    /\ UNCHANGED <<requests, proposals, ipnVars, run, moneyVars, providerVars>>

CloseSubmission(o) ==
    /\ submit[o] \in {"refused", "unresolved"}
    /\ Cas(o, {"submitting"}, IF submit[o] = "refused" THEN "rejected" ELSE "uncertain")
    /\ submit' = [submit EXCEPT ![o] = "idle"]
    /\ UNCHANGED <<providerId, requests, proposals, ipnVars, run, moneyVars, providerVars>>

WorkerDies(o) ==
    /\ submit[o] # "idle"
    /\ submit' = [submit EXCEPT ![o] = "idle"]
    /\ UNCHANGED <<status, providerId, requests, proposals, ipnVars, run, moneyVars, providerVars>>

-----------------------------------------------------------------------------
(* The minute tick: proposals, the inbox, the orders it polls. *)

(* submittedAt is more than a minute old: how far the worker got is unknown. *)
SubmissionTimedOut(o) ==
    /\ status[o] = "submitting" /\ providerId[o] = None
    /\ Cas(o, {"submitting", "uncertain"}, "uncertain")
    /\ UNCHANGED <<providerId, requests, submit, proposals, ipnVars, run, moneyVars, providerVars>>

IdentityMatches(o, p) == p = o
ResolveUncertain(q) ==
    /\ q \in proposals
    /\ proposals' = proposals \ {q}
    /\ IF status[q.order] = "uncertain" /\ providerId[q.order] = None
       THEN /\ payment[q.provider] # "none"
            /\ providerId' = IF IdentityMatches(q.order, q.provider)
                             THEN [providerId EXCEPT ![q.order] = q.provider] ELSE providerId
       ELSE UNCHANGED providerId
    /\ UNCHANGED <<status, requests, submit, ipnVars, run, moneyVars, providerVars>>

(* Mutant: a notification is marked when it is taken up. *)
BeginEventMarked(r, o, s) ==
    /\ <<o, s>> \in inbox /\ run[r].pc = "idle"
    /\ inbox' = inbox \ {<<o, s>>} /\ processed' = processed \cup {<<o, s>>}
    /\ run' = [run EXCEPT ![r] = Asking(o, s)]
    /\ UNCHANGED <<status, providerId, requests, submit, proposals, moneyVars, providerVars>>

(* The body names the payment and its order: either finds the order. *)
BeginEvent(r, o, s) ==
    /\ <<o, s>> \in inbox /\ run[r].pc = "idle"
    /\ run' = [run EXCEPT ![r] = Asking(o, s)]
    /\ UNCHANGED <<status, providerId, requests, submit, proposals, ipnVars, moneyVars, providerVars>>

BeginPoll(r, o) ==
    /\ run[r].pc = "idle"
    /\ status[o] \in Polled /\ providerId[o] = o
    /\ run' = [run EXCEPT ![r] = Asking(o, "none")]
    /\ UNCHANGED <<status, providerId, requests, submit, proposals, ipnVars, moneyVars, providerVars>>

(* GET /payment/:id; the answer may be old when it is used. *)
AskProvider(r) ==
    /\ run[r].pc = "asking" /\ payment[run[r].order] # "none"
    /\ run' = [run EXCEPT ![r].pc = "answered", ![r].answer = payment[run[r].order]]
    /\ UNCHANGED <<status, providerId, requests, submit, proposals, ipnVars, moneyVars, providerVars>>

(* The end of reconcileDeposit: a notification is marked next, a poll is done. *)
Reconciled(r) == run' = [run EXCEPT ![r] = IF @.event = "none" THEN Resting
                                           ELSE [@ EXCEPT !.pc = "marking"]]

RecordStatus(r) ==
    LET o == run[r].order
        s == run[r].answer IN
    /\ run[r].pc = "answered" /\ s # "finished"
    /\ IF status[o] # "confirmed"
       THEN /\ status' = [status EXCEPT ![o] = IF s = "confirmed" THEN "confirming" ELSE s]
            /\ providerId' = [providerId EXCEPT ![o] = o]
       ELSE UNCHANGED <<status, providerId>>
    /\ Reconciled(r)
    /\ UNCHANGED <<requests, submit, proposals, ipnVars, moneyVars, providerVars>>

(* LedgerService.post with the journal deposit:<order>: a repeated one is a no-op. *)
PostDeposit(o, amount) ==
    /\ journal' = journal \cup {o}
    /\ available' = IF o \in journal THEN available ELSE available + amount

(* Mutant: the order is not read again inside the transaction. *)
CreditUnread(r) ==
    LET o == run[r].order IN
    /\ run[r].pc = "answered" /\ run[r].answer = "finished"
    /\ settled[o] > 0 /\ UserIsFree
    /\ PostDeposit(o, settled[o])
    /\ recharged' = recharged + settled[o]
    /\ credited' = [credited EXCEPT ![o] = settled[o]]
    /\ status' = [status EXCEPT ![o] = "confirmed"]
    /\ providerId' = [providerId EXCEPT ![o] = o]
    /\ Reconciled(r)
    /\ UNCHANGED <<requests, submit, proposals, ipnVars, providerVars>>

(* The credit writes the user as well.  An outcome that is not USDT throws, as
   does one that has changed since it was credited. *)
Credit(r) ==
    LET o == run[r].order IN
    /\ run[r].pc = "answered" /\ run[r].answer = "finished"
    /\ settled[o] > 0 /\ UserIsFree
    /\ IF status[o] = "confirmed"
       THEN credited[o] = settled[o] /\ UNCHANGED <<moneyVars, status, providerId>>
       ELSE /\ PostDeposit(o, settled[o])
            /\ recharged' = recharged + settled[o]
            /\ credited' = [credited EXCEPT ![o] = settled[o]]
            /\ status' = [status EXCEPT ![o] = "confirmed"]
            /\ providerId' = [providerId EXCEPT ![o] = o]
    /\ Reconciled(r)
    /\ UNCHANGED <<requests, submit, proposals, ipnVars, providerVars>>

MarkProcessed(r) ==
    LET e == <<run[r].order, run[r].event>> IN
    /\ run[r].pc = "marking"
    /\ inbox' = inbox \ {e} /\ processed' = processed \cup {e}
    /\ run' = [run EXCEPT ![r] = Resting]
    /\ UNCHANGED <<status, providerId, requests, submit, proposals, moneyVars, providerVars>>

(* The call threw, or the worker died: a notification stays in the inbox. *)
Abandon(r) ==
    /\ run[r].pc # "idle"
    /\ run' = [run EXCEPT ![r] = Resting]
    /\ UNCHANGED <<status, providerId, requests, submit, proposals, ipnVars, moneyVars, providerVars>>

-----------------------------------------------------------------------------
(* Administration, and the provider. *)

ProposeProviderId(o, p) ==
    /\ status[o] = "uncertain" /\ providerId[o] = None
    /\ proposals' = proposals \cup {[order |-> o, provider |-> p]}
    /\ UNCHANGED <<status, providerId, requests, submit, ipnVars, run, moneyVars, providerVars>>

ProviderAnswers(o) ==
    /\ call[o] = "inflight"
    /\ \/ /\ call' = [call EXCEPT ![o] = "created"]
          /\ created' = [created EXCEPT ![o] = @ + 1]
          /\ payment' = [payment EXCEPT ![o] = "waiting"]
       \/ call' = [call EXCEPT ![o] = "refused"] /\ UNCHANGED <<created, payment>>
    /\ UNCHANGED <<status, providerId, requests, submit, proposals, ipnVars, run, moneyVars, settled>>

(* A payment goes forward, until it is finished or dead. *)
PaymentMoves(o) ==
    /\ payment[o] \notin Final
    /\ \E s \in Reports :
         /\ Rank[s] > Rank[payment[o]]
         /\ payment' = [payment EXCEPT ![o] = s]
         /\ IF s = "finished" THEN \E amount \in Outcomes : settled' = [settled EXCEPT ![o] = amount]
                              ELSE UNCHANGED settled
    /\ UNCHANGED <<status, providerId, requests, submit, proposals, ipnVars, run, moneyVars,
                   call, created>>

(* receiveIpn: an upsert by the hash of the body, so a repeated body is not new.
   A notification that is lost does not arrive. *)
ReceiveIpn(o) ==
    /\ payment[o] \in Reports
    /\ <<o, payment[o]>> \notin processed
    /\ inbox' = inbox \cup {<<o, payment[o]>>}
    /\ UNCHANGED <<status, providerId, requests, submit, proposals, processed, run, moneyVars,
                   providerVars>>

-----------------------------------------------------------------------------
RequestStep == (\E o \in Orders : BeginRequest(o)) \/ (\E t \in requests : EndRequest(t))
SubmitStep(o) ==
    \/ ClaimDeposit(o) \/ CreateDeposit(o) \/ ReceiveReply(o)
    \/ StorePayment(o) \/ CloseSubmission(o) \/ WorkerDies(o)
TickStep ==
    \/ \E o \in Orders : SubmissionTimedOut(o)
    \/ \E q \in proposals : ResolveUncertain(q)
ReconcilerStep(r) ==
    \/ \E e \in inbox : BeginEvent(r, e[1], e[2])
    \/ \E o \in Orders : BeginPoll(r, o)
    \/ AskProvider(r) \/ RecordStatus(r) \/ Credit(r) \/ MarkProcessed(r) \/ Abandon(r)
OutsideStep ==
    \/ \E o, p \in Orders : ProposeProviderId(o, p)
    \/ \E o \in Orders : ProviderAnswers(o) \/ PaymentMoves(o) \/ ReceiveIpn(o)

Next ==
    \/ RequestStep
    \/ \E o \in Orders : SubmitStep(o)
    \/ TickStep
    \/ \E r \in Reconcilers : ReconcilerStep(r)
    \/ OutsideStep

Spec == Init /\ [][Next]_vars

(* Fairness.  The tick runs for ever and takes up what stays selected; a call
   that keeps being tried some day returns; a transaction and a run end.
   Nothing is assumed of the player, of administrators, of the submission, or of the
   provider: in particular, a notification may never come. *)
TransactionEnds == \E t \in requests : EndRequest(t)
RunEnds         == \E r \in Reconcilers : MarkProcessed(r) \/ Abandon(r)
TakesUp(o)      == \E r \in Reconcilers : BeginEvent(r, o, "finished")
Polls(o)        == \E r \in Reconcilers : BeginPoll(r, o)
Asks(o)         == \E r \in Reconcilers : run[r].order = o /\ AskProvider(r)
Applies(o)      == \E r \in Reconcilers : run[r].order = o /\ (RecordStatus(r) \/ Credit(r))
Fairness ==
    /\ WF_vars(TransactionEnds) /\ WF_vars(RunEnds)
    /\ \A o \in Orders : SF_vars(TakesUp(o)) /\ SF_vars(Polls(o))
                         /\ SF_vars(Asks(o)) /\ SF_vars(Applies(o))
FairSpec == Spec /\ Fairness

-----------------------------------------------------------------------------
(* Properties. *)

(* An order is confirmed exactly if its journal exists, and the user has been
   given, in the account and in the total, what the one payment of each such order
   has settled, however many notifications, polls and workers come to it. *)
DepositsBalance ==
    /\ \A o \in Orders : created[o] <= 1 /\ providerId[o] \in {None, o}
    /\ journal = {o \in Orders : status[o] = "confirmed"}
    /\ \A o \in journal : payment[o] = "finished" /\ credited[o] = settled[o] /\ settled[o] > 0
    /\ available = SumFunctionOnSet(settled, journal)
    /\ recharged = available

(* What the user asked for in orders that may still be or have been paid is
   never above the limit, however many requests run at the same time. *)
DepositsFitLimit ==
    SumFunctionOnSet(Amount, {o \in Counted : payment[o] \notin Dead}) <= Limit

Due(o) == payment[o] = "finished" /\ settled[o] > 0
(* A payment whose last notification was stored is credited, whatever statuses
   older answers have written over the order meanwhile. *)
NotifiedIsCredited ==
    \A o \in Orders : (Due(o) /\ <<o, "finished">> \in inbox) ~> status[o] = "confirmed"

(* The runbook: what is pending is reconciled every minute, and a notification
   only wakes the worker up; so a payment with a known id does not need one. *)
FinishedIsCredited ==
    \A o \in Orders : (Due(o) /\ providerId[o] = o) ~> status[o] = "confirmed"

=============================================================================
