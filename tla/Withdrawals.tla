---------------------------- MODULE Withdrawals ----------------------------
(***************************************************************************)
(* A USDT withdrawal from the player's request to the provider's verdict:  *)
(* the HTTP handlers of payments.service.ts, the submission and            *)
(* reconciliation loops of payments.worker.ts, the administration of       *)
(* payments-admin.controller.ts, the journals of ledger.service.ts and the *)
(* payout API as those files use it.                                       *)
(*                                                                         *)
(* A handler is a process: every await between two database operations is  *)
(* a point where other processes run, so each operation is a step of its   *)
(* own, and a Mongo transaction is one step.  A process may stop at any    *)
(* such point (Abandon): the API or worker died, or the call threw.        *)
(***************************************************************************)
EXTENDS Integers, FiniteSets, Functions

CONSTANTS
    Orders,        \* withdrawal orders, one per (user, idempotency key)
    Users,
    Keys,          \* idempotency keys of verification requests
    Clients,       \* HTTP handlers that may run at the same time
    Workers,       \* submitWithdrawal runs: drain and tick, of each worker
    Reconcilers,   \* reconcileWithdrawal runs: IPN inbox and tick
    Owner,         \* Orders -> Users
    Amount,        \* Orders -> net plus fee
    Opening,       \* Users -> available balance at the start
    MaxAttempts,   \* code comparisons a challenge allows (5)
    SingleLimit,   \* an order above it is reviewed (500)
    DailyLimit,    \* a user's total above it is reviewed (1000)
    None

ASSUME WithdrawalAssumption ==
    /\ Owner \in [Orders -> Users]
    /\ Amount \in [Orders -> Nat \ {0}]
    /\ Opening \in [Users -> Nat]
    /\ MaxAttempts \in Nat /\ SingleLimit \in Nat /\ DailyLimit \in Nat
    /\ None \notin Orders

VARIABLES
    status,        \* finance_orders.status, "absent" before the insert
    reason,        \* finance_orders.reviewReason
    challenge,     \* finance_challenges, and whether its ten minutes passed
    receipts,      \* finance_requests of verifyWithdrawal
    providerId,    \* finance_orders.providerId: the order whose payout it names
    proposals,     \* pending finance_resolution_requests
    journal,       \* finance_journals
    account,       \* finance_accounts.balance
    proc,          \* the running handlers: where they are, what they hold
    verdict,       \* provider: the create-payout call of an order
    payouts,       \* provider: how many payouts it created for an order
    payout         \* provider: status of the payout

requestVars  == <<challenge, receipts>>
ledgerVars   == <<journal, account>>
providerVars == <<verdict, payouts, payout>>
vars == <<status, reason, requestVars, providerId, proposals, ledgerVars, proc, providerVars>>

Statuses == {"absent", "created", "pending_verify", "verification_delivery_failed",
             "expired", "review", "reserved", "submitting", "verification_pending",
             "processing", "uncertain", "confirmed", "rejected"}
Held     == {"review", "reserved", "submitting", "verification_pending",
             "processing", "uncertain"}
Reasons  == {"none", "limit", "authorization_not_proven", "fee_changed"}
Terminal == {"finished", "rejected"}            \* payout statuses; cancelled is rejected
PayoutStatuses == Terminal \cup {"none", "waiting", "processing"}

Procs == Clients \cup Workers \cup Reconcilers
Idle  == [pc |-> "idle", order |-> None, note |-> "none"]

Available(u) == <<"available", u>>
Reserve(u)   == <<"withdrawals", u>>
External     == <<"external", "nowpayments">>
Accounts     == {Available(u) : u \in Users} \cup {Reserve(u) : u \in Users} \cup {External}

Journals ==
    [op : {"reserve"}, order : Orders, to : {"withdrawals"}]
    \cup [op : {"reject", "provider-reject", "settle"}, order : Orders, to : {"available"}]
    \cup [op : {"settle"}, order : Orders, to : {"external"}]

Init ==
    /\ status = [o \in Orders |-> "absent"]
    /\ reason = [o \in Orders |-> "none"]
    /\ challenge = [o \in Orders |-> [attempts |-> 0, consumed |-> FALSE, lapsed |-> FALSE]]
    /\ receipts = {}
    /\ providerId = [o \in Orders |-> None]
    /\ proposals = {}
    /\ journal = {}
    /\ account = [a \in Accounts |-> IF a[1] = "available" THEN Opening[a[2]] ELSE 0]
    /\ proc = [p \in Procs |-> Idle]
    /\ verdict = [o \in Orders |-> "none"]
    /\ payouts = [o \in Orders |-> 0]
    /\ payout = [o \in Orders |-> "none"]

-----------------------------------------------------------------------------
(* Process steps. *)
At(p, at)       == proc[p].pc = at
Job(p)          == proc[p].order
Start(p, at, o) == /\ At(p, "idle")
                   /\ proc' = [proc EXCEPT ![p] = [pc |-> at, order |-> o, note |-> "none"]]
Go(p, at)       == proc' = [proc EXCEPT ![p].pc = at]
Stop(p)         == proc' = [proc EXCEPT ![p] = Idle]

(* updateOne({ _id, status: from }, { $set: { status: to } }) *)
Cas(o, from, to) == status' = [status EXCEPT ![o] = IF @ \in from THEN to ELSE @]

(* LedgerService.post: a repeated operation is a no-op, a debit needs funds. *)
Debited(j)  == IF j.op = "reserve" THEN Available(Owner[j.order]) ELSE Reserve(Owner[j.order])
Credited(j) == IF j.to = "external" THEN External
               ELSE <<j.to, Owner[j.order]>>
Posted(op, o) == \E j \in journal : j.op = op /\ j.order = o
Post(op, o, to) ==
    LET j == [op |-> op, order |-> o, to |-> to] IN
    IF Posted(op, o)
    THEN j \in journal /\ UNCHANGED ledgerVars
    ELSE /\ account[Debited(j)] >= Amount[o]
         /\ journal' = journal \cup {j}
         /\ account' = [account EXCEPT ![Debited(j)] = @ - Amount[o],
                                       ![Credited(j)] = @ + Amount[o]]

(* assertWithdrawalAuthorization, without and with requireCoverage. *)
AuthorizationProven(o) ==
    /\ \E r \in receipts : r.order = o
    /\ Posted("reserve", o)
ReserveCovered(o) == AuthorizationProven(o) /\ account[Reserve(Owner[o])] >= Amount[o]

-----------------------------------------------------------------------------
(* The player: requestWithdrawal and verifyWithdrawal. *)

RequestWithdrawal(c, o) ==
    /\ status[o] = "absent"
    /\ Start(c, "inserting", o)
    /\ UNCHANGED <<status, reason, requestVars, providerId, proposals, ledgerVars, providerVars>>

InsertOrder(c) ==
    /\ At(c, "inserting")
    /\ Cas(Job(c), {"absent"}, "created")
    /\ Go(c, "installing")
    /\ UNCHANGED <<reason, requestVars, providerId, proposals, ledgerVars, providerVars>>

InstallChallenge(c) ==
    /\ At(c, "installing")
    /\ IF status[Job(c)] = "created" THEN Go(c, "mailing") ELSE Stop(c)
    /\ Cas(Job(c), {"created"}, "pending_verify")
    /\ UNCHANGED <<reason, requestVars, providerId, proposals, ledgerVars, providerVars>>

(* Mutant: the status of the order is not part of the update's filter. *)
SendCodeUnguarded(c) ==
    /\ At(c, "mailing")
    /\ \/ UNCHANGED status
       \/ status' = [status EXCEPT ![Job(c)] = "verification_delivery_failed"]
    /\ Stop(c)
    /\ UNCHANGED <<reason, requestVars, providerId, proposals, ledgerVars, providerVars>>

SendCode(c) ==
    /\ At(c, "mailing")
    /\ \/ UNCHANGED status
       \/ Cas(Job(c), {"pending_verify"}, "verification_delivery_failed")
    /\ Stop(c)
    /\ UNCHANGED <<reason, requestVars, providerId, proposals, ledgerVars, providerVars>>

HasChallenge(o) == status[o] \notin {"absent", "created"}
Receipt(o, k)   == {r \in receipts : r.user = Owner[o] /\ r.key = k}

(* Mutant: the attempts are not part of the update's filter. *)
ClaimAttemptUnlimited(c, o, k) ==
    /\ At(c, "idle")
    /\ Receipt(o, k) = {}
    /\ HasChallenge(o) /\ challenge[o].attempts <= MaxAttempts
    /\ ~challenge[o].consumed /\ ~challenge[o].lapsed
    /\ challenge' = [challenge EXCEPT ![o].attempts = @ + 1]
    /\ UNCHANGED <<status, reason, receipts, providerId, proposals, ledgerVars, proc, providerVars>>

ClaimAttempt(c, o, k) ==
    /\ At(c, "idle")
    /\ Receipt(o, k) = {}
    /\ HasChallenge(o)
    /\ ~challenge[o].consumed /\ ~challenge[o].lapsed
    /\ challenge[o].attempts < MaxAttempts
    /\ challenge' = [challenge EXCEPT ![o].attempts = @ + 1]
    /\ \/ proc' = [proc EXCEPT ![c] = [pc |-> "verifying", order |-> o, note |-> k]]
       \/ UNCHANGED proc                              \* wrong code
    /\ UNCHANGED <<status, reason, receipts, providerId, proposals, ledgerVars, providerVars>>

(* Mutant: what is reserved but not yet paid is not counted. *)
CountedConfirmed(u) == {o \in Orders : Owner[o] = u /\ status[o] = "confirmed"}

Counted(u) == {o \in Orders : Owner[o] = u /\ status[o] \in Held \cup {"confirmed"}}
ReviewRequired(o, risk) ==
    \/ risk
    \/ Amount[o] > SingleLimit
    \/ SumFunctionOnSet(Amount, Counted(Owner[o])) + Amount[o] > DailyLimit

VerifyWithdrawal(c) ==
    LET o == Job(c)
        k == proc[c].note IN
    /\ At(c, "verifying")
    /\ Receipt(o, k) = {}
    /\ status[o] = "pending_verify"
    /\ ~challenge[o].consumed /\ ~challenge[o].lapsed
    /\ challenge[o].attempts <= MaxAttempts
    /\ challenge' = [challenge EXCEPT ![o].consumed = TRUE]
    /\ Post("reserve", o, "withdrawals")
    /\ \E risk \in BOOLEAN :
         IF ReviewRequired(o, risk)
         THEN /\ status' = [status EXCEPT ![o] = "review"]
              /\ reason' = [reason EXCEPT ![o] = "limit"]
         ELSE /\ status' = [status EXCEPT ![o] = "reserved"]
              /\ UNCHANGED reason
    /\ receipts' = receipts \cup {[user |-> Owner[o], key |-> k, order |-> o]}
    /\ Stop(c)
    /\ UNCHANGED <<providerId, proposals, providerVars>>

-----------------------------------------------------------------------------
(* The worker: submitWithdrawal. *)

(* Mutant: the queue leaves out the orders an administrator approved. *)
BeginSubmitUnreviewed(w, o) ==
    /\ status[o] = "reserved" /\ reason[o] = "none"
    /\ Start(w, "checking", o)
    /\ UNCHANGED <<status, reason, requestVars, providerId, proposals, ledgerVars, providerVars>>

BeginSubmit(w, o) ==
    /\ status[o] = "reserved"
    /\ Start(w, "checking", o)
    /\ UNCHANGED <<status, reason, requestVars, providerId, proposals, ledgerVars, providerVars>>

(* The catch takes any error of the read, so a failing database does it too. *)
HoldForReview(w, why) ==
    /\ At(w, "checking")
    /\ Cas(Job(w), {"reserved"}, "review")
    /\ reason' = [reason EXCEPT ![Job(w)] = IF status[Job(w)] = "reserved" THEN why ELSE @]
    /\ Stop(w)
    /\ UNCHANGED <<requestVars, providerId, proposals, ledgerVars, providerVars>>

(* Mutant: the status read before the fee was quoted is taken for granted. *)
ClaimOrderStale(w) ==
    /\ At(w, "checking")
    /\ status' = [status EXCEPT ![Job(w)] = "submitting"] /\ Go(w, "claimed")
    /\ UNCHANGED <<reason, requestVars, providerId, proposals, ledgerVars, providerVars>>

ClaimOrder(w) ==
    /\ At(w, "checking")
    /\ IF status[Job(w)] = "reserved" /\ ReserveCovered(Job(w))
       THEN Cas(Job(w), {"reserved"}, "submitting") /\ Go(w, "claimed")
       ELSE UNCHANGED status /\ Stop(w)
    /\ UNCHANGED <<reason, requestVars, providerId, proposals, ledgerVars, providerVars>>

CreatePayout(w) ==
    /\ At(w, "claimed")
    /\ verdict' = [verdict EXCEPT ![Job(w)] = "inflight"]
    /\ Go(w, "calling")
    /\ UNCHANGED <<status, reason, requestVars, providerId, proposals, ledgerVars, payouts, payout>>

(* The reply: payout ids, a structured refusal, or nothing usable in ten seconds. *)
ReceiveReply(w) ==
    /\ At(w, "calling")
    /\ \/ verdict[Job(w)] = "created" /\ Go(w, "accepted")
       \/ verdict[Job(w)] = "refused" /\ Go(w, "refused")
       \/ Go(w, "unresolved")
    /\ UNCHANGED <<status, reason, requestVars, providerId, proposals, ledgerVars, providerVars>>

PersistIds(w) ==
    /\ At(w, "accepted")
    /\ \/ /\ Cas(Job(w), {"submitting"}, "verification_pending")
          /\ providerId' = IF status[Job(w)] = "submitting"
                           THEN [providerId EXCEPT ![Job(w)] = Job(w)] ELSE providerId
          /\ Go(w, "authenticating")
       \/ UNCHANGED <<status, providerId>> /\ Go(w, "unresolved")    \* the update threw
    /\ UNCHANGED <<reason, requestVars, proposals, ledgerVars, providerVars>>

Authenticate(o) == payout' = [payout EXCEPT ![o] = IF @ = "waiting" THEN "processing" ELSE @]

VerifyPayout(w) ==
    /\ At(w, "authenticating")
    /\ \/ Authenticate(Job(w)) /\ (Go(w, "verified") \/ Go(w, "unresolved"))
       \/ UNCHANGED payout /\ (Go(w, "refused") \/ Go(w, "unresolved"))
    /\ UNCHANGED <<status, reason, requestVars, providerId, proposals, ledgerVars, verdict, payouts>>

MarkProcessing(w) ==
    /\ At(w, "verified")
    /\ Cas(Job(w), {"verification_pending"}, "processing")
    /\ Stop(w)
    /\ UNCHANGED <<reason, requestVars, providerId, proposals, ledgerVars, providerVars>>

(* Mutant: a refused verification counts as a refused payout. *)
RefundableAlways(o) == status[o] # "rejected"

Refundable(o) == status[o] = "submitting" /\ providerId[o] = None
RefundRefused(w) ==
    /\ At(w, "refused")
    /\ IF Refundable(Job(w))
       THEN /\ AuthorizationProven(Job(w))
            /\ Post("provider-reject", Job(w), "available")
            /\ Cas(Job(w), {"submitting"}, "rejected")
            /\ Stop(w)
       ELSE UNCHANGED <<ledgerVars, status>> /\ Go(w, "unresolved")
    /\ UNCHANGED <<reason, requestVars, providerId, proposals, providerVars>>

MarkUncertain(w) ==
    /\ At(w, "unresolved")
    /\ Cas(Job(w), {"submitting"}, "uncertain")
    /\ Stop(w)
    /\ UNCHANGED <<reason, requestVars, providerId, proposals, ledgerVars, providerVars>>

-----------------------------------------------------------------------------
(* The minute tick. *)

(* Mutant: only challenges without attempts left expire. *)
ExpireExhausted(o) ==
    /\ status[o] = "pending_verify" /\ challenge[o].lapsed
    /\ challenge[o].attempts = MaxAttempts
    /\ Cas(o, {"pending_verify"}, "expired")
    /\ UNCHANGED <<reason, requestVars, providerId, proposals, ledgerVars, proc, providerVars>>

ExpireVerification(o) ==
    /\ status[o] = "pending_verify" /\ challenge[o].lapsed
    /\ Cas(o, {"pending_verify"}, "expired")
    /\ UNCHANGED <<reason, requestVars, providerId, proposals, ledgerVars, proc, providerVars>>

(* Mutant: an interrupted submission is not looked for. *)
TimedOutUncertain(o) ==
    /\ status[o] = "uncertain" /\ providerId[o] = None
    /\ Cas(o, {"uncertain"}, "uncertain")
    /\ UNCHANGED <<reason, requestVars, providerId, proposals, ledgerVars, proc, providerVars>>

(* submittedAt is more than a minute old: how far the worker got is unknown. *)
SubmissionTimedOut(o) ==
    /\ status[o] = "submitting" /\ providerId[o] = None
    /\ Cas(o, {"submitting", "uncertain"}, "uncertain")
    /\ UNCHANGED <<reason, requestVars, providerId, proposals, ledgerVars, proc, providerVars>>

(* Mutant: the same address and amount are taken for the same payout. *)
AmountMatches(o, p) == Owner[p] = Owner[o] /\ Amount[p] = Amount[o]

IdentityMatches(o, p) == p = o
ResolveUncertain(r) ==
    /\ r \in proposals
    /\ proposals' = proposals \ {r}
    /\ IF status[r.order] = "uncertain" /\ providerId[r.order] = None
       THEN /\ payout[r.provider] # "none"
            /\ providerId' = IF IdentityMatches(r.order, r.provider)
                             THEN [providerId EXCEPT ![r.order] = r.provider] ELSE providerId
       ELSE UNCHANGED providerId
    /\ UNCHANGED <<status, reason, requestVars, ledgerVars, proc, providerVars>>

BeginReconcile(r, o) ==
    /\ At(r, "idle")
    /\ providerId[o] # None
    /\ AuthorizationProven(o)
    /\ proc' = [proc EXCEPT ![r] = [pc |-> "querying", order |-> o, note |-> status[o]]]
    /\ UNCHANGED <<status, reason, requestVars, providerId, proposals, ledgerVars, providerVars>>

(* Mutant: a payout on its way counts as delivered. *)
QueryPayoutEager(r) ==
    LET found == payout[providerId[Job(r)]] IN
    /\ At(r, "querying")
    /\ found \in Terminal \cup {"processing"}
    /\ proc' = [proc EXCEPT ![r].pc = "settling",
                            ![r].note = IF found = "rejected" THEN found ELSE "finished"]
    /\ UNCHANGED <<status, reason, requestVars, providerId, proposals, ledgerVars, providerVars>>

QueryPayout(r) ==
    LET found == payout[providerId[Job(r)]] IN
    /\ At(r, "querying")
    /\ \/ proc[r].note = "verification_pending" /\ found = "waiting" /\ Go(r, "reverifying")
       \/ found \in Terminal
          /\ proc' = [proc EXCEPT ![r].pc = "settling", ![r].note = found]
       \/ /\ found \in {"waiting", "processing"}
          /\ ~(proc[r].note = "verification_pending" /\ found = "waiting")
          /\ Stop(r)
    /\ UNCHANGED <<status, reason, requestVars, providerId, proposals, ledgerVars, providerVars>>

RepeatVerification(r) ==
    /\ At(r, "reverifying")
    /\ Authenticate(providerId[Job(r)])
    /\ Stop(r)
    /\ UNCHANGED <<status, reason, requestVars, providerId, proposals, ledgerVars, verdict, payouts>>

(* Mutant: an order whose id was bound later is not settled. *)
SettleableKnown == {"verification_pending", "processing"}

Settleable == {"verification_pending", "processing", "uncertain"}
SettlePayout(r) ==
    LET o    == Job(r)
        paid == proc[r].note = "finished" IN
    /\ At(r, "settling")
    /\ IF status[o] \in Settleable
       THEN /\ Post("settle", o, IF paid THEN "external" ELSE "available")
            /\ Cas(o, Settleable, IF paid THEN "confirmed" ELSE "rejected")
       ELSE UNCHANGED <<ledgerVars, status>>
    /\ Stop(r)
    /\ UNCHANGED <<reason, requestVars, providerId, proposals, providerVars>>

-----------------------------------------------------------------------------
(* Administration. *)

(* Mutant: the reason of the review is not looked at. *)
ApproveAnyReason(o) ==
    /\ status[o] = "review" /\ AuthorizationProven(o)
    /\ status' = [status EXCEPT ![o] = "reserved"]
    /\ UNCHANGED <<reason, requestVars, providerId, proposals, ledgerVars, proc, providerVars>>

Approve(o) ==
    /\ status[o] = "review" /\ AuthorizationProven(o)
    /\ reason[o] # "fee_changed"
    /\ status' = [status EXCEPT ![o] = "reserved"]
    /\ UNCHANGED <<reason, requestVars, providerId, proposals, ledgerVars, proc, providerVars>>

(* Mutant: the order is closed and its reserve forgotten. *)
RejectUnposted(o) ==
    /\ status[o] = "review" /\ AuthorizationProven(o)
    /\ status' = [status EXCEPT ![o] = "rejected"]
    /\ UNCHANGED <<reason, requestVars, providerId, proposals, ledgerVars, proc, providerVars>>

Reject(o) ==
    /\ status[o] = "review" /\ AuthorizationProven(o)
    /\ Post("reject", o, "available")
    /\ status' = [status EXCEPT ![o] = "rejected"]
    /\ UNCHANGED <<reason, requestVars, providerId, proposals, proc, providerVars>>

ProposeProviderId(o, p) ==
    /\ status[o] = "uncertain" /\ providerId[o] = None
    /\ proposals' = proposals \cup {[order |-> o, provider |-> p]}
    /\ UNCHANGED <<status, reason, requestVars, providerId, ledgerVars, proc, providerVars>>

-----------------------------------------------------------------------------
(* The environment: time, failures and the provider. *)

Abandon(p) ==
    /\ ~At(p, "idle")
    /\ Stop(p)
    /\ UNCHANGED <<status, reason, requestVars, providerId, proposals, ledgerVars, providerVars>>

ChallengeLapses(o) ==
    /\ HasChallenge(o) /\ ~challenge[o].lapsed
    /\ challenge' = [challenge EXCEPT ![o].lapsed = TRUE]
    /\ UNCHANGED <<status, reason, receipts, providerId, proposals, ledgerVars, proc, providerVars>>

ProviderAnswers(o) ==
    /\ verdict[o] = "inflight"
    /\ \/ /\ verdict' = [verdict EXCEPT ![o] = "created"]
          /\ payouts' = [payouts EXCEPT ![o] = @ + 1]
          /\ payout' = [payout EXCEPT ![o] = "waiting"]
       \/ verdict' = [verdict EXCEPT ![o] = "refused"] /\ UNCHANGED <<payouts, payout>>
    /\ UNCHANGED <<status, reason, requestVars, providerId, proposals, ledgerVars, proc>>

(* Only an authenticated payout is sent; an unauthenticated one is dropped. *)
ProviderDecides(o) ==
    /\ \/ payout[o] = "processing" /\ \E t \in Terminal : payout' = [payout EXCEPT ![o] = t]
       \/ payout[o] = "waiting" /\ payout' = [payout EXCEPT ![o] = "rejected"]
    /\ UNCHANGED <<status, reason, requestVars, providerId, proposals, ledgerVars, proc, verdict, payouts>>

-----------------------------------------------------------------------------
ClientStep(c) ==
    \/ \E o \in Orders : RequestWithdrawal(c, o)
    \/ InsertOrder(c) \/ InstallChallenge(c) \/ SendCode(c)
    \/ \E o \in Orders, k \in Keys : ClaimAttempt(c, o, k)
    \/ VerifyWithdrawal(c)
WorkerStep(w) ==
    \/ \E o \in Orders : BeginSubmit(w, o)
    \/ \E why \in {"authorization_not_proven", "fee_changed"} : HoldForReview(w, why)
    \/ ClaimOrder(w) \/ CreatePayout(w) \/ ReceiveReply(w) \/ PersistIds(w)
    \/ VerifyPayout(w) \/ MarkProcessing(w) \/ RefundRefused(w) \/ MarkUncertain(w)
ReconcilerStep(r) ==
    \/ \E o \in Orders : BeginReconcile(r, o)
    \/ QueryPayout(r) \/ RepeatVerification(r) \/ SettlePayout(r)
TickStep ==
    \/ \E o \in Orders : ExpireVerification(o) \/ SubmissionTimedOut(o)
    \/ \E r \in proposals : ResolveUncertain(r)
AdminStep ==
    \/ \E o \in Orders : Approve(o) \/ Reject(o)
    \/ \E o, p \in Orders : ProposeProviderId(o, p)
EnvironmentStep ==
    \/ \E p \in Procs : Abandon(p)
    \/ \E o \in Orders : ChallengeLapses(o) \/ ProviderAnswers(o) \/ ProviderDecides(o)

Next ==
    \/ \E c \in Clients : ClientStep(c)
    \/ \E w \in Workers : WorkerStep(w)
    \/ \E r \in Reconcilers : ReconcilerStep(r)
    \/ TickStep
    \/ AdminStep
    \/ EnvironmentStep

Spec == Init /\ [][Next]_vars

-----------------------------------------------------------------------------
(* Fairness.  The timers run for ever, a call that keeps being tried some  *)
(* day returns (SF: outages end), a running handler takes its next step.   *)
(* Nothing is assumed of players, of administrators or of the provider.    *)

WorkerFairness(w) ==
    /\ \A o \in Orders : SF_vars(BeginSubmit(w, o))
    /\ SF_vars(ClaimOrder(w))
ReconcilerFairness(r) ==
    /\ \A o \in Orders : SF_vars(BeginReconcile(r, o))
    /\ SF_vars(QueryPayout(r)) /\ SF_vars(RepeatVerification(r)) /\ SF_vars(SettlePayout(r))
TickFairness ==
    /\ \A o \in Orders : WF_vars(ExpireVerification(o)) /\ WF_vars(SubmissionTimedOut(o))
Fairness ==
    /\ \A w \in Workers : WorkerFairness(w)
    /\ \A r \in Reconcilers : ReconcilerFairness(r)
    /\ TickFairness
FairSpec == Spec /\ Fairness

-----------------------------------------------------------------------------
(* Properties. *)

Notes == {"none"} \cup Keys \cup Statuses \cup Terminal
Places == {"idle", "inserting", "installing", "mailing", "verifying", "checking",
           "claimed", "calling", "accepted", "authenticating", "verified", "refused", "unresolved",
           "querying", "reverifying", "settling"}

(* Every variable holds a value of its kind; balances are never negative. *)
TypeOK ==
    /\ status \in [Orders -> Statuses]
    /\ reason \in [Orders -> Reasons]
    /\ challenge \in [Orders -> [attempts : 0..MaxAttempts, consumed : BOOLEAN, lapsed : BOOLEAN]]
    /\ receipts \subseteq [user : Users, key : Keys, order : Orders]
    /\ providerId \in [Orders -> Orders \cup {None}]
    /\ proposals \subseteq [order : Orders, provider : Orders]
    /\ journal \subseteq Journals
    /\ account \in [Accounts -> Int]
    /\ \A a \in Accounts : account[a] >= 0
    /\ proc \in [Procs -> [pc : Places, order : Orders \cup {None}, note : Notes]]
    /\ \A p \in Procs : proc[p].pc # "idle" => proc[p].order \in Orders
    /\ \A p \in Procs : proc[p].pc = "verifying" => proc[p].note \in Keys
    /\ verdict \in [Orders -> {"none", "inflight", "created", "refused"}]
    /\ payouts \in [Orders -> Nat]
    /\ payout \in [Orders -> PayoutStatuses]

Releases(j, o) == j.order = o /\ j.op # "reserve"
Returned(o) == \E j \in journal : Releases(j, o) /\ j.to = "available"
Paid(o)     == \E j \in journal : Releases(j, o) /\ j.to = "external"

(* The payout of an order is created at the provider at most once, whatever
   workers run at the same time, die, or lose the provider's reply. *)
PayoutCreatedOnce == \A o \in Orders : payouts[o] <= 1

(* A reserve is taken once and leaves the reserve account at most once:
   reject, provider-reject and settle are different operation ids, so the
   ledger's idempotency alone would let two of them through. *)
ReleasedOnce ==
    \A o \in Orders :
        /\ \A j1, j2 \in journal : Releases(j1, o) /\ Releases(j2, o) => j1 = j2
        /\ Returned(o) \/ Paid(o) => Posted("reserve", o)

(* Money goes back to the player only when no payout of the order is alive
   or delivered, and none can still be created by a request on its way. *)
ReturnedIsNotPaid ==
    \A o \in Orders :
        Returned(o) => /\ payout[o] \in {"none", "rejected"}
                       /\ verdict[o] # "inflight"

(* The books call an order paid only when the provider delivered its own payout. *)
PaidIsDelivered == \A o \in Orders : Paid(o) => payout[o] = "finished"

(* The reserve account of a user holds exactly the orders in a held status,
   and the provider's account exactly the confirmed ones. *)
BooksMatchOrders ==
    /\ \A u \in Users :
         account[Reserve(u)] = SumFunctionOnSet(Amount, {o \in Orders : Owner[o] = u /\ status[o] \in Held})
    /\ account[External] = SumFunctionOnSet(Amount, {o \in Orders : status[o] = "confirmed"})

(* What was let through without a review stays under both limits, however
   many verifications run at the same time. *)
Unreviewed(u) == {o \in Orders : Owner[o] = u /\ reason[o] = "none"
                                 /\ status[o] \in Held \cup {"confirmed"}}
UnreviewedWithinLimits ==
    \A u \in Users :
        /\ SumFunctionOnSet(Amount, Unreviewed(u)) <= DailyLimit
        /\ \A o \in Unreviewed(u) : Amount[o] <= SingleLimit

(* A create-payout call is only ever made for an order whose code was
   verified and whose reserve was taken. *)
OnlyAuthorizedIsSent ==
    \A o \in Orders : verdict[o] # "none" => AuthorizationProven(o)

(* An order whose fee changed after the player's quote is never sent: only an
   administrator's rejection, which returns the reserve, closes it. *)
ChangedFeeIsNeverSent ==
    \A o \in Orders : reason[o] = "fee_changed" =>
        /\ status[o] \in {"review", "rejected"}
        /\ verdict[o] = "none"

Closed == {"confirmed", "rejected", "expired", "verification_delivery_failed"}
ClosedUnchanged ==
    \A o \in Orders : status[o] \in Closed =>
        status'[o] = status[o] /\ providerId'[o] = providerId[o]
(* Closed orders stay closed and keep the provider id they were closed with. *)
ClosedStaysClosed == [][ClosedUnchanged]_vars

(* An order with a known payout is closed once the provider decided on it. *)
DecidedPayoutSettles ==
    \A o \in Orders :
        (providerId[o] = o /\ payout[o] \in Terminal) ~> status[o] \in {"confirmed", "rejected"}

(* No order rests where the worker has to move it: a reserved one is sent, held
   for review or closed; a submission whose worker died or lost its reply becomes
   uncertain; a code that was not entered in time closes its order. *)
NoOrderForgotten ==
    \A o \in Orders :
        /\ status[o] = "reserved" ~> status[o] # "reserved"
        /\ status[o] = "submitting" ~> status[o] # "submitting"
        /\ (status[o] = "pending_verify" /\ challenge[o].lapsed) ~> status[o] # "pending_verify"

(* The runbook: with a known id the worker repeats the verification of the
   same batch, so a payout still waiting for it does not wait for ever. *)
KnownPayoutIsVerified ==
    \A o \in Orders :
        (providerId[o] = o /\ payout[o] = "waiting") ~> payout[o] # "waiting"

-----------------------------------------------------------------------------
(* Refinement: each order runs through the contract of WithdrawalContract. *)
phase == [o \in Orders |->
    IF Returned(o) THEN "returned"
    ELSE IF Paid(o) THEN "paid"
    ELSE IF payout[o] = "finished" THEN "delivered"
    ELSE IF Posted("reserve", o) THEN "held" ELSE "open"]

Contract == INSTANCE WithdrawalContract WITH Orders <- Orders, phase <- phase
ImplementsContract == Contract!Spec

=============================================================================
