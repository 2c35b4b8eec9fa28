------------------------------ MODULE ClaimLedger ------------------------------
(***************************************************************************)
(* The workflow ledger of the NEAR product over the escrow it relays to: one  *)
(* campaign whose prize is escrowed, the claims that solvers hand in          *)
(* (src/server/v2/services.ts), the jobs these leave behind, and the worker   *)
(* that carries the jobs out (src/server/v2/chain/worker.ts).                 *)
(*                                                                         *)
(* A handler is a row of steps: each database transaction and each chain      *)
(* transaction is a step of its own, and other workers, the services, solvers *)
(* who relay their permit themselves and anybody who expires the campaign on  *)
(* chain act in between.  At every step a handler may throw or its worker may *)
(* die.  A read is one step with the write that follows it where nothing that *)
(* happens between the two can change what the write does; what a handler has *)
(* loaded before (the campaign row with its version, the status of its claim, *)
(* the clock of its batch) it keeps in its run and uses stale.                *)
(*                                                                         *)
(* A row's version is only compared with the version that was read, so a run  *)
(* keeps whether the campaign row is still the one it loaded (fresh).  The    *)
(* versions of a claim need no such mark: its statuses never recur.           *)
(*                                                                         *)
(* Left out: idempotency of quotes, events and evidence, formats, signatures  *)
(* (a submitted proof is a permit), and the registration of receivers.        *)
(***************************************************************************)
EXTENDS CrosswordCampaigns, JobQueue, FiniteSetsExt

CONSTANTS
    Id,                \* the campaign
    Claims,            \* claim ids
    OneClick,          \* the claims whose payout is routed through One Click
    Receiver,          \* claim -> receiver and payout digest that its permit names
    QuoteWindow,       \* QUOTE_WINDOW_MS
    MaxRefundAttempts  \* MAX_ON_CHAIN_REFUND_ATTEMPTS

ASSUME LedgerAssumption ==
    /\ Id \in CampaignIds
    /\ OneClick \subseteq Claims
    /\ Receiver \in [Claims -> Accounts]
    /\ \A c, d \in Claims : Receiver[c] = Receiver[d] => c = d
    /\ QuoteWindow \in Nat /\ MaxRefundAttempts \in Nat \ {0}

Reasons == {"CREATOR_CANCEL", "EXPIRED"}

ClaimKey(cl) == <<"claim", cl>>
PayoutKey(cl) == <<"payout", cl>>
RefundKey(reason) == <<"refund", reason>>
LifecycleKey == <<"lifecycle", Id>>

ASSUME KeysAssumption ==
    Keys = {ClaimKey(cl) : cl \in Claims} \cup {PayoutKey(cl) : cl \in OneClick}
             \cup {RefundKey(reason) : reason \in Reasons} \cup {LifecycleKey}

VARIABLES
    cstatus,    \* v2_campaigns.status
    order,      \* v2_funding_orders.status
    claims,     \* v2_claims: claim -> row
    runs,       \* what each worker is processing
    provider    \* what One Click says of a claim's deposit

CampaignStatuses == {"SCHEDULED", "ACTIVE", "CLAIMING", "CLAIMED", "REFUNDING", "REFUNDED"}

ClaimStatuses == {"NONE", "AWAITING_PROOF", "SUBMITTED", "PAYING", "PAID", "RECOVERED", "FAILED"}

ClaimRow == [status : ClaimStatuses, nonce : Nat, deadline : Nat]

Stages == {"leased", "loaded", "submit", "verify", "consumed", "paid", "deposited", "reopen",
           "lost", "order", "expire", "hand over", "restart", "done", "again"}

\* A worker's run: the job, the clock of the batch, the stage, the campaign status
\* it has loaded, whether that row is unchanged, and the claim status it has loaded.
Run == [job : Keys, at : Nat, stage : Stages, seen : CampaignStatuses \cup {None},
        fresh : BOOLEAN, claim : ClaimStatuses]

ledger == <<cstatus, order, claims>>
ledgerVars == <<vars, jobs, ledger, runs, provider>>

chain == campaigns[Id]

\* The rows of the unique index v2_claims_winner.
WinnerStatuses == {"SUBMITTED", "PAYING", "PAID", "RECOVERED"}
Winners == {cl \in Claims : claims[cl].status \in WinnerStatuses}

PermitOf(cl) == [id |-> Id, receiver |-> Receiver[cl],
                 nonce |-> claims[cl].nonce, deadline |-> claims[cl].deadline]

\* The prize is escrowed, the ledger says so, and the lifecycle job is enqueued.
LedgerInit ==
    /\ now = 0
    /\ \E spec \in Specs, amount \in Prizes \ {0}, r \in References :
          /\ campaigns = [id \in CampaignIds |->
                IF id = Id
                THEN [spec |-> spec, amount |-> amount, rail |-> "direct_usdc", reference |-> r,
                      claimNonce |-> 0,
                      status |-> StatusOf(IF spec.opens > 0 THEN "Scheduled" ELSE "Active", 0, FALSE)]
                ELSE None]
          /\ used = {r} /\ totalReserved = amount /\ vault = amount
          /\ cstatus = IF spec.opens > 0 THEN "SCHEDULED" ELSE "ACTIVE"
    /\ authorizations = [r \in References |-> None]
    /\ authById = [id \in CampaignIds |-> None]
    /\ pending = [r \in References |-> None]
    /\ pendingIds = {}
    /\ permits = {} /\ queries = {} /\ payouts = {} /\ inbound = {} /\ disbursed = {}
    /\ order = "ALLOCATED"
    /\ claims = [cl \in Claims |-> [status |-> "NONE", nonce |-> 0, deadline |-> 0]]
    /\ jobs = [k \in Keys |-> Row(IF k = LifecycleKey THEN "PENDING" ELSE "NONE", 0)]
    /\ runs = [w \in Workers |-> None]
    /\ provider = [cl \in OneClick |-> "pending"]

-----------------------------------------------------------------------------
(* What get_campaign returns.                                               *)

\* status_view: a scheduled campaign is reported active once it is open.
ChainState ==
    IF chain.status.state = "Scheduled" /\ now >= chain.spec.opens
    THEN "Active" ELSE chain.status.state

\* A mutant for which any permit will do.
ClaimedByAny(cl) == ChainState = "Claimed"

\* claimedByPermit: the receiver and the digest are the claim's, and the nonce.
ClaimedByPermit(cl) ==
    /\ ChainState = "Claimed"
    /\ chain.status.seq = claims[cl].nonce
    /\ \E d \in disbursed : d.id = Id /\ d.kind = "claim" /\ d.to = Receiver[cl]

-----------------------------------------------------------------------------
(* Bookkeeping of runs.                                                     *)

\* The other runs after a step: their campaign row is stale once it has changed.
Others(w) ==
    [v \in Workers |-> IF v = w \/ runs[v] = None THEN runs[v]
                       ELSE [runs[v] EXCEPT !.fresh = @ /\ cstatus' = cstatus]]

Goto(w, stage) == runs' = [Others(w) EXCEPT ![w].stage = stage]

\* What a run holds before it has loaded anything.
Fresh(k, at, stage) ==
    [job |-> k, at |-> at, stage |-> stage, seen |-> None, fresh |-> FALSE, claim |-> "NONE"]

\* The handler goes on without anything it has loaded but the clock of its batch,
\* or without anything at all.
GotoKeeping(w, stage, at) == runs' = [Others(w) EXCEPT ![w] = Fresh(@.job, at, stage)]
GotoForgetting(w, stage) == GotoKeeping(w, stage, 0)

\* The handler goes on with the row it has just loaded or written.
GotoWith(w, stage, status) ==
    runs' = [Others(w) EXCEPT ![w].stage = stage, ![w].seen = status, ![w].fresh = TRUE]

At(w, stages) == runs[w] # None /\ runs[w].stage \in stages

Job(w, kind) == runs[w].job[1] = kind

ClaimOf(w) == runs[w].job[2]

\* A mutant that compares neither the status nor the version.
OverwriteCampaign(w, from, to) == cstatus' = to

\* transitionCampaign with the status and the version the run has loaded.
TransitionCampaign(w, from, to) ==
    /\ runs[w].fresh /\ cstatus \in from
    /\ cstatus' = to

Aligned == {"SCHEDULED", "ACTIVE", "CLAIMING", "REFUNDING"}

\* alignCampaignStatus: nothing to do if the loaded status is the target already,
\* however stale; a lost race is none if the campaign got there by itself.
AlignCampaignStatus(w, target) ==
    \/ runs[w].seen = target /\ UNCHANGED cstatus
    \/ runs[w].seen # target /\ TransitionCampaign(w, Aligned, target)
    \/ runs[w].seen # target /\ ~runs[w].fresh /\ cstatus = target /\ UNCHANGED cstatus

\* The write of a claim's status fails where it would put a second claim of the campaign
\* into the unique index v2_claims_winner.
SetClaim(cl, status) ==
    /\ status \in WinnerStatuses => Winners \subseteq {cl}
    /\ claims' = [claims EXCEPT ![cl].status = status]

-----------------------------------------------------------------------------
(* Services: quotes, submissions, refund requests.                          *)

\* createClaimQuote.  The solver knows the solution key and signs its permit at once;
\* whether it hands it in, relays it itself, or both, is open.
CreateClaimQuote(cl, deadline) ==
    LET latest == Min({chain.spec.expires, now + QuoteWindow})
    IN  /\ claims[cl].status = "NONE"
        /\ cstatus = "ACTIVE" /\ now < chain.spec.expires
        /\ IF cl \in OneClick THEN deadline \in now .. latest ELSE deadline = latest
        /\ claims' = [claims EXCEPT ![cl] = [status |-> "AWAITING_PROOF",
                         nonce |-> chain.claimNonce, deadline |-> deadline]]
        /\ SignPermit(Id, Receiver[cl], chain.claimNonce, deadline)
        /\ UNCHANGED <<jobs, cstatus, order, runs, provider>>

\* submitClaim up to submitClaimAtomically: the claim and the campaign change together,
\* if neither has changed since it was read.
SubmitClaim(cl) ==
    /\ claims[cl].status = "AWAITING_PROOF"
    /\ now < claims[cl].deadline
    /\ cstatus = "ACTIVE"
    /\ cstatus' = "CLAIMING"
    /\ SetClaim(cl, "SUBMITTED")
    /\ runs' = Others(NoWorker)
    /\ UNCHANGED <<vars, jobs, order, provider>>

\* requestCampaignRefund up to transitionCampaign.
RequestCampaignRefund(reason) ==
    /\ order = "ALLOCATED"
    /\ \/ reason = "CREATOR_CANCEL" /\ cstatus = "SCHEDULED" /\ now < chain.spec.opens
       \/ reason = "EXPIRED" /\ cstatus \in {"SCHEDULED", "ACTIVE"} /\ now >= chain.spec.expires
    /\ cstatus' = "REFUNDING"
    /\ runs' = Others(NoWorker)
    /\ UNCHANGED <<vars, jobs, order, claims, provider>>

\* The request goes on to enqueue its job, or has died and is retried: it finds its work
\* under way and enqueues the job again, which revives a dead one.
EnqueueRequested(k) ==
    /\ \/ k[1] = "claim" /\ claims[k[2]].status \in {"SUBMITTED", "PAYING"}
       \/ /\ k[1] = "refund" /\ cstatus = "REFUNDING" /\ order = "ALLOCATED"
          /\ k[2] = "EXPIRED" => now >= chain.spec.expires
    /\ jobs' = Enqueued(k, TRUE)
    /\ UNCHANGED <<vars, ledger, runs, provider>>

-----------------------------------------------------------------------------
(* runChainWorkerBatch.                                                     *)

LeaseJob(w, k) ==
    /\ runs[w] = None
    /\ Leasable(k)
    /\ jobs' = Leased(k, w)
    /\ runs' = [runs EXCEPT ![w] = Fresh(k, now, "leased")]
    /\ UNCHANGED <<vars, ledger, provider>>

\* The handler reads its campaign, and its claim if it has one.
Load(w) ==
    /\ At(w, {"leased"})
    /\ runs' = [runs EXCEPT ![w].stage = "loaded", ![w].seen = cstatus, ![w].fresh = TRUE,
                   ![w].claim = IF runs[w].job[1] \in {"claim", "payout"}
                                THEN claims[ClaimOf(w)].status ELSE "NONE"]
    /\ UNCHANGED <<vars, jobs, ledger, provider>>

Finish(w) ==
    /\ At(w, {"done", "again"})
    /\ jobs' = IF runs[w].stage = "done" THEN Completed(runs[w].job, w)
               ELSE Rescheduled(runs[w].job, w)
    /\ runs' = [runs EXCEPT ![w] = None]
    /\ UNCHANGED <<vars, ledger, provider>>

\* The handler throws: where no other step of it is possible, or because the
\* database or the node fails.
Throw(w) ==
    /\ runs[w] # None
    /\ jobs' = Failed(runs[w].job, w)
    /\ runs' = [runs EXCEPT ![w] = None]
    /\ UNCHANGED <<vars, ledger, provider>>

\* The process dies; its job is leased again once the lease has run out.
Die(w) ==
    /\ runs[w] # None
    /\ runs' = [runs EXCEPT ![w] = None]
    /\ UNCHANGED <<vars, jobs, ledger, provider>>

-----------------------------------------------------------------------------
(* processClaim.                                                            *)

\* transitionClaimSuccess up to the claim: a direct payout is paid; a routed one has
\* only reached the deposit address.
TransitionClaimSuccess(w) ==
    LET cl == ClaimOf(w)
        status == claims[cl].status
    IN  /\ At(w, {"loaded", "verify"}) /\ Job(w, "claim")
        /\ ClaimedByPermit(cl)
        /\ UNCHANGED <<vars, jobs, cstatus, order, provider>>
        /\ IF cl \in OneClick
           THEN \/ /\ status \in {"PAID", "RECOVERED"}
                   /\ UNCHANGED claims /\ GotoForgetting(w, "done")
                \/ /\ status \in {"SUBMITTED", "PAYING", "FAILED"}
                   /\ SetClaim(cl, IF status = "SUBMITTED" THEN "PAYING" ELSE status)
                   /\ GotoForgetting(w, "deposited")
           ELSE /\ status \in {"SUBMITTED", "PAYING", "PAID"}
                /\ SetClaim(cl, "PAID")
                /\ GotoForgetting(w, "paid")

\* transitionClaimSuccess, the campaign.
CloseClaimed(w) ==
    /\ At(w, {"paid"})
    /\ cstatus \in {"CLAIMING", "CLAIMED"}
    /\ cstatus' = "CLAIMED"
    /\ UNCHANGED <<vars, jobs, order, claims, provider>>
    /\ GotoForgetting(w, "done")

\* A mutant that enqueues nothing.
ForgetPayout(w) ==
    /\ At(w, {"deposited"})
    /\ UNCHANGED <<vars, jobs, ledger, provider>>
    /\ GotoForgetting(w, "done")

\* enqueueOneClickPayoutReconciliation
EnqueuePayout(w) ==
    /\ At(w, {"deposited"})
    /\ jobs' = Enqueued(PayoutKey(ClaimOf(w)), FALSE)
    /\ UNCHANGED <<vars, ledger, provider>>
    /\ GotoForgetting(w, "done")

\* transitionConsumedClaimFailure up to the claim.
FailClaim(w, stage) ==
    /\ claims[ClaimOf(w)].status \in {"SUBMITTED", "PAYING", "FAILED"}
    /\ SetClaim(ClaimOf(w), "FAILED")
    /\ UNCHANGED <<vars, jobs, cstatus, order, provider>>
    /\ GotoWith(w, stage, cstatus)

\* Another permit won on chain.
LoseRace(w) ==
    /\ At(w, {"loaded"}) /\ Job(w, "claim")
    /\ ChainState = "Claimed" /\ ~ClaimedByPermit(ClaimOf(w))
    /\ FailClaim(w, "lost")

\* The contract's payout is not under way; a mutant that does not look.
IdleOrClaiming == ChainState \in {"Active", "Claiming"}
Idle == ChainState = "Active"

\* The permit can no longer be paid: its nonce is spent, or its deadline had passed when
\* the batch began.  The ledger is written in the next step.
FindConsumed(w) ==
    LET cl == ClaimOf(w)
    IN  /\ At(w, {"loaded", "verify"}) /\ Job(w, "claim")
        /\ Idle
        /\ \/ chain.claimNonce > claims[cl].nonce
           \/ /\ At(w, {"loaded"}) /\ chain.claimNonce = claims[cl].nonce
              /\ runs[w].at > claims[cl].deadline
        /\ UNCHANGED <<vars, jobs, ledger, provider>>
        /\ GotoForgetting(w, "consumed")

RecoverConsumed(w) ==
    /\ At(w, {"consumed"})
    /\ FailClaim(w, "reopen")

\* transitionConsumedClaimFailure, the campaign.
ReleaseCampaign(w) ==
    /\ At(w, {"lost", "reopen"})
    /\ IF runs[w].seen = "CLAIMING"
       THEN TransitionCampaign(w, {"CLAIMING"},
                               IF runs[w].stage = "lost" THEN "CLAIMED" ELSE "ACTIVE")
       ELSE UNCHANGED cstatus
    /\ UNCHANGED <<vars, jobs, order, claims, provider>>
    /\ GotoForgetting(w, "done")

\* The permit is good: the claim is marked before it is sent.
StartPaying(w) ==
    LET cl == ClaimOf(w)
    IN  /\ At(w, {"loaded"}) /\ Job(w, "claim")
        /\ ChainState = "Active" /\ chain.claimNonce = claims[cl].nonce
        /\ runs[w].at <= claims[cl].deadline
        /\ \/ runs[w].claim = "PAYING" /\ UNCHANGED claims
           \/ /\ runs[w].claim = "SUBMITTED" /\ claims[cl].status = "SUBMITTED"
              /\ SetClaim(cl, "PAYING")
        /\ UNCHANGED <<vars, jobs, cstatus, order, provider>>
        /\ GotoForgetting(w, "submit")

\* submitContractClaim; a call that the contract refuses throws.
SubmitContractClaim(w) ==
    /\ At(w, {"submit"})
    /\ Claim(PermitOf(ClaimOf(w)))
    /\ UNCHANGED <<jobs, ledger, provider>>
    /\ Goto(w, "verify")

-----------------------------------------------------------------------------
(* processOneClickPayoutReconciliation.                                     *)

\* A mutant that leaves the campaign to others.
FinalizeClaimOnly(cl, target) ==
    /\ claims[cl].status \in {"PAYING", "FAILED", target}
    /\ SetClaim(cl, target)
    /\ UNCHANGED cstatus

\* finalizeOneClickPayoutAtomically: claim and campaign in one transaction.
FinalizeOneClickPayout(cl, target) ==
    /\ claims[cl].status \in {"PAYING", "FAILED", target}
    /\ cstatus \in {"CLAIMING", "CLAIMED"}
    /\ SetClaim(cl, target)
    /\ cstatus' = "CLAIMED"

\* The provider's terminal answer, or the status the claim already has, is final.
SettleOneClickPayout(w) ==
    LET cl == ClaimOf(w)
        terminal == runs[w].claim \in {"PAID", "RECOVERED"}
    IN  /\ At(w, {"loaded"}) /\ Job(w, "payout")
        /\ \/ terminal /\ FinalizeOneClickPayout(cl, runs[w].claim)
           \/ /\ runs[w].claim \in {"PAYING", "FAILED"}
              /\ \/ provider[cl] = "settled" /\ FinalizeOneClickPayout(cl, "PAID")
                 \/ provider[cl] = "refunded" /\ FinalizeOneClickPayout(cl, "RECOVERED")
        /\ UNCHANGED <<vars, jobs, order, provider>>
        /\ GotoForgetting(w, "done")

\* The provider has no terminal answer yet: a failed route may still be refunded.
ObserveOneClickPayout(w) ==
    LET cl == ClaimOf(w)
    IN  /\ At(w, {"loaded"}) /\ Job(w, "payout")
        /\ runs[w].claim \in {"PAYING", "FAILED"}
        /\ \/ provider[cl] = "pending" /\ UNCHANGED claims
           \/ /\ provider[cl] = "failed" /\ claims[cl].status \in {"PAYING", "FAILED"}
              /\ SetClaim(cl, "FAILED")
        /\ UNCHANGED <<vars, jobs, cstatus, order, provider>>
        /\ GotoForgetting(w, "again")

-----------------------------------------------------------------------------
(* finalizeRefundLedger, for the lifecycle and the refund job.              *)

\* The contract reports the refund; a mutant that is content with its start.
RefundStarted == ChainState \in {"Refunding", "Refunded"}
Refunded == ChainState = "Refunded"

FinalizeRefund(w) ==
    /\ \/ At(w, {"loaded"}) /\ (Job(w, "lifecycle") \/ Job(w, "refund"))
       \/ At(w, {"verify"}) /\ Job(w, "refund")
    /\ Refunded
    /\ cstatus \in {"SCHEDULED", "ACTIVE", "REFUNDING", "REFUNDED"}
    /\ cstatus' = "REFUNDED"
    /\ UNCHANGED <<vars, jobs, order, claims, provider>>
    /\ GotoForgetting(w, "order")

CloseOrder(w) ==
    /\ At(w, {"order"})
    /\ order' = "REFUNDED"
    /\ UNCHANGED <<vars, jobs, cstatus, claims, provider>>
    /\ GotoForgetting(w, "done")

-----------------------------------------------------------------------------
(* processCampaignLifecycle.                                                *)

InLifecycle(w) == At(w, {"loaded"}) /\ Job(w, "lifecycle")

Refunding(w) == runs[w].seen = "REFUNDING" \/ ChainState = "Refunding"

\* A claimed campaign whose claim the ledger still carries waits for that claim.
FollowClaimed(w) ==
    /\ InLifecycle(w) /\ ChainState = "Claimed"
    /\ UNCHANGED <<vars, jobs, order, claims, provider>>
    /\ \/ runs[w].seen = "CLAIMING" /\ UNCHANGED cstatus /\ GotoForgetting(w, "again")
       \/ /\ runs[w].seen # "CLAIMING" /\ AlignCampaignStatus(w, "CLAIMED")
          /\ GotoForgetting(w, "done")

\* A refund under way is handed over to its own job.
FollowRefunding(w) ==
    /\ InLifecycle(w) /\ ChainState \notin {"Claimed", "Refunded"}
    /\ Refunding(w)
    /\ AlignCampaignStatus(w, "REFUNDING")
    /\ UNCHANGED <<vars, jobs, order, claims, provider>>
    /\ GotoKeeping(w, "hand over", runs[w].at)

\* The ledger follows the chain until the campaign's expiry.
FollowOpen(w) ==
    /\ InLifecycle(w) /\ ~Refunding(w)
    /\ \/ /\ ChainState = "Claiming" /\ AlignCampaignStatus(w, "CLAIMING")
          /\ GotoForgetting(w, "again")
       \/ /\ ChainState = "Scheduled" /\ AlignCampaignStatus(w, "SCHEDULED")
          /\ GotoForgetting(w, "again")
       \/ /\ ChainState = "Active" /\ AlignCampaignStatus(w, "ACTIVE")
          /\ IF runs[w].at < chain.spec.expires THEN GotoForgetting(w, "again")
             ELSE IF runs[w].seen = "ACTIVE" THEN Goto(w, "expire")
             ELSE GotoWith(w, "expire", "ACTIVE")
    /\ UNCHANGED <<vars, jobs, order, claims, provider>>

FollowExpired(w) ==
    /\ At(w, {"expire"})
    /\ AlignCampaignStatus(w, "REFUNDING")
    /\ UNCHANGED <<vars, jobs, order, claims, provider>>
    /\ GotoKeeping(w, "hand over", runs[w].at)

\* enqueueCampaignRefund
EnqueueRefund(w) ==
    /\ At(w, {"hand over"})
    /\ jobs' = Enqueued(RefundKey(IF runs[w].at >= chain.spec.expires
                                  THEN "EXPIRED" ELSE "CREATOR_CANCEL"), FALSE)
    /\ UNCHANGED <<vars, ledger, provider>>
    /\ GotoForgetting(w, "done")

-----------------------------------------------------------------------------
(* processCampaignRefund.                                                   *)

InRefund(w) == At(w, {"loaded"}) /\ Job(w, "refund")

Reason(w) == runs[w].job[2]

\* The refund transaction that the state of the campaign calls for.
SubmitRefund(w) ==
    /\ InRefund(w)
    /\ \/ /\ ChainState = "Refunding"
          /\ chain.status.seq < MaxRefundAttempts - 1
          /\ RetryRefund(Id)
       \/ /\ ChainState \in {"Scheduled", "Active"}
          /\ Reason(w) = "CREATOR_CANCEL" /\ runs[w].at < chain.spec.opens
          /\ CancelBeforeOpen(Operator, Id)
       \/ /\ ChainState \in {"Scheduled", "Active"}
          /\ runs[w].at >= chain.spec.expires
          /\ ExpireAndRefund(Id)
    /\ UNCHANGED <<jobs, ledger, provider>>
    /\ Goto(w, "verify")

\* A claim or a refund is under way on chain, or it is too early.
AwaitRefund(w) ==
    /\ InRefund(w)
    /\ \/ ChainState = "Claiming"
       \/ ChainState = "Refunding" /\ chain.status.inFlight
       \/ /\ ChainState \in {"Scheduled", "Active"}
          /\ Reason(w) = "EXPIRED" /\ runs[w].at < chain.spec.expires
    /\ UNCHANGED <<vars, jobs, ledger, provider>>
    /\ GotoForgetting(w, "again")

ConcedeRefund(w) ==
    /\ InRefund(w) /\ ChainState = "Claimed"
    /\ AlignCampaignStatus(w, "CLAIMED")
    /\ UNCHANGED <<vars, jobs, order, claims, provider>>
    /\ GotoForgetting(w, "done")

\* recoverMissedCreatorCancellation: the campaign had opened when the job ran.
MissCancellation(w) ==
    /\ InRefund(w) /\ ChainState \in {"Scheduled", "Active"}
    /\ Reason(w) = "CREATOR_CANCEL"
    /\ runs[w].at >= chain.spec.opens /\ runs[w].at < chain.spec.expires
    /\ AlignCampaignStatus(w, "ACTIVE")
    /\ UNCHANGED <<vars, jobs, order, claims, provider>>
    /\ GotoForgetting(w, "restart")

\* enqueueCampaignLifecycle, which does not revive.
RestartLifecycle(w) ==
    /\ At(w, {"restart"})
    /\ jobs' = Enqueued(LifecycleKey, FALSE)
    /\ UNCHANGED <<vars, ledger, provider>>
    /\ GotoForgetting(w, "done")

VerifyRefunding(w) ==
    /\ At(w, {"verify"}) /\ Job(w, "refund")
    /\ ChainState = "Refunding"
    /\ AlignCampaignStatus(w, "REFUNDING")
    /\ UNCHANGED <<vars, jobs, order, claims, provider>>
    /\ GotoForgetting(w, "again")

-----------------------------------------------------------------------------
(* The world: the chain, its users, the provider.                           *)

\* Solvers relay their permits, the creator cancels and anyone expires or retries,
\* all without the backend; promises are answered.
ChainMoves ==
    /\ \/ Tick
       \/ \E p \in permits : Claim(p)
       \/ CancelBeforeOpen(chain.spec.creator, Id)
       \/ ExpireAndRefund(Id) \/ RetryRefund(Id)
       \/ \E m \in payouts : \/ FtTransferOk(m) \/ FtTransferFail(m)
                             \/ OnClaimTransfer(m) \/ OnRefundTransfer(m)
    /\ UNCHANGED <<jobs, ledger, runs, provider>>

\* One Click routes the deposit: it settles, or refunds the winner's recovery account,
\* perhaps after it has reported a failure.
ProviderMoves(cl) ==
    /\ \E d \in disbursed : d.kind = "claim" /\ d.to = Receiver[cl]
    /\ \/ provider[cl] = "pending" /\ \E s \in {"settled", "refunded", "failed"} :
             provider' = [provider EXCEPT ![cl] = s]
       \/ provider[cl] = "failed" /\ provider' = [provider EXCEPT ![cl] = "refunded"]
    /\ UNCHANGED <<vars, jobs, ledger, runs>>

Services ==
    \/ \E cl \in Claims, deadline \in Deadlines : CreateClaimQuote(cl, deadline)
    \/ \E cl \in Claims : SubmitClaim(cl)
    \/ \E reason \in Reasons : RequestCampaignRefund(reason)
    \/ \E k \in Keys : EnqueueRequested(k)

ProcessClaim(w) ==
    \/ StartPaying(w) \/ SubmitContractClaim(w)
    \/ TransitionClaimSuccess(w) \/ CloseClaimed(w) \/ EnqueuePayout(w)
    \/ LoseRace(w) \/ FindConsumed(w) \/ RecoverConsumed(w) \/ ReleaseCampaign(w)

ProcessPayout(w) == SettleOneClickPayout(w) \/ ObserveOneClickPayout(w)

ProcessLifecycle(w) ==
    \/ FollowClaimed(w) \/ FollowRefunding(w) \/ FollowOpen(w) \/ FollowExpired(w)
    \/ EnqueueRefund(w)

ProcessRefund(w) ==
    \/ SubmitRefund(w) \/ AwaitRefund(w) \/ ConcedeRefund(w) \/ MissCancellation(w)
    \/ RestartLifecycle(w) \/ VerifyRefunding(w)

Worker(w) ==
    \/ \E k \in Keys : LeaseJob(w, k)
    \/ Load(w) \/ Finish(w) \/ Throw(w) \/ Die(w)
    \/ ProcessClaim(w) \/ ProcessPayout(w) \/ ProcessLifecycle(w) \/ ProcessRefund(w)
    \/ FinalizeRefund(w) \/ CloseOrder(w)

LedgerNext ==
    \/ ChainMoves \/ Services
    \/ \E cl \in OneClick : ProviderMoves(cl)
    \/ \E w \in Workers : Worker(w)

LedgerSpec == LedgerInit /\ [][LedgerNext]_ledgerVars

-----------------------------------------------------------------------------
(* Properties.                                                              *)

LedgerTypeOK ==
    /\ TypeOK
    /\ jobs \in [Keys -> JobRow]
    /\ cstatus \in CampaignStatuses /\ order \in {"ALLOCATED", "REFUNDED"}
    /\ claims \in [Claims -> ClaimRow]
    /\ runs \in [Workers -> Run \cup {None}]
    /\ provider \in [OneClick -> {"pending", "failed", "settled", "refunded"}]

\* The USDC contract has sent, or may still send, the prize under the claim's permit.
Payable(cl) ==
    \/ \E d \in disbursed : d.kind = "claim" /\ d.to = Receiver[cl]
    \/ \E m \in payouts : m.kind = "claim" /\ m.to = Receiver[cl] /\ m.reply = "sent"
    \/ /\ Open(chain) /\ now < chain.spec.expires
       /\ chain.claimNonce = claims[cl].nonce /\ now <= claims[cl].deadline

\* A claim the ledger calls paid got the prize, by its own permit; one that was
\* routed has in addition reached its destination, or come back to the winner.
PaidMeansPaid ==
    \A cl \in Claims :
       claims[cl].status \in {"PAID", "RECOVERED"} =>
          /\ chain.status.state = "Claimed"
          /\ \E d \in disbursed :
                d.kind = "claim" /\ d.to = Receiver[cl] /\ d.seq = claims[cl].nonce
          /\ cl \in OneClick =>
                provider[cl] = IF claims[cl].status = "PAID" THEN "settled" ELSE "refunded"

\* The solver of a failed claim may try again: no payout under the failed permit is
\* under way, and none can start any more.  A routed claim that the provider failed
\* is the exception, and that is on its way to being refunded.
FailedNeverPays ==
    \A cl \in Claims :
       claims[cl].status = "FAILED" => ~Payable(cl) \/ (cl \in OneClick /\ provider[cl] # "pending")

\* Postgres never claims more than the escrow did: a campaign is claimed or refunded in
\* the ledger only after the chain has settled it so, the order follows the campaign,
\* and the end of a routed payout ends the campaign with it.
LedgerAgrees ==
    /\ cstatus = "CLAIMED" => ChainState = "Claimed"
    /\ cstatus = "REFUNDED" => ChainState = "Refunded"
    /\ order = "REFUNDED" => cstatus = "REFUNDED"
    /\ \A cl \in OneClick : claims[cl].status \in {"PAID", "RECOVERED"} => cstatus = "CLAIMED"

Unfinished(k) == jobs[k].status \in {"PENDING", "RUNNING", "DEAD"}

\* Nothing that was taken on is dropped.  While a claim is not settled, the job that
\* carries it on has not succeeded: for a routed claim that is the job of its payout
\* once the prize has reached the deposit address.  And a campaign in CLAIMING, closed to
\* solvers, has its lifecycle job to open or to close it again, unless a refund that
\* its creator asked for was once enqueued: see RestartLifecycle.
ClaimsCarriedOn ==
    /\ \A cl \in Claims :
          claims[cl].status \in {"SUBMITTED", "PAYING"} =>
             \/ jobs[ClaimKey(cl)].status # "SUCCEEDED"
             \/ cl \in OneClick /\ Unfinished(PayoutKey(cl))
    /\ cstatus = "CLAIMING" /\ jobs[RefundKey("CREATOR_CANCEL")].status = "NONE" =>
          Unfinished(LifecycleKey)

\* The money side of the ledger, both ways: who is recorded as paid was paid, and who is
\* recorded as failed never will be, whoever relays a permit behind the ledger's back.
ClaimsSafe == PaidMeansPaid /\ FailedNeverPays

\* All of these, in well formed rows.
LedgerSafe == LedgerTypeOK /\ ClaimsSafe /\ LedgerAgrees /\ ClaimsCarriedOn

\* What the ledger has settled stays: whoever reads a receipt reads the same for ever.
SettledStays ==
    [][/\ cstatus \in {"CLAIMED", "REFUNDED"} => cstatus' = cstatus
       /\ \A cl \in Claims :
             claims[cl].status \in {"PAID", "RECOVERED"}
               \/ (claims[cl].status = "FAILED" /\ cl \notin OneClick) =>
                  claims'[cl].status = claims[cl].status]_ledgerVars
===============================================================================
