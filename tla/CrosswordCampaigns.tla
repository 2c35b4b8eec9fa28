-------------------------- MODULE CrosswordCampaigns --------------------------
(***************************************************************************)
(* The NEAR prize escrow of contract-v2/src/lib.rs.  Every method and every *)
(* promise callback is one atomic receipt, so it is one action; between a   *)
(* method that calls the USDC contract and its callback any other receipt   *)
(* may run.  The USDC contract (NEP-141) is outside this repository: it is  *)
(* modelled from the calls the escrow makes to it and the calls it makes    *)
(* back, and its balance is the variable vault.                            *)
(*                                                                         *)
(* Left out: logs and views, NEAR storage deposits, byte lengths and        *)
(* character sets of ids, content hashes, and u128/u64 overflow (amounts    *)
(* are capped at MAX_USDC_PRIZE, and a nonce or attempt would need 2^64     *)
(* receipts).                                                              *)
(***************************************************************************)
EXTENDS Naturals, FiniteSets

CONSTANTS
    CampaignIds,   \* campaign ids
    References,    \* funding references
    Accounts,      \* NEAR accounts of creators, sponsors and receivers
    Operator,      \* operator_id, also the relaying account
    Transfers,     \* names of ft_transfer_calls that may be in progress at once
    Specs,         \* the campaign specs that callers submit
    Prizes,        \* the amounts that callers submit
    Receivers,     \* receivers that solvers name in a permit
    Deadlines,     \* deadlines that callers submit
    None,          \* absence of a map entry
    MaxPrize,      \* MAX_USDC_PRIZE
    MinDuration,   \* MIN_CAMPAIGN_DURATION_MS
    MaxDuration,   \* MAX_CAMPAIGN_DURATION_MS
    MaxTime,       \* bound on the clock
    MaxSeq,        \* bound on claim nonces and refund attempts
    MaxVault       \* bound on the USDC the escrow account holds

Callers == Accounts \cup {Operator}
Rails == {"direct_usdc", "intents", "x402"}
States == {"Scheduled", "Active", "Claiming", "Claimed", "Refunding", "Refunded"}

\* CampaignSpec, the caller-supplied part of a campaign.
Spec0 == [id : CampaignIds, creator : Accounts, controller : Accounts,
          refundTo : Accounts, opens : Nat, expires : Nat]

\* CampaignStatus.  seq is the consumed nonce of a claim, the attempt of a refund.
Status == [state : States, seq : Nat, inFlight : BOOLEAN]

Campaign == [spec : Spec0, amount : Nat \ {0}, rail : Rails, reference : References,
             claimNonce : Nat, status : Status]

Authorization == [campaign : Campaign, deadline : Nat]

ASSUME SpecsAssumption == Specs \subseteq Spec0 /\ Prizes \subseteq Nat /\ Deadlines \subseteq Nat
ASSUME AccountsAssumption == Receivers \subseteq Accounts
ASSUME LimitsAssumption ==
    /\ MaxPrize \in Nat /\ MinDuration \in Nat \ {0} /\ MaxDuration \in Nat
    /\ MaxTime \in Nat /\ MaxSeq \in Nat /\ MaxVault \in Nat
ASSUME FiniteAssumption == IsFiniteSet(CampaignIds)
ASSUME NoneAssumption ==
    None \notin Spec0 \cup Campaign \cup Authorization \cup References

VARIABLES
    now,            \* block timestamp
    campaigns,      \* campaigns: id -> Campaign or None
    used,           \* used_funding_references
    authorizations, \* external_funding_authorizations: reference -> Authorization or None
    authById,       \* external_authorization_by_campaign_id: id -> reference or None
    pending,        \* pending_external_funding: reference -> Authorization or None
    pendingIds,     \* pending_campaign_ids
    totalReserved,  \* total_reserved
    permits,        \* solution-key signatures that exist outside the contract
    vault,          \* USDC balance of the escrow account
    queries,        \* ft_balance_of promises and their results
    payouts,        \* ft_transfer promises and their results
    inbound,        \* ft_transfer_calls not yet resolved
    disbursed       \* every ft_transfer the USDC contract executed

escrow == <<campaigns, used, authorizations, authById, pending, pendingIds, totalReserved>>
token == <<vault, queries, payouts, inbound, disbursed>>
vars == <<now, escrow, permits, token>>

Query == [reference : References, reply : {"sent", "read", "failed"}, balance : Nat]
Payout == [id : CampaignIds, kind : {"claim", "refund"}, seq : Nat, to : Accounts,
           amount : Nat, reply : {"sent", "ok", "failed"}]
Disbursement == [id : CampaignIds, kind : {"claim", "refund"}, seq : Nat,
                 to : Accounts, amount : Nat]
Permit == [id : CampaignIds, receiver : Accounts, nonce : Nat, deadline : Nat]
\* An ft_transfer_call: spec None stands for a message that does not parse.
Inbound == [name : Transfers, stage : {"sent", "returning"}, amount : Nat,
            spec : Spec0 \cup {None}, reference : References, deadline : Nat]

TypeOK ==
    /\ now \in Nat
    /\ campaigns \in [CampaignIds -> Campaign \cup {None}]
    /\ used \subseteq References
    /\ authorizations \in [References -> Authorization \cup {None}]
    /\ authById \in [CampaignIds -> References \cup {None}]
    /\ pending \in [References -> Authorization \cup {None}]
    /\ pendingIds \subseteq CampaignIds
    /\ totalReserved \in Nat
    /\ permits \subseteq Permit
    /\ vault \in Nat
    /\ queries \subseteq Query
    /\ payouts \subseteq Payout
    /\ inbound \subseteq Inbound
    /\ disbursed \subseteq Disbursement

Init ==
    /\ now = 0
    /\ campaigns = [id \in CampaignIds |-> None]
    /\ used = {}
    /\ authorizations = [r \in References |-> None]
    /\ authById = [id \in CampaignIds |-> None]
    /\ pending = [r \in References |-> None]
    /\ pendingIds = {}
    /\ totalReserved = 0
    /\ permits = {}
    /\ vault = 0
    /\ queries = {} /\ payouts = {} /\ inbound = {} /\ disbursed = {}

-----------------------------------------------------------------------------
(* Helpers of the contract.                                                 *)

StatusOf(state, seq, inFlight) == [state |-> state, seq |-> seq, inFlight |-> inFlight]

\* is_live_liability
IsLive(c) == c # None /\ c.status.state \in {"Scheduled", "Active", "Claiming", "Refunding"}

BuildableZero(spec, amount) ==
    /\ campaigns[spec.id] = None
    /\ amount <= MaxPrize
    /\ spec.expires > now
    /\ spec.expires > spec.opens
    /\ spec.expires - spec.opens \in MinDuration .. MaxDuration

\* build_campaign's checks; a spec whose expiry does not follow its opening is refused.
Buildable(spec, amount) ==
    /\ campaigns[spec.id] = None
    /\ amount > 0 /\ amount <= MaxPrize
    /\ spec.expires > now
    /\ spec.expires > spec.opens
    /\ spec.expires - spec.opens \in MinDuration .. MaxDuration

\* build_campaign's result.
Build(spec, amount, reference, rail) ==
    [spec |-> spec, amount |-> amount, rail |-> rail, reference |-> reference,
     claimNonce |-> 0,
     status |-> StatusOf(IF now < spec.opens THEN "Scheduled" ELSE "Active", 0, FALSE)]

ReferenceAvailableUnspent(r) == pending[r] = None /\ authorizations[r] = None

\* validate_reference_available
ReferenceAvailable(r) == r \notin used /\ pending[r] = None /\ authorizations[r] = None

\* The state change of retire_external_authorization: the reference becomes a tombstone.
Retired(r) ==
    [authorizations |-> [authorizations EXCEPT ![r] = None],
     authById |-> [authById EXCEPT ![authorizations[r].campaign.spec.id] = None],
     used |-> used \cup {r}]

RetirableWhilePending(r) ==
    authorizations[r] # None /\ authById[authorizations[r].campaign.spec.id] = r

\* retire_external_authorization does not panic.
Retirable(r) ==
    /\ authorizations[r] # None
    /\ pending[r] = None
    /\ authById[authorizations[r].campaign.spec.id] = r
    /\ r \notin used

PayoutOf(id, kind, seq, to, amount) ==
    [id |-> id, kind |-> kind, seq |-> seq, to |-> to, amount |-> amount, reply |-> "sent"]

-----------------------------------------------------------------------------
(* Direct funding: ft_transfer_call, ft_on_transfer, ft_resolve_transfer.   *)

\* The USDC contract credits the escrow account, then calls ft_on_transfer.
FtTransferCall(name, spec, amount, reference, deadline) ==
    /\ \A t \in inbound : t.name # name
    /\ amount > 0 /\ vault + amount <= MaxVault
    /\ vault' = vault + amount
    /\ inbound' = inbound \cup
         {[name |-> name, stage |-> "sent", amount |-> amount, spec |-> spec,
           reference |-> reference, deadline |-> deadline]}
    /\ UNCHANGED <<now, escrow, permits, queries, payouts, disbursed>>

\* ft_on_transfer together with try_create_campaign would accept the transfer.
Acceptable(t) ==
    /\ t.spec # None
    /\ now <= t.deadline
    /\ t.deadline <= t.spec.expires
    /\ ReferenceAvailable(t.reference)
    /\ t.spec.id \notin pendingIds /\ authById[t.spec.id] = None
    /\ Buildable(t.spec, t.amount)

FtOnTransferAccept(t) ==
    /\ t \in inbound /\ t.stage = "sent"
    /\ Acceptable(t)
    /\ campaigns' = [campaigns EXCEPT ![t.spec.id] =
                        Build(t.spec, t.amount, t.reference, "direct_usdc")]
    /\ used' = used \cup {t.reference}
    /\ totalReserved' = totalReserved + t.amount
    /\ inbound' = inbound \ {t}
    /\ UNCHANGED <<now, authorizations, authById, pending, pendingIds, permits,
                   vault, queries, payouts, disbursed>>

\* The whole amount is handed back: it leaves the vault in ft_resolve_transfer.
FtOnTransferReject(t) ==
    /\ t \in inbound /\ t.stage = "sent"
    /\ ~Acceptable(t)
    /\ inbound' = (inbound \ {t}) \cup {[t EXCEPT !.stage = "returning"]}
    /\ UNCHANGED <<now, escrow, permits, vault, queries, payouts, disbursed>>

\* The USDC contract refunds what the escrow still holds of the rejected amount.
FtResolveTransfer(t) ==
    /\ t \in inbound /\ t.stage = "returning"
    /\ vault' = IF vault >= t.amount THEN vault - t.amount ELSE 0
    /\ inbound' = inbound \ {t}
    /\ UNCHANGED <<now, escrow, permits, queries, payouts, disbursed>>

-----------------------------------------------------------------------------
(* External funding: authorize, revoke, clean up, activate, balance proof.  *)

\* A provider (Intents or x402) pays USDC into the escrow account.
ProviderDeposit(amount) ==
    /\ amount > 0 /\ vault + amount <= MaxVault
    /\ vault' = vault + amount
    /\ UNCHANGED <<now, escrow, permits, queries, payouts, inbound, disbursed>>

AuthorizesAsCreator(caller, spec) == caller # Operator /\ caller = spec.creator

\* The creator authorizes for itself: controller and refund account are the caller.
Authorizes(caller, spec) ==
    /\ caller # Operator
    /\ caller = spec.creator /\ caller = spec.controller /\ caller = spec.refundTo

\* authorize_external_funding.  An exact retry of a live authorization changes
\* nothing and is a stuttering step; every other call on a known reference panics.
AuthorizeExternalFunding(caller, spec, amount, reference, rail, deadline) ==
    LET id == spec.id
        old == authById[id]
        stale == old # None
        base == IF stale THEN Retired(old)
                ELSE [authorizations |-> authorizations, authById |-> authById, used |-> used]
        campaign == [Build(spec, amount, reference, rail)
                       EXCEPT !.status = StatusOf("Scheduled", 0, FALSE)]
    IN  /\ rail \in {"intents", "x402"}
        /\ Authorizes(caller, spec)
        /\ Buildable(spec, amount)
        /\ deadline > now /\ deadline <= spec.expires
        /\ ReferenceAvailable(reference)
        /\ stale => Retirable(old) /\ now > authorizations[old].deadline
        /\ id \notin pendingIds
        /\ authorizations' = [base.authorizations EXCEPT ![reference] =
                                [campaign |-> campaign, deadline |-> deadline]]
        /\ authById' = [base.authById EXCEPT ![id] = reference]
        /\ used' = base.used
        /\ UNCHANGED <<now, campaigns, pending, pendingIds, totalReserved, permits, token>>

Retire(r) ==
    /\ Retirable(r)
    /\ authorizations' = Retired(r).authorizations
    /\ authById' = Retired(r).authById
    /\ used' = Retired(r).used
    /\ UNCHANGED <<now, campaigns, pending, pendingIds, totalReserved, permits, token>>

\* revoke_external_funding_authorization
RevokeAuthorization(caller, r) ==
    /\ authorizations[r] # None
    /\ caller = authorizations[r].campaign.spec.creator
    /\ Retire(r)

\* cleanup_expired_external_funding_authorization: anyone may call it.
CleanupAuthorization(r) ==
    /\ authorizations[r] # None
    /\ now > authorizations[r].deadline
    /\ Retire(r)

\* activate_external_funding: lock the terms and ask for the balance.
ActivateExternalFunding(caller, r, id) ==
    /\ caller = Operator
    /\ r \notin used /\ pending[r] = None
    /\ authorizations[r] # None
    /\ now <= authorizations[r].deadline
    /\ authorizations[r].campaign.spec.id = id
    /\ campaigns[id] = None /\ id \notin pendingIds
    /\ pendingIds' = pendingIds \cup {id}
    /\ pending' = [pending EXCEPT ![r] = authorizations[r]]
    /\ queries' = queries \cup {[reference |-> r, reply |-> "sent", balance |-> 0]}
    /\ UNCHANGED <<now, campaigns, used, authorizations, authById, totalReserved,
                   permits, vault, payouts, inbound, disbursed>>

\* The USDC contract answers ft_balance_of, or the call fails.
FtBalanceOf(q) ==
    /\ q \in queries /\ q.reply = "sent"
    /\ \/ queries' = (queries \ {q}) \cup {[q EXCEPT !.reply = "read", !.balance = vault]}
       \/ queries' = (queries \ {q}) \cup {[q EXCEPT !.reply = "failed"]}
    /\ UNCHANGED <<now, escrow, permits, vault, payouts, inbound, disbursed>>

AnsweredWell(q) == q.reply = "read"

\* The result has arrived; a failed query reaches the callback as well.
Answered(q) == q.reply # "sent"

\* The balance result proves the pending campaign's prize.
Proves(q, auth) ==
    /\ q.reply = "read"
    /\ q.balance >= totalReserved + auth.campaign.amount
    /\ campaigns[auth.campaign.spec.id] = None
    /\ q.reference \notin used
    /\ authorizations[q.reference] = auth

\* on_external_funding_balance
OnExternalFundingBalance(q) ==
    LET r == q.reference
        auth == pending[r]
        id == auth.campaign.spec.id
    IN  /\ q \in queries /\ Answered(q)
        /\ queries' = queries \ {q}
        /\ UNCHANGED <<now, permits, vault, payouts, inbound, disbursed>>
        /\ IF auth = None
           THEN UNCHANGED escrow   \* a stale callback
           ELSE /\ pending' = [pending EXCEPT ![r] = None]
                /\ pendingIds' = pendingIds \ {id}
                /\ \/ /\ ~Proves(q, auth)
                      /\ UNCHANGED <<campaigns, used, authorizations, authById, totalReserved>>
                   \/ /\ Proves(q, auth)
                      /\ authById[id] = r
                      /\ authorizations' = [authorizations EXCEPT ![r] = None]
                      /\ authById' = [authById EXCEPT ![id] = None]
                      /\ campaigns' = [campaigns EXCEPT ![id] = auth.campaign]
                      /\ used' = used \cup {r}
                      /\ totalReserved' = totalReserved + auth.campaign.amount

-----------------------------------------------------------------------------
(* Payouts: claim, cancel, expire, retry, and their callbacks.              *)

\* A solver who knows the solution key signs a permit over a nonce it has read
\* from get_campaign, possibly one that is stale when the permit is relayed.
SignPermit(id, receiver, nonce, deadline) ==
    /\ campaigns[id] # None
    /\ nonce <= campaigns[id].claimNonce
    /\ permits' = permits \cup
         {[id |-> id, receiver |-> receiver, nonce |-> nonce, deadline |-> deadline]}
    /\ UNCHANGED <<now, escrow, token>>

OpenOrClaiming(c) == c.status.state \in {"Scheduled", "Active", "Claiming"}

\* Neither a claim nor a refund has started, or the last claim failed.
Open(c) == c.status.state \in {"Scheduled", "Active"}

PermitFitsAnyNonce(p, c) ==
    /\ now <= p.deadline /\ p.deadline <= c.spec.expires
    /\ p.nonce <= c.claimNonce

\* The permit is in time and is signed over the current nonce.
PermitFits(p, c) ==
    /\ now <= p.deadline /\ p.deadline <= c.spec.expires
    /\ p.nonce = c.claimNonce

\* claim: anyone may relay a permit, any number of times.
Claim(p) ==
    LET c == campaigns[p.id]
    IN  /\ p \in permits
        /\ c # None
        /\ now >= c.spec.opens /\ now < c.spec.expires
        /\ PermitFits(p, c)
        /\ Open(c)
        /\ c.claimNonce < MaxSeq
        /\ campaigns' = [campaigns EXCEPT ![p.id] =
              [c EXCEPT !.claimNonce = c.claimNonce + 1,
                        !.status = StatusOf("Claiming", c.claimNonce, TRUE)]]
        /\ payouts' = payouts \cup {PayoutOf(p.id, "claim", c.claimNonce, p.receiver, c.amount)}
        /\ UNCHANGED <<now, used, authorizations, authById, pending, pendingIds,
                       totalReserved, permits, vault, queries, inbound, disbursed>>

\* start_refund and refund_promise
StartRefund(id) ==
    LET c == campaigns[id]
    IN  /\ campaigns' = [campaigns EXCEPT ![id] =
              [c EXCEPT !.status = StatusOf("Refunding", 0, TRUE)]]
        /\ payouts' = payouts \cup {PayoutOf(id, "refund", 0, c.spec.refundTo, c.amount)}
        /\ UNCHANGED <<now, used, authorizations, authById, pending, pendingIds,
                       totalReserved, permits, vault, queries, inbound, disbursed>>

CancelBeforeOpen(caller, id) ==
    /\ campaigns[id] # None
    /\ caller \in {campaigns[id].spec.creator, campaigns[id].spec.controller, Operator}
    /\ now < campaigns[id].spec.opens
    /\ campaigns[id].status.state = "Scheduled"
    /\ StartRefund(id)

ExpireAndRefund(id) ==
    /\ campaigns[id] # None
    /\ now >= campaigns[id].spec.expires
    /\ Open(campaigns[id])
    /\ StartRefund(id)

RetryableInFlight(c) == c.status.state = "Refunding"

\* The last refund attempt has failed.
Retryable(c) == c.status.state = "Refunding" /\ ~c.status.inFlight

RetryRefund(id) ==
    LET c == campaigns[id]
    IN  /\ c # None
        /\ Retryable(c)
        /\ c.status.seq < MaxSeq
        /\ campaigns' = [campaigns EXCEPT ![id] =
              [c EXCEPT !.status = StatusOf("Refunding", c.status.seq + 1, TRUE)]]
        /\ payouts' = payouts \cup
             {PayoutOf(id, "refund", c.status.seq + 1, c.spec.refundTo, c.amount)}
        /\ UNCHANGED <<now, used, authorizations, authById, pending, pendingIds,
                       totalReserved, permits, vault, queries, inbound, disbursed>>

\* The USDC contract executes a payout, or refuses it (the vault is short, or
\* the receiver is not registered).  MaxSeq also bounds how often a refund that
\* the vault could cover is refused.
FtTransferOk(m) ==
    /\ m \in payouts /\ m.reply = "sent"
    /\ vault >= m.amount
    /\ vault' = vault - m.amount
    /\ payouts' = (payouts \ {m}) \cup {[m EXCEPT !.reply = "ok"]}
    /\ disbursed' = disbursed \cup
         {[id |-> m.id, kind |-> m.kind, seq |-> m.seq, to |-> m.to, amount |-> m.amount]}
    /\ UNCHANGED <<now, escrow, permits, queries, inbound>>

FtTransferFail(m) ==
    /\ m \in payouts /\ m.reply = "sent"
    /\ m.kind = "claim" \/ m.seq < MaxSeq \/ vault < m.amount
    /\ payouts' = (payouts \ {m}) \cup {[m EXCEPT !.reply = "failed"]}
    /\ UNCHANGED <<now, escrow, permits, vault, queries, inbound, disbursed>>

StaleClaimNext(m) ==
    \/ campaigns[m.id] = None
    \/ campaigns[m.id].status.state # "Claiming"
    \/ campaigns[m.id].claimNonce # m.seq

\* A callback is stale when the campaign has moved past the payout it reports.
StaleClaim(m) ==
    \/ campaigns[m.id] = None
    \/ campaigns[m.id].status.state # "Claiming"
    \/ campaigns[m.id].status.seq # m.seq

StaleRefund(m) ==
    \/ campaigns[m.id] = None
    \/ campaigns[m.id].status.state # "Refunding"
    \/ campaigns[m.id].status.seq # m.seq
    \/ ~campaigns[m.id].status.inFlight

SucceededAlways(m) == m.reply # "sent"

\* promise_succeeded
Succeeded(m) == m.reply = "ok"

ReleasedNothing(m) == totalReserved

\* The reserve after the campaign's prize has left.
Released(m) == totalReserved - campaigns[m.id].amount

\* on_claim_transfer: a failed claim reopens the campaign under the next nonce.
OnClaimTransfer(m) ==
    /\ m \in payouts /\ m.kind = "claim" /\ m.reply # "sent"
    /\ payouts' = payouts \ {m}
    /\ UNCHANGED <<now, used, authorizations, authById, pending, pendingIds,
                   permits, vault, queries, inbound, disbursed>>
    /\ IF StaleClaim(m)
       THEN UNCHANGED <<campaigns, totalReserved>>
       ELSE \/ /\ Succeeded(m)
               /\ totalReserved >= campaigns[m.id].amount
               /\ totalReserved' = Released(m)
               /\ campaigns' = [campaigns EXCEPT ![m.id].status =
                                   StatusOf("Claimed", m.seq, FALSE)]
            \/ /\ ~Succeeded(m)
               /\ campaigns' = [campaigns EXCEPT ![m.id].status =
                                   StatusOf("Active", 0, FALSE)]
               /\ UNCHANGED totalReserved

FailedRefundInFlight(m) == StatusOf("Refunding", m.seq, TRUE)

\* The status of a refund whose attempt has failed.
FailedRefund(m) == StatusOf("Refunding", m.seq, FALSE)

\* on_refund_transfer: a failed refund waits for retry_refund.
OnRefundTransfer(m) ==
    /\ m \in payouts /\ m.kind = "refund" /\ m.reply # "sent"
    /\ payouts' = payouts \ {m}
    /\ UNCHANGED <<now, used, authorizations, authById, pending, pendingIds,
                   permits, vault, queries, inbound, disbursed>>
    /\ IF StaleRefund(m)
       THEN UNCHANGED <<campaigns, totalReserved>>
       ELSE \/ /\ Succeeded(m)
               /\ totalReserved >= campaigns[m.id].amount
               /\ totalReserved' = Released(m)
               /\ campaigns' = [campaigns EXCEPT ![m.id].status =
                                   StatusOf("Refunded", 0, FALSE)]
            \/ /\ ~Succeeded(m)
               /\ campaigns' = [campaigns EXCEPT ![m.id].status = FailedRefund(m)]
               /\ UNCHANGED totalReserved

Tick ==
    /\ now < MaxTime
    /\ now' = now + 1
    /\ UNCHANGED <<escrow, permits, token>>

-----------------------------------------------------------------------------
Fund ==
    \/ \E name \in Transfers, spec \in Specs \cup {None}, amount \in Prizes,
          r \in References, deadline \in Deadlines :
          FtTransferCall(name, spec, amount, r, deadline)
    \/ \E t \in inbound :
          FtOnTransferAccept(t) \/ FtOnTransferReject(t) \/ FtResolveTransfer(t)

FundExternally ==
    \/ \E amount \in Prizes : ProviderDeposit(amount)
    \/ \E caller \in Callers, spec \in Specs, amount \in Prizes, r \in References,
          rail \in Rails, deadline \in Deadlines :
          AuthorizeExternalFunding(caller, spec, amount, r, rail, deadline)
    \/ \E caller \in Callers, r \in References : RevokeAuthorization(caller, r)
    \/ \E r \in References : CleanupAuthorization(r)
    \/ \E caller \in Callers, r \in References, id \in CampaignIds :
          ActivateExternalFunding(caller, r, id)
    \/ \E q \in queries : FtBalanceOf(q) \/ OnExternalFundingBalance(q)

PayOut ==
    \/ \E id \in CampaignIds, receiver \in Receivers, nonce \in 0 .. MaxSeq - 1,
          deadline \in Deadlines : SignPermit(id, receiver, nonce, deadline)
    \/ \E p \in permits : Claim(p)
    \/ \E caller \in Callers, id \in CampaignIds : CancelBeforeOpen(caller, id)
    \/ \E id \in CampaignIds : ExpireAndRefund(id) \/ RetryRefund(id)
    \/ \E m \in payouts : \/ FtTransferOk(m) \/ FtTransferFail(m)
                          \/ OnClaimTransfer(m) \/ OnRefundTransfer(m)

Next == Tick \/ Fund \/ FundExternally \/ PayOut

Spec == Init /\ [][Next]_vars

-----------------------------------------------------------------------------
(* Fairness: NEAR executes every receipt, so a payout, a balance query and an *)
(* incoming transfer each run to their callback.                            *)

SettlePayout(id) ==
    \E m \in payouts : /\ m.id = id
                       /\ \/ FtTransferOk(m) \/ FtTransferFail(m)
                          \/ OnClaimTransfer(m) \/ OnRefundTransfer(m)

AnswerQuery(r) ==
    \E q \in queries : q.reference = r /\ (FtBalanceOf(q) \/ OnExternalFundingBalance(q))

ReceiptsRun ==
    /\ \A id \in CampaignIds : WF_vars(SettlePayout(id))
    /\ \A r \in References : WF_vars(AnswerQuery(r))

FairSpec == Spec /\ ReceiptsRun

\* The worker (src/server/v2/chain/worker.ts) polls every campaign it funded:
\* after expiry it calls expire_and_refund, and retry_refund after a failure.
KeeperRuns ==
    /\ WF_vars(Tick)
    /\ \A id \in CampaignIds : WF_vars(ExpireAndRefund(id)) /\ WF_vars(RetryRefund(id))

KeeperSpec == FairSpec /\ KeeperRuns

-----------------------------------------------------------------------------
(* Safety.                                                                  *)

LiveIds == {id \in CampaignIds : IsLive(campaigns[id])}

\* Every atom of every live prize, once.
ReservedUnits == UNION {{id} \X (1 .. campaigns[id].amount) : id \in LiveIds}

\* get_accounting reports invariant_holds: the running total that funding and the
\* payout callbacks keep equals the sum over the live campaigns.
Accounting == IsFiniteSet(ReservedUnits) /\ totalReserved = Cardinality(ReservedUnits)

\* The campaign waits for the callback of a payout.
AwaitsPayout(c) ==
    /\ c # None
    /\ \/ c.status.state = "Claiming"
       \/ c.status.state = "Refunding" /\ c.status.inFlight

\* A campaign that waits for a payout has exactly one payout promise under way, a
\* campaign that does not has none, and no callback that will arrive is stale: a
\* campaign can neither hang in Claiming nor be settled by another payout's result.
OnePayoutInFlight ==
    /\ \A m \in payouts :
          /\ m.kind = "claim" => ~StaleClaim(m)
          /\ m.kind = "refund" => ~StaleRefund(m)
    /\ \A m1, m2 \in payouts : m1.id = m2.id => m1 = m2
    /\ \A id \in CampaignIds :
          AwaitsPayout(campaigns[id]) => \E m \in payouts : m.id = id

\* The USDC contract executes at most one transfer for a campaign, whatever the
\* order of claims, failures, retries, expiry and callbacks; the campaign it paid
\* is settled, or its success callback is on the way.
DisbursedOnce ==
    /\ \A d1, d2 \in disbursed : d1.id = d2.id => d1 = d2
    /\ \A d \in disbursed :
          /\ campaigns[d.id] # None
          /\ d.amount = campaigns[d.id].amount
          /\ \/ campaigns[d.id].status.state \in {"Claimed", "Refunded"}
             \/ \E m \in payouts : m.id = d.id /\ m.reply = "ok"

\* A settled campaign was really paid: the callbacks never release a reserve
\* for a transfer that the USDC contract refused.
SettledIsDisbursed ==
    \A id \in CampaignIds :
        campaigns[id] # None /\ campaigns[id].status.state \in {"Claimed", "Refunded"} =>
           \E d \in disbursed :
              /\ d.id = id
              /\ d.kind = IF campaigns[id].status.state = "Claimed" THEN "claim" ELSE "refund"

\* A prize has at most one payout under way, leaves at most once, and its campaign
\* is settled exactly by the payout that took it.
PayoutsSafe == OnePayoutInFlight /\ DisbursedOnce /\ SettledIsDisbursed

\* The prize goes to a receiver that a solution-key permit names for the very
\* nonce the payout consumed, and a refund to the fixed refund account only.
PaidAsSigned ==
    \A d \in disbursed :
        IF d.kind = "claim"
        THEN \E p \in permits : p.id = d.id /\ p.receiver = d.to /\ p.nonce = d.seq
        ELSE d.to = campaigns[d.id].spec.refundTo

\* The two authorization maps and the two pending maps describe one set of live
\* authorizations, so no ERR_AUTHORIZATION_INDEX_CORRUPT panic is reachable, and a
\* pending allocation locks exactly the terms the creator authorized.
AuthorizationIndex ==
    /\ \A r \in References :
          authorizations[r] # None =>
             /\ authById[authorizations[r].campaign.spec.id] = r
             /\ authorizations[r].campaign.reference = r
             /\ r \notin used
    /\ \A id \in CampaignIds :
          authById[id] # None =>
             /\ authorizations[authById[id]] # None
             /\ authorizations[authById[id]].campaign.spec.id = id
             /\ campaigns[id] = None
    /\ \A r \in References : pending[r] # None => pending[r] = authorizations[r]
    /\ pendingIds = {pending[r].campaign.spec.id : r \in {x \in References : pending[x] # None}}

\* A funding reference funds one campaign: it is spent with the first, and a
\* revoked, expired or replaced quote never funds anything.
ReferenceFundsOneCampaign ==
    \A i, j \in CampaignIds :
        campaigns[i] # None =>
           /\ campaigns[i].reference \in used
           /\ campaigns[j] # None /\ campaigns[i].reference = campaigns[j].reference => i = j

\* A reference funds one campaign, and the four funding maps agree on which.
FundingSafe == AuthorizationIndex /\ ReferenceFundsOneCampaign

\* "The operator cannot author or modify a prize": an externally funded campaign
\* appears with exactly the terms authorized beforehand by an account other than
\* the operator that is its creator, controller and refund account.
AllocatedAsAuthorized ==
    [][\A id \in CampaignIds :
          campaigns[id] = None /\ campaigns'[id] # None /\ campaigns'[id].rail # "direct_usdc" =>
             \E r \in References :
                /\ authorizations[r] # None /\ pending[r] = authorizations[r]
                /\ campaigns'[id] = authorizations[r].campaign
                /\ LET terms == campaigns'[id].spec
                   IN  /\ terms.creator # Operator
                       /\ terms.controller = terms.creator /\ terms.refundTo = terms.creator]_vars

\* Every atom that left the vault for a prize whose success callback has not run yet,
\* and every atom of the transfers that are not resolved yet.
PaidUnits == UNION {{m.id} \X (1 .. m.amount) : m \in {n \in payouts : n.reply = "ok"}}
InboundUnits == UNION {{t.name} \X (1 .. t.amount) : t \in inbound}

FundedDirectly == \A id \in CampaignIds : campaigns[id] # None => campaigns[id].rail = "direct_usdc"

\* As long as every campaign was funded directly, the USDC covers the reserve even
\* with the transfers set aside that are not resolved yet: these are either about to
\* be reserved or about to be handed back.
Solvent ==
    FundedDirectly =>
       vault + Cardinality(PaidUnits) >= totalReserved + Cardinality(InboundUnits)

-----------------------------------------------------------------------------
(* Liveness.                                                                *)

\* Every payout settles: a campaign never waits for a callback for ever.
PayoutsSettle ==
    \A id \in CampaignIds :
        AwaitsPayout(campaigns[id]) ~> ~AwaitsPayout(campaigns[id])

\* Every allocation that locks a campaign id and a reference lets go of them.
AllocationsConclude ==
    \A r \in References : pending[r] # None ~> pending[r] = None

-----------------------------------------------------------------------------
(* Refinement.                                                              *)

DisbursedTo(id, kind) == \E d \in disbursed : d.id = id /\ d.kind = kind

prizeOf ==
    [id \in CampaignIds |-> IF DisbursedTo(id, "claim") THEN "paid"
                            ELSE IF DisbursedTo(id, "refund") THEN "returned"
                            ELSE IF campaigns[id] = None THEN "none" ELSE "held"]

refundToOf ==
    [id \in CampaignIds |-> IF campaigns[id] = None THEN None ELSE campaigns[id].spec.refundTo]

payeeOf ==
    [id \in CampaignIds |->
        IF \E d \in disbursed : d.id = id THEN (CHOOSE d \in disbursed : d.id = id).to ELSE None]

exitsOf == [id \in CampaignIds |-> Cardinality({d \in disbursed : d.id = id})]

Promise == INSTANCE PrizeEscrow WITH
    prize <- prizeOf, refundTo <- refundToOf, payee <- payeeOf, exits <- exitsOf,
    endorsed <- {<<p.id, p.receiver>> : p \in permits}

\* The contract with its promises and callbacks keeps the promise of PrizeEscrow:
\* each prize is held once and leaves once, for an endorsed receiver or the refund
\* account.
ImplementsPrizeEscrow == Promise!Spec

\* With the worker running it keeps the live promise too: every prize leaves.
ImplementsLivePrizeEscrow == Promise!LiveSpec
===============================================================================
