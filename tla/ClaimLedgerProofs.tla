-------------------------- MODULE ClaimLedgerProofs --------------------------
(***************************************************************************)
(* Proofs about CrosswordCampaigns, for every value of its constants, and on   *)
(* them those about ClaimLedger, for every campaign, any number of claims and  *)
(* of workers, and every bound.                                              *)
(***************************************************************************)
EXTENDS ClaimLedger, Integers, FiniteSetTheorems, TLAPS

-----------------------------------------------------------------------------
(* The escrow.                                                               *)

LEMMA InitTypeOK == Init => TypeOK
  BY DEF Init, TypeOK

\* What build_campaign returns is a campaign, and so is what is authorized.
LEMMA BuildType ==
  ASSUME NEW spec \in Spec0, NEW amount \in Nat \ {0}, NEW r \in References, NEW rail \in Rails
  PROVE  /\ Build(spec, amount, r, rail) \in Campaign
         /\ [Build(spec, amount, r, rail) EXCEPT !.status = StatusOf("Scheduled", 0, FALSE)] \in Campaign
<1>1. StatusOf(IF now < spec.opens THEN "Scheduled" ELSE "Active", 0, FALSE) \in Status
  BY DEF StatusOf, Status, States
<1>2. StatusOf("Scheduled", 0, FALSE) \in Status
  BY DEF StatusOf, Status, States
<1>3. Build(spec, amount, r, rail) \in Campaign
  BY <1>1 DEF Build, Campaign
<1>4. [Build(spec, amount, r, rail) EXCEPT !.status = StatusOf("Scheduled", 0, FALSE)] \in Campaign
  BY <1>2, <1>3 DEF Campaign
<1> QED
  BY <1>3, <1>4

\* A campaign with another status is a campaign.
LEMMA StatusType ==
  ASSUME NEW c \in Campaign, NEW state \in States, NEW seq \in Nat, NEW inFlight \in BOOLEAN
  PROVE  [c EXCEPT !.status = StatusOf(state, seq, inFlight)] \in Campaign
  BY DEF Campaign, Status, StatusOf

\* Retiring an authorization keeps the types of the maps it changes.
LEMMA RetiredType ==
  ASSUME TypeOK, NEW r \in References
  PROVE  /\ Retired(r).authorizations \in [References -> Authorization \cup {None}]
         /\ Retired(r).authById \in [CampaignIds -> References \cup {None}]
         /\ Retired(r).used \subseteq References
  BY DEF Retired, TypeOK

LEMMA TickType == TypeOK /\ Tick => TypeOK'
  BY DEF TypeOK, Tick, escrow, token

LEMMA FundType == TypeOK /\ Fund => TypeOK'
<1> SUFFICES ASSUME TypeOK, Fund PROVE TypeOK'
  OBVIOUS
<1> USE SpecsAssumption, NoneAssumption
<1>1. ASSUME NEW name \in Transfers, NEW spec \in Specs \cup {None}, NEW amount \in Prizes,
             NEW r \in References, NEW deadline \in Deadlines,
             FtTransferCall(name, spec, amount, r, deadline)
      PROVE  TypeOK'
  BY <1>1 DEF TypeOK, FtTransferCall, escrow, Inbound
<1>2. ASSUME NEW t \in inbound, FtOnTransferAccept(t) PROVE TypeOK'
  <2>1. t \in Inbound /\ t.spec \in Spec0 /\ t.amount \in Nat \ {0} /\ t.reference \in References
    BY <1>2 DEF TypeOK, FtOnTransferAccept, Acceptable, Buildable, Inbound
  <2>2. Build(t.spec, t.amount, t.reference, "direct_usdc") \in Campaign
    BY <2>1, BuildType DEF Rails
  <2>3. campaigns' = [campaigns EXCEPT ![t.spec.id] =
                        Build(t.spec, t.amount, t.reference, "direct_usdc")]
    BY <1>2 DEF FtOnTransferAccept
  <2>4. campaigns' \in [CampaignIds -> Campaign \cup {None}]
    BY <2>2, <2>3 DEF TypeOK
  <2> QED
    BY <1>2, <2>1, <2>4 DEF TypeOK, FtOnTransferAccept
<1>3. ASSUME NEW t \in inbound, FtOnTransferReject(t) PROVE TypeOK'
  BY <1>3 DEF TypeOK, FtOnTransferReject, escrow, Inbound
<1>4. ASSUME NEW t \in inbound, FtResolveTransfer(t) PROVE TypeOK'
  BY <1>4 DEF TypeOK, FtResolveTransfer, escrow, Inbound
<1> QED
  BY <1>1, <1>2, <1>3, <1>4 DEF Fund

LEMMA FundExternallyType == TypeOK /\ FundExternally => TypeOK'
<1> SUFFICES ASSUME TypeOK, FundExternally PROVE TypeOK'
  OBVIOUS
<1> USE SpecsAssumption, NoneAssumption
<1>1. ASSUME NEW amount \in Prizes, ProviderDeposit(amount) PROVE TypeOK'
  BY <1>1 DEF TypeOK, ProviderDeposit, escrow
<1>2. ASSUME NEW caller \in Callers, NEW spec \in Specs, NEW amount \in Prizes,
             NEW r \in References, NEW rail \in Rails, NEW deadline \in Deadlines,
             AuthorizeExternalFunding(caller, spec, amount, r, rail, deadline)
      PROVE  TypeOK'
  <2> DEFINE id == spec.id
             old == authById[id]
             campaign == [Build(spec, amount, r, rail)
                            EXCEPT !.status = StatusOf("Scheduled", 0, FALSE)]
             base == IF old # None THEN Retired(old)
                     ELSE [authorizations |-> authorizations, authById |-> authById, used |-> used]
  <2>1. spec \in Spec0 /\ id \in CampaignIds /\ amount \in Nat \ {0} /\ deadline \in Nat
    BY <1>2 DEF AuthorizeExternalFunding, Buildable, Spec0
  <2>2. campaign \in Campaign
    BY <2>1, BuildType
  <2>3. /\ base.authorizations \in [References -> Authorization \cup {None}]
        /\ base.authById \in [CampaignIds -> References \cup {None}]
        /\ base.used \subseteq References
    <3>1. CASE old # None
      BY <3>1, <2>1, RetiredType DEF TypeOK
    <3>2. CASE old = None
      BY <3>2 DEF TypeOK
    <3> QED
      BY <3>1, <3>2
  <2>4. /\ authorizations' = [base.authorizations EXCEPT ![r] = [campaign |-> campaign, deadline |-> deadline]]
        /\ authById' = [base.authById EXCEPT ![id] = r]
        /\ used' = base.used
        /\ UNCHANGED <<now, campaigns, pending, pendingIds, totalReserved, permits, token>>
    BY <1>2 DEF AuthorizeExternalFunding
  <2>5. [campaign |-> campaign, deadline |-> deadline] \in Authorization
    BY <2>1, <2>2 DEF Authorization
  <2> HIDE DEF base, campaign
  <2> QED
    BY <2>1, <2>3, <2>4, <2>5 DEF TypeOK, token
<1>3. ASSUME NEW r \in References, Retire(r) PROVE TypeOK'
  BY <1>3, RetiredType DEF TypeOK, Retire, token
<1>4. ASSUME NEW caller \in Callers, NEW r \in References, NEW id \in CampaignIds,
             ActivateExternalFunding(caller, r, id)
      PROVE  TypeOK'
  BY <1>4 DEF TypeOK, ActivateExternalFunding, Query
<1>5. ASSUME NEW q \in queries, FtBalanceOf(q) PROVE TypeOK'
  BY <1>5 DEF TypeOK, FtBalanceOf, escrow, Query
<1>6. ASSUME NEW q \in queries, OnExternalFundingBalance(q) PROVE TypeOK'
  <2>1. q.reference \in References
    BY DEF TypeOK, Query
  <2>2. CASE pending[q.reference] = None
    BY <1>6, <2>1, <2>2 DEF TypeOK, OnExternalFundingBalance, escrow
  <2>3. CASE pending[q.reference] # None
    <3>1. pending[q.reference] \in Authorization
      BY <2>1, <2>3 DEF TypeOK
    <3>2. /\ pending[q.reference].campaign \in Campaign
          /\ pending[q.reference].campaign.spec.id \in CampaignIds
          /\ pending[q.reference].campaign.amount \in Nat
      BY <3>1 DEF Authorization, Campaign, Spec0
    <3>3. PICK r \in References, id \in CampaignIds, c \in Campaign :
             /\ r = q.reference /\ c = pending[r].campaign /\ id = c.spec.id /\ c.amount \in Nat
      BY <2>1, <3>2
    <3>4. /\ queries' \subseteq queries
          /\ UNCHANGED <<now, permits, vault, payouts, inbound, disbursed>>
          /\ pending' = [pending EXCEPT ![r] = None] /\ pendingIds' = pendingIds \ {id}
          /\ \/ UNCHANGED <<campaigns, used, authorizations, authById, totalReserved>>
             \/ /\ authorizations' = [authorizations EXCEPT ![r] = None]
                /\ authById' = [authById EXCEPT ![id] = None]
                /\ campaigns' = [campaigns EXCEPT ![id] = c]
                /\ used' = used \cup {r}
                /\ totalReserved' = totalReserved + c.amount
      BY <1>6, <2>3, <3>3 DEF OnExternalFundingBalance
    <3>5. pending' \in [References -> Authorization \cup {None}] /\ pendingIds' \subseteq CampaignIds
      BY <3>4 DEF TypeOK
    <3>6. /\ campaigns' \in [CampaignIds -> Campaign \cup {None}]
          /\ authorizations' \in [References -> Authorization \cup {None}]
          /\ authById' \in [CampaignIds -> References \cup {None}]
      BY <3>4 DEF TypeOK
    <3>7. used' \subseteq References /\ totalReserved' \in Nat
      <4>1. c.amount \in Nat /\ totalReserved \in Nat /\ used \subseteq References
        BY <3>3 DEF TypeOK
      <4>2. /\ used' = used \/ used' = used \cup {r}
            /\ totalReserved' = totalReserved \/ totalReserved' = totalReserved + c.amount
        BY <3>4
      <4> QED
        BY <4>1, <4>2
    <3> QED
      BY <3>4, <3>5, <3>6, <3>7 DEF TypeOK
  <2> QED
    BY <2>2, <2>3
<1> QED
  BY <1>1, <1>2, <1>3, <1>4, <1>5, <1>6
     DEF FundExternally, RevokeAuthorization, CleanupAuthorization

\* The payout that a refund starts is a payout of the campaign's prize.
LEMMA RefundPayoutType ==
  ASSUME TypeOK, NEW id \in CampaignIds, campaigns[id] # None, NEW seq \in Nat
  PROVE  PayoutOf(id, "refund", seq, campaigns[id].spec.refundTo, campaigns[id].amount) \in Payout
<1>1. campaigns[id] \in Campaign
  BY DEF TypeOK
<1>2. campaigns[id].spec.refundTo \in Accounts /\ campaigns[id].amount \in Nat
  BY <1>1 DEF Campaign, Spec0
<1> QED
  BY <1>2 DEF PayoutOf, Payout

LEMMA PayOutType == TypeOK /\ PayOut => TypeOK'
<1> SUFFICES ASSUME TypeOK, PayOut PROVE TypeOK'
  OBVIOUS
<1> USE SpecsAssumption, AccountsAssumption, LimitsAssumption, NoneAssumption
<1>1. ASSUME NEW id \in CampaignIds, NEW receiver \in Receivers, NEW nonce \in 0 .. MaxSeq - 1,
             NEW deadline \in Deadlines, SignPermit(id, receiver, nonce, deadline)
      PROVE  TypeOK'
  BY <1>1 DEF TypeOK, SignPermit, escrow, token, Permit
<1>2. ASSUME NEW p \in permits, Claim(p) PROVE TypeOK'
  <2> DEFINE c == campaigns[p.id]
  <2>1. p \in Permit /\ p.id \in CampaignIds /\ p.receiver \in Accounts
    BY DEF TypeOK, Permit
  <2>2. c \in Campaign /\ c.claimNonce \in Nat /\ c.amount \in Nat
    BY <1>2, <2>1 DEF TypeOK, Claim, Campaign
  <2>3. [c EXCEPT !.claimNonce = c.claimNonce + 1,
                  !.status = StatusOf("Claiming", c.claimNonce, TRUE)] \in Campaign
    <3>1. StatusOf("Claiming", c.claimNonce, TRUE) \in Status
      BY <2>2 DEF Status, States, StatusOf
    <3>2. c.claimNonce + 1 \in Nat
      BY <2>2
    <3> QED
      BY <2>2, <3>1, <3>2 DEF Campaign
  <2>4. PayoutOf(p.id, "claim", c.claimNonce, p.receiver, c.amount) \in Payout
    BY <2>1, <2>2 DEF PayoutOf, Payout
  <2>5. /\ campaigns' = [campaigns EXCEPT ![p.id] =
              [c EXCEPT !.claimNonce = c.claimNonce + 1,
                        !.status = StatusOf("Claiming", c.claimNonce, TRUE)]]
        /\ payouts' = payouts \cup {PayoutOf(p.id, "claim", c.claimNonce, p.receiver, c.amount)}
        /\ UNCHANGED <<now, used, authorizations, authById, pending, pendingIds,
                       totalReserved, permits, vault, queries, inbound, disbursed>>
    BY <1>2 DEF Claim
  <2> HIDE DEF c
  <2> QED
    BY <2>1, <2>3, <2>4, <2>5 DEF TypeOK
<1>3. ASSUME NEW id \in CampaignIds, campaigns[id] # None, StartRefund(id) PROVE TypeOK'
  <2>1. campaigns[id] \in Campaign
    BY <1>3 DEF TypeOK
  <2>2. [campaigns[id] EXCEPT !.status = StatusOf("Refunding", 0, TRUE)] \in Campaign
    BY <2>1, StatusType DEF States
  <2>3. PayoutOf(id, "refund", 0, campaigns[id].spec.refundTo, campaigns[id].amount) \in Payout
    BY <1>3, RefundPayoutType
  <2> QED
    BY <1>3, <2>2, <2>3 DEF TypeOK, StartRefund
<1>4. ASSUME NEW id \in CampaignIds, RetryRefund(id) PROVE TypeOK'
  <2>1. campaigns[id] # None /\ campaigns[id] \in Campaign
    BY <1>4 DEF TypeOK, RetryRefund
  <2>2. campaigns[id].status.seq + 1 \in Nat
    BY <2>1 DEF Campaign, Status
  <2>3. [campaigns[id] EXCEPT !.status =
            StatusOf("Refunding", campaigns[id].status.seq + 1, TRUE)] \in Campaign
    BY <2>1, <2>2, StatusType DEF States
  <2>4. PayoutOf(id, "refund", campaigns[id].status.seq + 1,
                 campaigns[id].spec.refundTo, campaigns[id].amount) \in Payout
    BY <2>1, <2>2, RefundPayoutType
  <2> QED
    BY <1>4, <2>3, <2>4 DEF TypeOK, RetryRefund
<1>5. ASSUME NEW m \in payouts, FtTransferOk(m) PROVE TypeOK'
  <2>1. m \in Payout
    BY DEF TypeOK
  <2>2. /\ [m EXCEPT !.reply = "ok"] \in Payout
        /\ [id |-> m.id, kind |-> m.kind, seq |-> m.seq, to |-> m.to, amount |-> m.amount]
              \in Disbursement
        /\ m.amount \in Nat
    BY <2>1 DEF Payout, Disbursement
  <2> QED
    BY <1>5, <2>2 DEF TypeOK, FtTransferOk, escrow
<1>6. ASSUME NEW m \in payouts, FtTransferFail(m) PROVE TypeOK'
  BY <1>6 DEF TypeOK, FtTransferFail, escrow, Payout
<1>7. ASSUME NEW m \in payouts, OnClaimTransfer(m) \/ OnRefundTransfer(m) PROVE TypeOK'
  <2>1. m.id \in CampaignIds /\ m.seq \in Nat
    BY DEF TypeOK, Payout
  <2>2. CASE UNCHANGED <<campaigns, totalReserved>>
    BY <1>7, <2>2 DEF TypeOK, OnClaimTransfer, OnRefundTransfer
  <2>3. CASE ~UNCHANGED <<campaigns, totalReserved>>
    <3>1. ~StaleClaim(m) \/ ~StaleRefund(m)
      BY <1>7, <2>3 DEF OnClaimTransfer, OnRefundTransfer
    <3>2. campaigns[m.id] \in Campaign /\ campaigns[m.id].amount \in Nat
      BY <2>1, <3>1 DEF TypeOK, StaleClaim, StaleRefund, Campaign
    <3>3. PICK state \in States :
             campaigns' = [campaigns EXCEPT ![m.id].status = StatusOf(state, m.seq, FALSE)]
                \/ campaigns' = [campaigns EXCEPT ![m.id].status = StatusOf(state, 0, FALSE)]
      BY <1>7, <2>3 DEF OnClaimTransfer, OnRefundTransfer, States, FailedRefund
    <3>4. campaigns' \in [CampaignIds -> Campaign \cup {None}]
      <4>1. [campaigns[m.id] EXCEPT !.status = StatusOf(state, m.seq, FALSE)] \in Campaign
        BY <2>1, <3>2, StatusType
      <4>2. [campaigns[m.id] EXCEPT !.status = StatusOf(state, 0, FALSE)] \in Campaign
        BY <2>1, <3>2, StatusType
      <4> QED
        BY <2>1, <3>3, <4>1, <4>2 DEF TypeOK
    <3>5. totalReserved' \in Nat
      BY <1>7, <2>3, <3>2 DEF TypeOK, OnClaimTransfer, OnRefundTransfer, Released
    <3>6. /\ payouts' = payouts \ {m}
          /\ UNCHANGED <<now, used, authorizations, authById, pending, pendingIds,
                         permits, vault, queries, inbound, disbursed>>
      BY <1>7 DEF OnClaimTransfer, OnRefundTransfer
    <3> QED
      BY <3>4, <3>5, <3>6 DEF TypeOK
  <2> QED
    BY <2>2, <2>3
<1> QED
  BY <1>1, <1>2, <1>3, <1>4, <1>5, <1>6, <1>7 DEF PayOut, CancelBeforeOpen, ExpireAndRefund

\* Every state of the escrow is well typed: no map ever holds a malformed campaign,
\* authorization or promise, and no counter or balance goes below zero.
THEOREM TypeCorrect == Spec => []TypeOK
<1>1. TypeOK /\ [Next]_vars => TypeOK'
  <2> SUFFICES ASSUME TypeOK, [Next]_vars PROVE TypeOK'
    OBVIOUS
  <2>1. CASE UNCHANGED vars
    BY <2>1 DEF TypeOK, vars, escrow, token
  <2> QED
    BY <2>1, TickType, FundType, FundExternallyType, PayOutType DEF Next
<1> QED
  BY InitTypeOK, <1>1, PTL DEF Spec

-----------------------------------------------------------------------------
(* Payouts.  The inductive invariant ties each payout promise to the status  *)
(* of its campaign and each disbursement to the promise that made it.        *)

\* No authorization carries a campaign that has started to pay.
AuthorizedIdle ==
    \A r \in References :
        /\ authorizations[r] # None => authorizations[r].campaign.status.state = "Scheduled"
        /\ pending[r] # None => pending[r].campaign.status.state = "Scheduled"

\* A payout carries its campaign's prize, and reports success only if it was executed.
PayoutsMatch ==
    \A m \in payouts :
        /\ m.amount = campaigns[m.id].amount
        /\ m.reply = "ok" => \E d \in disbursed : d.id = m.id /\ d.kind = m.kind

PayoutInv ==
    /\ AuthorizedIdle
    /\ PayoutsMatch
    /\ OnePayoutInFlight
    /\ DisbursedOnce
    /\ SettledIsDisbursed

LEMMA InitPayoutInv == Init => PayoutInv
  BY DEF Init, PayoutInv, AuthorizedIdle, PayoutsMatch, OnePayoutInFlight, DisbursedOnce,
         SettledIsDisbursed, AwaitsPayout

\* Steps that touch neither campaigns, payouts and disbursements nor authorizations.
LEMMA PayoutInvUnchanged ==
  ASSUME PayoutInv, UNCHANGED <<campaigns, payouts, disbursed, authorizations, pending>>
  PROVE  PayoutInv'
  BY DEF PayoutInv, AuthorizedIdle, PayoutsMatch, OnePayoutInFlight, DisbursedOnce,
         SettledIsDisbursed, AwaitsPayout, StaleClaim, StaleRefund

\* A new campaign has no payout and no disbursement.
LEMMA NewCampaignPayouts ==
  ASSUME TypeOK, PayoutInv, NEW id \in CampaignIds, NEW c, c # None, campaigns[id] = None,
         c.status.state \in {"Scheduled", "Active"},
         campaigns' = [campaigns EXCEPT ![id] = c],
         UNCHANGED <<payouts, disbursed>>, AuthorizedIdle'
  PROVE  PayoutInv'
<1>1. \A m \in payouts : m.id # id /\ m.id \in CampaignIds
  BY DEF PayoutInv, OnePayoutInFlight, StaleClaim, StaleRefund, TypeOK, Payout
<1>2. \A d \in disbursed : d.id # id /\ d.id \in CampaignIds
  BY DEF PayoutInv, DisbursedOnce, TypeOK, Disbursement
<1>3. campaigns'[id] = c /\ \A i \in CampaignIds \ {id} : campaigns'[i] = campaigns[i]
  BY DEF TypeOK
<1>4. PayoutsMatch'
  BY <1>1, <1>3 DEF PayoutInv, PayoutsMatch
<1>5. OnePayoutInFlight'
  BY <1>1, <1>3 DEF PayoutInv, OnePayoutInFlight, AwaitsPayout, StaleClaim, StaleRefund
<1>6. DisbursedOnce'
  BY <1>2, <1>3 DEF PayoutInv, DisbursedOnce
<1>7. SettledIsDisbursed'
  BY <1>3 DEF PayoutInv, SettledIsDisbursed
<1> QED
  BY <1>4, <1>5, <1>6, <1>7 DEF PayoutInv

\* A campaign that waits for no payout and is not settled may start one.
LEMMA StartPayout ==
  ASSUME TypeOK, PayoutInv, NEW id \in CampaignIds, campaigns[id] # None,
         ~AwaitsPayout(campaigns[id]), campaigns[id].status.state \notin {"Claimed", "Refunded"},
         NEW c, c # None, c.amount = campaigns[id].amount,
         NEW m, m.id = id, m.reply = "sent", m.amount = campaigns[id].amount, c.status.seq = m.seq,
         \/ m.kind = "claim" /\ c.status.state = "Claiming"
         \/ m.kind = "refund" /\ c.status.state = "Refunding" /\ c.status.inFlight,
         campaigns' = [campaigns EXCEPT ![id] = c], payouts' = payouts \cup {m},
         UNCHANGED <<authorizations, pending, disbursed>>
  PROVE  PayoutInv'
<1>1. \A x \in payouts : x.id # id /\ x.id \in CampaignIds /\ x.kind \in {"claim", "refund"}
  BY DEF PayoutInv, OnePayoutInFlight, StaleClaim, StaleRefund, TypeOK, Payout, AwaitsPayout
<1>2. \A d \in disbursed : d.id # id /\ d.id \in CampaignIds
  BY <1>1 DEF PayoutInv, DisbursedOnce, TypeOK, Disbursement
<1>3. campaigns'[id] = c /\ \A i \in CampaignIds \ {id} : campaigns'[i] = campaigns[i]
  BY DEF TypeOK
<1>4. PayoutsMatch'
  BY <1>1, <1>3 DEF PayoutInv, PayoutsMatch
<1>5. OnePayoutInFlight'
  <2>1. ASSUME NEW x \in payouts'
        PROVE  (x.kind = "claim" => ~StaleClaim(x)') /\ (x.kind = "refund" => ~StaleRefund(x)')
    <3>1. CASE x = m
      BY <1>3, <3>1 DEF StaleClaim, StaleRefund
    <3>2. CASE x \in payouts
      BY <1>1, <1>3, <3>2 DEF PayoutInv, OnePayoutInFlight, StaleClaim, StaleRefund
    <3> QED
      BY <2>1, <3>1, <3>2
  <2>2. ASSUME NEW x \in payouts', NEW y \in payouts', x.id = y.id PROVE x = y
    BY <1>1, <2>2 DEF PayoutInv, OnePayoutInFlight
  <2>3. ASSUME NEW i \in CampaignIds, AwaitsPayout(campaigns'[i]) PROVE \E x \in payouts' : x.id = i
    BY <1>3, <2>3 DEF PayoutInv, OnePayoutInFlight, AwaitsPayout
  <2> QED
    BY <2>1, <2>2, <2>3 DEF OnePayoutInFlight
<1>6. DisbursedOnce'
  BY <1>2, <1>3 DEF PayoutInv, DisbursedOnce
<1>7. SettledIsDisbursed'
  BY <1>3 DEF PayoutInv, SettledIsDisbursed
<1>8. AuthorizedIdle'
  BY DEF PayoutInv, AuthorizedIdle
<1> QED
  BY <1>4, <1>5, <1>6, <1>7, <1>8 DEF PayoutInv

\* A payout callback that settles or reopens its campaign, or is stale.
LEMMA PayoutCallback ==
  ASSUME TypeOK, PayoutInv, NEW m \in payouts, m.reply # "sent", NEW status \in Status,
         campaigns' = [campaigns EXCEPT ![m.id].status = status],
         \/ /\ m.reply = "ok"
            /\ status.state = IF m.kind = "claim" THEN "Claimed" ELSE "Refunded"
         \/ /\ m.reply = "failed"
            /\ status.state = "Active" \/ (status.state = "Refunding" /\ ~status.inFlight),
         payouts' = payouts \ {m}, UNCHANGED <<authorizations, pending, disbursed>>
  PROVE  PayoutInv'
<1>1. m.id \in CampaignIds /\ m.kind \in {"claim", "refund"}
  BY DEF TypeOK, Payout
<1>2. campaigns[m.id] \in Campaign /\ campaigns[m.id] # None
  BY <1>1 DEF PayoutInv, OnePayoutInFlight, StaleClaim, StaleRefund, TypeOK
<1>3. /\ campaigns'[m.id] = [campaigns[m.id] EXCEPT !.status = status]
      /\ \A i \in CampaignIds \ {m.id} : campaigns'[i] = campaigns[i]
  BY <1>1 DEF TypeOK
<1>4. /\ campaigns'[m.id].status = status
      /\ campaigns'[m.id].amount = campaigns[m.id].amount
      /\ campaigns'[m.id] # None
  <2>1. \A c \in Campaign : [c EXCEPT !.status = status].status = status
                          /\ [c EXCEPT !.status = status].amount = c.amount
                          /\ [c EXCEPT !.status = status] \in Campaign
    BY DEF Campaign
  <2> QED
    BY <1>2, <1>3, <2>1, NoneAssumption
<1>5. \A x \in payouts' : x \in payouts /\ x.id # m.id /\ x.id \in CampaignIds
  BY DEF PayoutInv, OnePayoutInFlight, TypeOK, Payout
<1>6. \A d \in disbursed : d.id = m.id => m.reply = "ok" /\ d.kind = m.kind
  <2>1. ASSUME NEW d \in disbursed, d.id = m.id PROVE m.reply = "ok" /\ d.kind = m.kind
    <3>1. campaigns[m.id].status.state \notin {"Claimed", "Refunded"}
      BY <1>1 DEF PayoutInv, OnePayoutInFlight, StaleClaim, StaleRefund
    <3>2. m.reply = "ok"
      BY <2>1, <3>1 DEF PayoutInv, DisbursedOnce, OnePayoutInFlight
    <3> QED
      BY <2>1, <3>2 DEF PayoutInv, DisbursedOnce, PayoutsMatch
  <2> QED
    BY <2>1
<1>7. PayoutsMatch'
  BY <1>3, <1>5 DEF PayoutInv, PayoutsMatch
<1>8. OnePayoutInFlight'
  <2>1. ASSUME NEW x \in payouts'
        PROVE  (x.kind = "claim" => ~StaleClaim(x)') /\ (x.kind = "refund" => ~StaleRefund(x)')
    BY <1>3, <1>5 DEF PayoutInv, OnePayoutInFlight, StaleClaim, StaleRefund
  <2>2. ASSUME NEW i \in CampaignIds, AwaitsPayout(campaigns'[i]) PROVE \E x \in payouts' : x.id = i
    <3>1. i # m.id
      BY <1>4, <2>2 DEF AwaitsPayout
    <3> QED
      BY <1>3, <2>2, <3>1 DEF PayoutInv, OnePayoutInFlight
  <2> QED
    BY <1>5, <2>1, <2>2 DEF PayoutInv, OnePayoutInFlight
<1>9. DisbursedOnce'
  <2>1. ASSUME NEW d \in disbursed
        PROVE  /\ campaigns'[d.id] # None
               /\ d.amount = campaigns'[d.id].amount
               /\ \/ campaigns'[d.id].status.state \in {"Claimed", "Refunded"}
                  \/ \E x \in payouts' : x.id = d.id /\ x.reply = "ok"
    <3>1. d.id \in CampaignIds
      BY DEF TypeOK, Disbursement
    <3>2. CASE d.id = m.id
      BY <1>4, <1>6, <2>1, <3>2 DEF PayoutInv, DisbursedOnce
    <3>3. CASE d.id # m.id
      BY <1>3, <2>1, <3>1, <3>3 DEF PayoutInv, DisbursedOnce
    <3> QED
      BY <3>2, <3>3
  <2> QED
    BY <2>1 DEF PayoutInv, DisbursedOnce
<1>10. SettledIsDisbursed'
  <2>1. ASSUME NEW i \in CampaignIds, campaigns'[i] # None,
               campaigns'[i].status.state \in {"Claimed", "Refunded"}
        PROVE  \E d \in disbursed :
                  /\ d.id = i
                  /\ d.kind = IF campaigns'[i].status.state = "Claimed" THEN "claim" ELSE "refund"
    <3>1. CASE i = m.id
      <4>1. m.reply = "ok" /\ campaigns'[i].status.state = IF m.kind = "claim" THEN "Claimed" ELSE "Refunded"
        BY <1>4, <2>1, <3>1
      <4>2. PICK d \in disbursed : d.id = m.id /\ d.kind = m.kind
        BY <4>1 DEF PayoutInv, PayoutsMatch
      <4> QED
        BY <1>1, <3>1, <4>1, <4>2
    <3>2. CASE i # m.id
      BY <1>3, <2>1, <3>2 DEF PayoutInv, SettledIsDisbursed
    <3> QED
      BY <3>1, <3>2
  <2> QED
    BY <2>1 DEF SettledIsDisbursed
<1>11. AuthorizedIdle'
  BY DEF PayoutInv, AuthorizedIdle
<1> QED
  BY <1>7, <1>8, <1>9, <1>10, <1>11 DEF PayoutInv

\* The USDC contract answers a payout: only then does a disbursement appear.
LEMMA FtTransferInv ==
  ASSUME TypeOK, PayoutInv, NEW m \in payouts, FtTransferOk(m) \/ FtTransferFail(m)
  PROVE  PayoutInv'
<1>1. m \in Payout /\ m.id \in CampaignIds /\ m.kind \in {"claim", "refund"} /\ m.reply = "sent"
  BY DEF TypeOK, Payout, FtTransferOk, FtTransferFail
<1> DEFINE n(r) == [m EXCEPT !.reply = r]
<1>2. PICK r \in {"ok", "failed"} :
         /\ payouts' = (payouts \ {m}) \cup {n(r)}
         /\ disbursed' = IF r = "ok"
                         THEN disbursed \cup {[id |-> m.id, kind |-> m.kind, seq |-> m.seq,
                                                to |-> m.to, amount |-> m.amount]}
                         ELSE disbursed
  BY DEF FtTransferOk, FtTransferFail
<1>3. UNCHANGED <<campaigns, authorizations, pending>>
  BY DEF FtTransferOk, FtTransferFail, escrow
<1>4. /\ n(r).id = m.id /\ n(r).kind = m.kind /\ n(r).seq = m.seq
      /\ n(r).amount = m.amount /\ n(r).reply = r
  BY <1>1 DEF Payout
<1> HIDE DEF n
<1>5. campaigns[m.id] # None /\ campaigns[m.id].status.state \notin {"Claimed", "Refunded"}
  BY <1>1 DEF PayoutInv, OnePayoutInFlight, StaleClaim, StaleRefund
<1>6. \A d \in disbursed : d.id # m.id
  BY <1>1, <1>5 DEF PayoutInv, DisbursedOnce, OnePayoutInFlight
<1>7. PayoutsMatch'
  <2>1. ASSUME NEW x \in payouts', x.reply = "ok" PROVE \E d \in disbursed' : d.id = x.id /\ d.kind = x.kind
    <3>1. CASE x = n(r)
      <4>1. r = "ok"
        BY <1>4, <2>1, <3>1
      <4> DEFINE d == [id |-> m.id, kind |-> m.kind, seq |-> m.seq, to |-> m.to, amount |-> m.amount]
      <4>2. d \in disbursed' /\ d.id = x.id /\ d.kind = x.kind
        BY <1>2, <1>4, <3>1, <4>1
      <4> QED
        BY <4>2
    <3>2. CASE x \in payouts
      BY <1>2, <2>1, <3>2 DEF PayoutInv, PayoutsMatch
    <3> QED
      BY <1>2, <2>1, <3>1, <3>2
  <2>2. ASSUME NEW x \in payouts' PROVE x.amount = campaigns'[x.id].amount
    BY <1>2, <1>3, <1>4, <2>2 DEF PayoutInv, PayoutsMatch
  <2> QED
    BY <2>1, <2>2 DEF PayoutsMatch
<1>8. OnePayoutInFlight'
  <2>1. ASSUME NEW x \in payouts'
        PROVE  (x.kind = "claim" => ~StaleClaim(x)') /\ (x.kind = "refund" => ~StaleRefund(x)')
    BY <1>2, <1>3, <1>4 DEF PayoutInv, OnePayoutInFlight, StaleClaim, StaleRefund
  <2>2. ASSUME NEW x \in payouts', NEW y \in payouts', x.id = y.id PROVE x = y
    BY <1>2, <1>4, <2>2 DEF PayoutInv, OnePayoutInFlight
  <2>3. ASSUME NEW i \in CampaignIds, AwaitsPayout(campaigns'[i]) PROVE \E x \in payouts' : x.id = i
    BY <1>2, <1>3, <1>4, <2>3 DEF PayoutInv, OnePayoutInFlight
  <2> QED
    BY <2>1, <2>2, <2>3 DEF OnePayoutInFlight
<1>9. DisbursedOnce'
  <2>1. CASE r = "failed"
    BY <1>1, <1>2, <1>3, <1>4, <1>6, <2>1 DEF PayoutInv, DisbursedOnce
  <2>2. CASE r = "ok"
    <3>1. m.amount = campaigns[m.id].amount
      BY DEF PayoutInv, PayoutsMatch
    <3>2. n(r) \in payouts' /\ n(r).id = m.id /\ n(r).reply = "ok"
      BY <1>2, <1>4, <2>2
    <3> QED
      BY <1>1, <1>2, <1>3, <1>5, <1>6, <2>2, <3>1, <3>2 DEF PayoutInv, DisbursedOnce
  <2> QED
    BY <2>1, <2>2
<1>10. SettledIsDisbursed'
  BY <1>2, <1>3 DEF PayoutInv, SettledIsDisbursed
<1>11. AuthorizedIdle'
  BY <1>3 DEF PayoutInv, AuthorizedIdle
<1> QED
  BY <1>7, <1>8, <1>9, <1>10, <1>11 DEF PayoutInv

LEMMA FundPayouts == TypeOK /\ PayoutInv /\ Fund => PayoutInv'
<1> SUFFICES ASSUME TypeOK, PayoutInv, Fund PROVE PayoutInv'
  OBVIOUS
<1>1. ASSUME NEW t \in inbound, FtOnTransferAccept(t) PROVE PayoutInv'
  <2>1. t \in Inbound /\ t.spec \in Spec0 /\ t.spec.id \in CampaignIds
        /\ t.amount \in Nat \ {0} /\ t.reference \in References /\ campaigns[t.spec.id] = None
    BY <1>1 DEF TypeOK, FtOnTransferAccept, Acceptable, Buildable, Inbound, Spec0
  <2> DEFINE c == Build(t.spec, t.amount, t.reference, "direct_usdc")
  <2>2. c # None
    BY <2>1, BuildType, NoneAssumption DEF Rails
  <2>3. c.status.state \in {"Scheduled", "Active"}
    BY DEF Build, StatusOf
  <2>4. campaigns' = [campaigns EXCEPT ![t.spec.id] = c]
        /\ UNCHANGED <<payouts, disbursed, authorizations, pending>>
    BY <1>1 DEF FtOnTransferAccept
  <2>5. AuthorizedIdle'
    BY <2>4 DEF PayoutInv, AuthorizedIdle
  <2> HIDE DEF c
  <2> QED
    BY <2>1, <2>2, <2>3, <2>4, <2>5, NewCampaignPayouts
<1>2. CASE UNCHANGED <<campaigns, payouts, disbursed, authorizations, pending>>
  BY <1>2, PayoutInvUnchanged
<1> QED
  BY <1>1, <1>2 DEF Fund, FtTransferCall, FtOnTransferReject, FtResolveTransfer, escrow

LEMMA FundExternallyPayouts == TypeOK /\ PayoutInv /\ FundExternally => PayoutInv'
<1> SUFFICES ASSUME TypeOK, PayoutInv, FundExternally PROVE PayoutInv'
  OBVIOUS
\* Steps on authorizations only.
<1>1. ASSUME AuthorizedIdle', UNCHANGED <<campaigns, payouts, disbursed>> PROVE PayoutInv'
  BY <1>1 DEF PayoutInv, PayoutsMatch, OnePayoutInFlight, DisbursedOnce,
              SettledIsDisbursed, AwaitsPayout, StaleClaim, StaleRefund
<1>2. ASSUME NEW caller \in Callers, NEW spec \in Specs, NEW amount \in Prizes,
             NEW r \in References, NEW rail \in Rails, NEW deadline \in Deadlines,
             AuthorizeExternalFunding(caller, spec, amount, r, rail, deadline)
      PROVE  PayoutInv'
  <2> DEFINE campaign == [Build(spec, amount, r, rail)
                            EXCEPT !.status = StatusOf("Scheduled", 0, FALSE)]
             old == authById[spec.id]
             base == IF old # None THEN Retired(old)
                     ELSE [authorizations |-> authorizations, authById |-> authById, used |-> used]
  <2>1. authorizations' = [base.authorizations EXCEPT ![r] = [campaign |-> campaign, deadline |-> deadline]]
        /\ UNCHANGED <<campaigns, pending, payouts, disbursed>>
    BY <1>2 DEF AuthorizeExternalFunding, token
  <2>2. campaign.status.state = "Scheduled"
    BY DEF Build, StatusOf
  <2>3. /\ base.authorizations \in [References -> Authorization \cup {None}]
        /\ \A x \in References : base.authorizations[x] \in {authorizations[x], None}
    BY RetiredType, SpecsAssumption DEF Retired, TypeOK, Spec0
  <2> HIDE DEF campaign, base
  <2>4. ASSUME NEW x \in References, authorizations'[x] # None
        PROVE  authorizations'[x].campaign.status.state = "Scheduled"
    <3>1. CASE x = r
      BY <2>1, <2>2, <2>3, <3>1
    <3>2. CASE x # r
      BY <2>1, <2>3, <2>4, <3>2 DEF PayoutInv, AuthorizedIdle
    <3> QED
      BY <3>1, <3>2
  <2> QED
    BY <1>1, <2>1, <2>4 DEF PayoutInv, AuthorizedIdle
<1>3. ASSUME NEW r \in References, Retire(r) PROVE PayoutInv'
  <2>1. AuthorizedIdle'
    BY <1>3 DEF PayoutInv, AuthorizedIdle, Retire, Retired, TypeOK
  <2> QED
    BY <1>1, <1>3, <2>1 DEF Retire, token
<1>4. ASSUME NEW caller \in Callers, NEW r \in References, NEW id \in CampaignIds,
             ActivateExternalFunding(caller, r, id)
      PROVE  PayoutInv'
  <2>1. AuthorizedIdle'
    BY <1>4 DEF PayoutInv, AuthorizedIdle, ActivateExternalFunding, TypeOK
  <2> QED
    BY <1>1, <1>4, <2>1 DEF ActivateExternalFunding
<1>5. ASSUME NEW q \in queries, OnExternalFundingBalance(q) PROVE PayoutInv'
  <2> DEFINE auth == pending[q.reference]
             id == auth.campaign.spec.id
  <2>1. q.reference \in References
    BY DEF TypeOK, Query
  <2>2. AuthorizedIdle'
    BY <1>5, <2>1 DEF PayoutInv, AuthorizedIdle, OnExternalFundingBalance, escrow, TypeOK
  <2>3. UNCHANGED <<payouts, disbursed>>
    BY <1>5 DEF OnExternalFundingBalance
  <2>4. CASE UNCHANGED campaigns
    BY <1>1, <2>2, <2>3, <2>4
  <2>5. CASE ~UNCHANGED campaigns
    <3>1. auth # None /\ Proves(q, auth) /\ campaigns' = [campaigns EXCEPT ![id] = auth.campaign]
      BY <1>5, <2>5 DEF OnExternalFundingBalance, escrow
    <3>2. auth \in Authorization /\ auth.campaign \in Campaign /\ id \in CampaignIds
      BY <2>1, <3>1 DEF TypeOK, Authorization, Campaign, Spec0
    <3>3. campaigns[id] = None /\ auth.campaign # None
      BY <3>1, <3>2, NoneAssumption DEF Proves
    <3>4. auth.campaign.status.state = "Scheduled"
      BY <2>1, <3>1 DEF PayoutInv, AuthorizedIdle
    <3> HIDE DEF auth, id
    <3> QED
      BY <2>2, <2>3, <3>1, <3>2, <3>3, <3>4, NewCampaignPayouts
  <2> QED
    BY <2>4, <2>5
<1>6. CASE UNCHANGED <<campaigns, payouts, disbursed, authorizations, pending>>
  BY <1>6, PayoutInvUnchanged
<1> QED
  BY <1>2, <1>3, <1>4, <1>5, <1>6
     DEF FundExternally, ProviderDeposit, RevokeAuthorization, CleanupAuthorization, FtBalanceOf, escrow

LEMMA PayOutPayouts == TypeOK /\ PayoutInv /\ PayOut => PayoutInv'
<1> SUFFICES ASSUME TypeOK, PayoutInv, PayOut PROVE PayoutInv'
  OBVIOUS
<1>1. ASSUME NEW p \in permits, Claim(p) PROVE PayoutInv'
  <2> DEFINE c == campaigns[p.id]
             d == [c EXCEPT !.claimNonce = c.claimNonce + 1,
                            !.status = StatusOf("Claiming", c.claimNonce, TRUE)]
             m == PayoutOf(p.id, "claim", c.claimNonce, p.receiver, c.amount)
  <2>1. p.id \in CampaignIds /\ c \in Campaign /\ c # None /\ Open(c)
    BY <1>1 DEF TypeOK, Permit, Claim
  <2>2. d.amount = c.amount /\ d.status = StatusOf("Claiming", c.claimNonce, TRUE)
    BY <2>1 DEF Campaign
  <2>3. d # None
    <3>1. d \in [spec : Spec0, amount : Nat \ {0}, rail : Rails, reference : References,
                 claimNonce : Nat, status : Status]
      <4>1. c.claimNonce \in Nat /\ c.claimNonce + 1 \in Nat
        BY <2>1 DEF Campaign
      <4>2. StatusOf("Claiming", c.claimNonce, TRUE) \in Status
        BY <4>1 DEF StatusOf, Status, States
      <4> QED
        BY <2>1, <4>1, <4>2 DEF Campaign
    <3> QED
      BY <3>1, NoneAssumption DEF Campaign
  <2>4. /\ m.id = p.id /\ m.reply = "sent" /\ m.amount = c.amount /\ m.kind = "claim"
        /\ m.seq = c.claimNonce
    BY DEF PayoutOf
  <2>5. d.status.seq = c.claimNonce /\ d.status.state = "Claiming"
    BY <2>2 DEF StatusOf
  <2>6. campaigns' = [campaigns EXCEPT ![p.id] = d] /\ payouts' = payouts \cup {m}
        /\ UNCHANGED <<authorizations, pending, disbursed>>
    BY <1>1 DEF Claim
  <2>7. ~AwaitsPayout(c) /\ c.status.state \notin {"Claimed", "Refunded"}
    BY <2>1 DEF Open, AwaitsPayout
  <2> HIDE DEF d, m
  <2> QED
    BY <2>1, <2>2, <2>3, <2>4, <2>5, <2>6, <2>7, StartPayout
\* start_refund and retry_refund start attempt number seq.
<1>2. ASSUME NEW id \in CampaignIds, NEW seq \in Nat, campaigns[id] # None,
             Open(campaigns[id]) \/ Retryable(campaigns[id]),
             campaigns' = [campaigns EXCEPT ![id] =
                [campaigns[id] EXCEPT !.status = StatusOf("Refunding", seq, TRUE)]],
             payouts' = payouts \cup
                {PayoutOf(id, "refund", seq, campaigns[id].spec.refundTo, campaigns[id].amount)},
             UNCHANGED <<authorizations, pending, disbursed>>
      PROVE  PayoutInv'
  <2> DEFINE c == campaigns[id]
             d == [c EXCEPT !.status = StatusOf("Refunding", seq, TRUE)]
             m == PayoutOf(id, "refund", seq, c.spec.refundTo, c.amount)
  <2>1. c \in Campaign
    BY <1>2 DEF TypeOK
  <2>2. d # None /\ d.amount = c.amount /\ d.status = StatusOf("Refunding", seq, TRUE)
    <3>1. d \in Campaign
      BY <2>1, StatusType DEF States
    <3> QED
      BY <2>1, <3>1, NoneAssumption DEF Campaign
  <2>3. /\ m.id = id /\ m.reply = "sent" /\ m.amount = c.amount /\ m.kind = "refund"
        /\ m.seq = seq
    BY DEF PayoutOf
  <2>4. d.status.seq = seq /\ d.status.state = "Refunding" /\ d.status.inFlight
    BY <2>2 DEF StatusOf
  <2>5. ~AwaitsPayout(c) /\ c.status.state \notin {"Claimed", "Refunded"}
    BY <1>2 DEF Open, Retryable, AwaitsPayout
  <2>6. /\ campaigns' = [campaigns EXCEPT ![id] = d] /\ payouts' = payouts \cup {m}
        /\ UNCHANGED <<authorizations, pending, disbursed>>
        /\ c # None /\ id \in CampaignIds
    BY <1>2
  <2> HIDE DEF d, m
  <2> QED
    BY <2>2, <2>3, <2>4, <2>5, <2>6, StartPayout
<1>3. ASSUME NEW id \in CampaignIds, campaigns[id] # None, Open(campaigns[id]), StartRefund(id)
      PROVE  PayoutInv'
  BY <1>2, <1>3 DEF StartRefund
<1>4. ASSUME NEW id \in CampaignIds, RetryRefund(id) PROVE PayoutInv'
  <2>1. campaigns[id].status.seq + 1 \in Nat
    BY <1>4 DEF RetryRefund, TypeOK, Campaign, Status
  <2> QED
    BY <1>2, <1>4, <2>1 DEF RetryRefund
<1>5. ASSUME NEW m \in payouts, FtTransferOk(m) \/ FtTransferFail(m) PROVE PayoutInv'
  BY <1>5, FtTransferInv
<1>6. ASSUME NEW m \in payouts, OnClaimTransfer(m) PROVE PayoutInv'
  <2>1. ~StaleClaim(m) /\ m.reply # "sent" /\ m.kind = "claim" /\ m.seq \in Nat
        /\ m.reply \in {"ok", "failed"}
    BY <1>6 DEF OnClaimTransfer, PayoutInv, OnePayoutInFlight, TypeOK, Payout
  <2>2. payouts' = payouts \ {m} /\ UNCHANGED <<authorizations, pending, disbursed>>
    BY <1>6 DEF OnClaimTransfer
  <2>3. PICK status \in Status :
           /\ campaigns' = [campaigns EXCEPT ![m.id].status = status]
           /\ \/ m.reply = "ok" /\ status.state = "Claimed"
              \/ m.reply = "failed" /\ status.state = "Active"
    <3>1. StatusOf("Claimed", m.seq, FALSE) \in Status /\ StatusOf("Active", 0, FALSE) \in Status
      BY <2>1 DEF StatusOf, Status, States
    <3>2. StatusOf("Claimed", m.seq, FALSE).state = "Claimed" /\ StatusOf("Active", 0, FALSE).state = "Active"
      BY DEF StatusOf
    <3> QED
      BY <1>6, <2>1, <3>1, <3>2 DEF OnClaimTransfer, Succeeded
  <2> QED
    BY <2>1, <2>2, <2>3, PayoutCallback
<1>7. ASSUME NEW m \in payouts, OnRefundTransfer(m) PROVE PayoutInv'
  <2>1. ~StaleRefund(m) /\ m.reply # "sent" /\ m.kind = "refund" /\ m.seq \in Nat
        /\ m.reply \in {"ok", "failed"}
    BY <1>7 DEF OnRefundTransfer, PayoutInv, OnePayoutInFlight, TypeOK, Payout
  <2>2. payouts' = payouts \ {m} /\ UNCHANGED <<authorizations, pending, disbursed>>
    BY <1>7 DEF OnRefundTransfer
  <2>3. PICK status \in Status :
           /\ campaigns' = [campaigns EXCEPT ![m.id].status = status]
           /\ \/ m.reply = "ok" /\ status.state = "Refunded"
              \/ m.reply = "failed" /\ status.state = "Refunding" /\ ~status.inFlight
    <3>1. StatusOf("Refunded", 0, FALSE) \in Status /\ FailedRefund(m) \in Status
      BY <2>1 DEF StatusOf, Status, States, FailedRefund
    <3>2. /\ StatusOf("Refunded", 0, FALSE).state = "Refunded"
          /\ FailedRefund(m).state = "Refunding" /\ ~FailedRefund(m).inFlight
      BY DEF StatusOf, FailedRefund
    <3> QED
      BY <1>7, <2>1, <3>1, <3>2 DEF OnRefundTransfer, Succeeded
  <2> QED
    BY <2>1, <2>2, <2>3, PayoutCallback
<1>8. CASE UNCHANGED <<campaigns, payouts, disbursed, authorizations, pending>>
  BY <1>8, PayoutInvUnchanged
<1>9. ASSUME NEW id \in CampaignIds, NEW receiver \in Receivers, NEW nonce \in 0 .. MaxSeq - 1,
             NEW deadline \in Deadlines, SignPermit(id, receiver, nonce, deadline)
      PROVE  PayoutInv'
  BY <1>8, <1>9 DEF SignPermit, escrow, token
<1>10. ASSUME NEW caller \in Callers, NEW id \in CampaignIds, CancelBeforeOpen(caller, id)
       PROVE  PayoutInv'
  BY <1>3, <1>10 DEF CancelBeforeOpen, Open
<1>11. ASSUME NEW id \in CampaignIds, ExpireAndRefund(id) PROVE PayoutInv'
  BY <1>3, <1>11 DEF ExpireAndRefund
<1> QED
  BY <1>1, <1>4, <1>5, <1>6, <1>7, <1>9, <1>10, <1>11 DEF PayOut

LEMMA PayoutInvariant == Spec => []PayoutInv
<1>1. TypeOK /\ PayoutInv /\ [Next]_vars => PayoutInv'
  <2> SUFFICES ASSUME TypeOK, PayoutInv, [Next]_vars PROVE PayoutInv'
    OBVIOUS
  <2>1. CASE UNCHANGED vars \/ Tick
    BY <2>1, PayoutInvUnchanged DEF vars, escrow, token, Tick
  <2> QED
    BY <2>1, FundPayouts, FundExternallyPayouts, PayOutPayouts DEF Next
<1> QED
  BY InitPayoutInv, TypeCorrect, <1>1, PTL DEF Spec

\* No interleaving of claims, failures, retries, expiry and callbacks makes the USDC
\* contract transfer a campaign's prize twice.
THEOREM PrizeDisbursedOnce == Spec => []DisbursedOnce
<1>1. PayoutInv => DisbursedOnce
  BY DEF PayoutInv
<1> QED
  BY PayoutInvariant, <1>1, PTL

\* Every campaign that waits for a callback has exactly one promise under way, and
\* no callback arrives stale.
THEOREM PayoutsNeverStale == Spec => []OnePayoutInFlight
<1>1. PayoutInv => OnePayoutInFlight
  BY DEF PayoutInv
<1> QED
  BY PayoutInvariant, <1>1, PTL

\* A campaign that says it is claimed or refunded was disbursed in that way.
THEOREM SettledMeansDisbursed == Spec => []SettledIsDisbursed
<1>1. PayoutInv => SettledIsDisbursed
  BY DEF PayoutInv
<1> QED
  BY PayoutInvariant, <1>1, PTL

\* All three: one payout under way, one payout out, and a status that says which.
THEOREM PayoutsAreSafe == Spec => []PayoutsSafe
  BY PrizeDisbursedOnce, PayoutsNeverStale, SettledMeansDisbursed, PTL DEF PayoutsSafe

-----------------------------------------------------------------------------
(* A sum of amounts counted as a set of units: an amount a held under a key  *)
(* k is the block of pairs {k} \X 1..a, and a total is the cardinality of    *)
(* the union of the blocks.                                                *)

Block(k, a) == {k} \X (1 .. a)

\* A block has as many units as its amount.
LEMMA BlockSize ==
  ASSUME NEW k, NEW a \in Nat
  PROVE  IsFiniteSet(Block(k, a)) /\ Cardinality(Block(k, a)) = a
<1>1. IsFiniteSet({k}) /\ Cardinality({k}) = 1
  BY FS_Singleton
<1>2. IsFiniteSet(1 .. a) /\ Cardinality(1 .. a) = a
  <2>1. 1 \in Int /\ a \in Int
    OBVIOUS
  <2>2. /\ IsFiniteSet(1 .. a)
        /\ Cardinality(1 .. a) = IF 1 > a THEN 0 ELSE a - 1 + 1
    BY <2>1, FS_Interval
  <2> QED
    BY <2>2
<1>3. /\ IsFiniteSet({k} \X (1 .. a))
      /\ Cardinality({k} \X (1 .. a)) = Cardinality({k}) * Cardinality(1 .. a)
  BY <1>1, <1>2, FS_Product, Zenon
<1> QED
  BY <1>1, <1>2, <1>3 DEF Block

\* Adding the block of a key that has none adds its amount.
LEMMA AddBlock ==
  ASSUME NEW S, IsFiniteSet(S), NEW k, NEW a \in Nat, \A u : <<k, u>> \notin S
  PROVE  IsFiniteSet(S \cup Block(k, a)) /\ Cardinality(S \cup Block(k, a)) = Cardinality(S) + a
<1>1. S \cap Block(k, a) = {}
  BY DEF Block
<1>2. IsFiniteSet(Block(k, a)) /\ Cardinality(Block(k, a)) = a
  BY BlockSize
<1>3. Cardinality(S \cap Block(k, a)) = 0
  BY <1>1, FS_EmptySet
<1>4. Cardinality(S) \in Nat
  BY FS_CardinalityType
<1>5. /\ IsFiniteSet(S \cup Block(k, a))
      /\ Cardinality(S \cup Block(k, a))
            = Cardinality(S) + Cardinality(Block(k, a)) - Cardinality(S \cap Block(k, a))
  BY <1>2, FS_Union
<1> QED
  BY <1>2, <1>3, <1>4, <1>5

\* Removing a block that is there removes its amount.
LEMMA RemoveBlock ==
  ASSUME NEW S, IsFiniteSet(S), NEW k, NEW a \in Nat, Block(k, a) \subseteq S
  PROVE  IsFiniteSet(S \ Block(k, a)) /\ Cardinality(S \ Block(k, a)) = Cardinality(S) - a
<1>1. S \cap Block(k, a) = Block(k, a)
  OBVIOUS
<1>2. Cardinality(Block(k, a)) = a
  BY BlockSize
<1>3. /\ IsFiniteSet(S \ Block(k, a))
      /\ Cardinality(S \ Block(k, a)) = Cardinality(S) - Cardinality(S \cap Block(k, a))
  BY FS_Difference
<1> QED
  BY <1>1, <1>2, <1>3

\* The units of amounts: P is a set of pairs of a key and its amount.
UnitsIn(P) == UNION {Block(p[1], p[2]) : p \in P}

KeysOnce(P) == \A p, q \in P : p[1] = q[1] => p = q

\* One more key adds its amount.
LEMMA AddAmount ==
  ASSUME NEW P, IsFiniteSet(UnitsIn(P)), NEW k, NEW a \in Nat, \A p \in P : p[1] # k
  PROVE  /\ IsFiniteSet(UnitsIn(P \cup {<<k, a>>}))
         /\ Cardinality(UnitsIn(P \cup {<<k, a>>})) = Cardinality(UnitsIn(P)) + a
<1> DEFINE S == UnitsIn(P)
           Q == P \cup {<<k, a>>}
<1>1. UnitsIn(Q) = S \cup Block(k, a)
  <2>1. \A p \in Q : p \in P \/ (p[1] = k /\ p[2] = a)
    OBVIOUS
  <2>2. <<k, a>> \in Q /\ <<k, a>>[1] = k /\ <<k, a>>[2] = a /\ P \subseteq Q
    OBVIOUS
  <2> HIDE DEF Q
  <2> QED
    BY <2>1, <2>2, Zenon DEF UnitsIn
<1>2. \A u : <<k, u>> \notin S
  BY DEF UnitsIn, Block
<1>3. IsFiniteSet(S)
  OBVIOUS
<1> HIDE DEF S, Q
<1>4. IsFiniteSet(S \cup Block(k, a)) /\ Cardinality(S \cup Block(k, a)) = Cardinality(S) + a
  BY <1>2, <1>3, AddBlock
<1> QED
  BY <1>1, <1>4 DEF S, Q

\* One key less takes its amount away.
LEMMA RemoveAmount ==
  ASSUME NEW P, IsFiniteSet(UnitsIn(P)), KeysOnce(P), NEW k, NEW a \in Nat, <<k, a>> \in P
  PROVE  /\ IsFiniteSet(UnitsIn(P \ {<<k, a>>}))
         /\ Cardinality(UnitsIn(P \ {<<k, a>>})) = Cardinality(UnitsIn(P)) - a
<1> DEFINE S == UnitsIn(P)
           Q == P \ {<<k, a>>}
<1>1. Block(k, a) \subseteq S
  BY DEF UnitsIn
<1>2. ASSUME NEW p \in Q
      PROVE  p[1] # k
  BY <1>2 DEF KeysOnce
<1>3. UnitsIn(Q) = S \ Block(k, a)
  BY <1>2 DEF UnitsIn, Block
<1>4. IsFiniteSet(S)
  OBVIOUS
<1> HIDE DEF S, Q
<1>5. IsFiniteSet(S \ Block(k, a)) /\ Cardinality(S \ Block(k, a)) = Cardinality(S) - a
  BY <1>1, <1>4, RemoveBlock
<1> QED
  BY <1>3, <1>5 DEF S, Q

-----------------------------------------------------------------------------
(* Accounting.  total_reserved counts the units of ReservedUnits: funding    *)
(* adds the block of the new campaign, a settled payout removes its block,   *)
(* and every other step leaves each campaign's liveness and amount alone.    *)

LEMMA UnitsOf ==
  ASSUME NEW id, NEW u
  PROVE  <<id, u>> \in ReservedUnits <=> id \in LiveIds /\ u \in 1 .. campaigns[id].amount
  BY DEF ReservedUnits

LEMMA SameLiveAccounting ==
  ASSUME TypeOK, Accounting, UNCHANGED totalReserved,
         \A i \in CampaignIds :
            /\ IsLive(campaigns'[i]) <=> IsLive(campaigns[i])
            /\ IsLive(campaigns[i]) => campaigns'[i].amount = campaigns[i].amount
  PROVE  Accounting'
<1>1. LiveIds' = LiveIds
  BY DEF LiveIds, IsLive
<1>2. {{i} \X (1 .. campaigns'[i].amount) : i \in LiveIds'}
         = {{i} \X (1 .. campaigns[i].amount) : i \in LiveIds}
  BY <1>1 DEF LiveIds
<1>3. ReservedUnits' = ReservedUnits
  BY <1>2 DEF ReservedUnits
<1> QED
  BY <1>3 DEF Accounting

LEMMA FundedAccounting ==
  ASSUME TypeOK, Accounting, NEW id \in CampaignIds, NEW c \in Campaign, campaigns[id] = None, IsLive(c),
         campaigns' = [campaigns EXCEPT ![id] = c], totalReserved' = totalReserved + c.amount
  PROVE  Accounting'
<1>1. campaigns'[id] = c /\ \A i \in CampaignIds \ {id} : campaigns'[i] = campaigns[i]
  BY DEF TypeOK
<1>2. id \notin LiveIds /\ LiveIds' = LiveIds \cup {id}
  BY <1>1 DEF LiveIds, IsLive
<1>3. ReservedUnits' = ReservedUnits \cup Block(id, c.amount)
  BY <1>1, <1>2 DEF ReservedUnits, Block, LiveIds
<1>4. \A u : <<id, u>> \notin ReservedUnits
  BY <1>2, UnitsOf
<1>5. c.amount \in Nat
  BY DEF Campaign
<1> QED
  BY <1>3, <1>4, <1>5, AddBlock DEF Accounting

LEMMA SettledAccounting ==
  ASSUME TypeOK, Accounting, NEW id \in CampaignIds, IsLive(campaigns[id]), NEW c, ~IsLive(c),
         campaigns' = [campaigns EXCEPT ![id] = c],
         totalReserved' = totalReserved - campaigns[id].amount
  PROVE  Accounting'
<1>1. campaigns'[id] = c /\ \A i \in CampaignIds \ {id} : campaigns'[i] = campaigns[i]
  BY DEF TypeOK
<1>2. id \in LiveIds /\ LiveIds' = LiveIds \ {id}
  BY <1>1 DEF LiveIds
<1> DEFINE B == Block(id, campaigns[id].amount)
<1>3. B \subseteq ReservedUnits
  BY <1>2 DEF ReservedUnits, Block
<1>4. ReservedUnits' = ReservedUnits \ B
  BY <1>1, <1>2 DEF ReservedUnits, Block, LiveIds
<1>5. campaigns[id].amount \in Nat
  BY DEF TypeOK, IsLive, Campaign
<1> QED
  BY <1>3, <1>4, <1>5, RemoveBlock DEF Accounting

LEMMA FundAccounting == TypeOK /\ Accounting /\ Fund => Accounting'
<1> SUFFICES ASSUME TypeOK, Accounting, Fund PROVE Accounting'
  OBVIOUS
<1>1. ASSUME NEW t \in inbound, FtOnTransferAccept(t) PROVE Accounting'
  <2>1. t \in Inbound /\ t.spec \in Spec0 /\ t.spec.id \in CampaignIds
        /\ t.amount \in Nat \ {0} /\ t.reference \in References /\ campaigns[t.spec.id] = None
    BY <1>1 DEF TypeOK, FtOnTransferAccept, Acceptable, Buildable, Inbound, Spec0
  <2> DEFINE c == Build(t.spec, t.amount, t.reference, "direct_usdc")
  <2>2. c \in Campaign /\ c # None
    BY <2>1, BuildType, NoneAssumption DEF Rails
  <2>3. IsLive(c) /\ c.amount = t.amount
    BY <2>2 DEF Build, StatusOf, IsLive
  <2>4. campaigns' = [campaigns EXCEPT ![t.spec.id] = c] /\ totalReserved' = totalReserved + t.amount
    BY <1>1 DEF FtOnTransferAccept
  <2> HIDE DEF c
  <2> QED
    BY <2>1, <2>2, <2>3, <2>4, FundedAccounting
<1>2. CASE UNCHANGED <<campaigns, totalReserved>>
  BY <1>2, SameLiveAccounting
<1> QED
  BY <1>1, <1>2 DEF Fund, FtTransferCall, FtOnTransferReject, FtResolveTransfer, escrow

LEMMA FundExternallyAccounting ==
  TypeOK /\ PayoutInv /\ Accounting /\ FundExternally => Accounting'
<1> SUFFICES ASSUME TypeOK, PayoutInv, Accounting, FundExternally PROVE Accounting'
  OBVIOUS
<1>1. ASSUME NEW q \in queries, OnExternalFundingBalance(q), ~UNCHANGED <<campaigns, totalReserved>>
      PROVE  Accounting'
  <2> DEFINE auth == pending[q.reference]
             id == auth.campaign.spec.id
  <2>1. q.reference \in References
    BY DEF TypeOK, Query
  <2>2. /\ auth # None /\ Proves(q, auth) /\ campaigns' = [campaigns EXCEPT ![id] = auth.campaign]
        /\ totalReserved' = totalReserved + auth.campaign.amount
    BY <1>1 DEF OnExternalFundingBalance, escrow
  <2>3. auth \in Authorization /\ auth.campaign \in Campaign /\ id \in CampaignIds
    BY <2>1, <2>2 DEF TypeOK, Authorization, Campaign, Spec0
  <2>4. campaigns[id] = None
    BY <2>2 DEF Proves
  <2>5. IsLive(auth.campaign)
    BY <2>1, <2>2, <2>3, NoneAssumption DEF PayoutInv, AuthorizedIdle, IsLive
  <2> HIDE DEF auth, id
  <2> QED
    BY <2>2, <2>3, <2>4, <2>5, FundedAccounting
<1>2. ASSUME UNCHANGED <<campaigns, totalReserved>> PROVE Accounting'
  BY <1>2, SameLiveAccounting
<1>3. ASSUME NEW caller \in Callers, NEW spec \in Specs, NEW amount \in Prizes,
             NEW r \in References, NEW rail \in Rails, NEW deadline \in Deadlines,
             AuthorizeExternalFunding(caller, spec, amount, r, rail, deadline)
      PROVE  UNCHANGED <<campaigns, totalReserved>>
  BY <1>3 DEF AuthorizeExternalFunding
<1>4. ASSUME NEW r \in References, Retire(r) PROVE UNCHANGED <<campaigns, totalReserved>>
  BY <1>4 DEF Retire
<1> QED
  BY <1>1, <1>2, <1>3, <1>4 DEF FundExternally, ProviderDeposit, RevokeAuthorization,
     CleanupAuthorization, ActivateExternalFunding, FtBalanceOf, escrow

LEMMA PayOutAccounting == TypeOK /\ TypeOK' /\ Accounting /\ PayOut => Accounting'
<1> SUFFICES ASSUME TypeOK, TypeOK', Accounting, PayOut PROVE Accounting'
  OBVIOUS
<1>1. ASSUME UNCHANGED <<campaigns, totalReserved>> PROVE Accounting'
  BY <1>1, SameLiveAccounting
\* A live campaign with another live status.
<1>2. ASSUME NEW id \in CampaignIds, NEW c, IsLive(campaigns[id]), IsLive(c),
             c.amount = campaigns[id].amount,
             campaigns' = [campaigns EXCEPT ![id] = c], UNCHANGED totalReserved
      PROVE  Accounting'
  BY <1>2, SameLiveAccounting DEF TypeOK
<1>3. ASSUME NEW p \in permits, Claim(p) PROVE Accounting'
  <2> DEFINE c == [campaigns[p.id] EXCEPT !.claimNonce = campaigns[p.id].claimNonce + 1,
                        !.status = StatusOf("Claiming", campaigns[p.id].claimNonce, TRUE)]
  <2>1. /\ p.id \in CampaignIds /\ campaigns[p.id] \in Campaign /\ IsLive(campaigns[p.id])
        /\ campaigns' = [campaigns EXCEPT ![p.id] = c] /\ UNCHANGED totalReserved
    BY <1>3 DEF TypeOK, Permit, Claim, Open, IsLive
  <2>2. c.amount = campaigns[p.id].amount /\ c.status.state = "Claiming"
    BY <2>1 DEF Campaign, StatusOf
  <2>3. c # None
    <3>1. campaigns[p.id].claimNonce \in Nat /\ campaigns[p.id].claimNonce + 1 \in Nat
      BY <2>1 DEF Campaign
    <3>2. StatusOf("Claiming", campaigns[p.id].claimNonce, TRUE) \in Status
      BY <3>1 DEF StatusOf, Status, States
    <3>3. c \in Campaign
      BY <2>1, <3>1, <3>2 DEF Campaign
    <3> QED
      BY <3>3, NoneAssumption
  <2> QED
    BY <1>2, <2>1, <2>2, <2>3 DEF IsLive
\* start_refund and retry_refund.
<1>4. ASSUME NEW id \in CampaignIds, NEW seq \in Nat, IsLive(campaigns[id]),
             campaigns' = [campaigns EXCEPT ![id] =
                [campaigns[id] EXCEPT !.status = StatusOf("Refunding", seq, TRUE)]],
             UNCHANGED totalReserved
      PROVE  Accounting'
  <2> DEFINE c == [campaigns[id] EXCEPT !.status = StatusOf("Refunding", seq, TRUE)]
  <2>1. campaigns[id] \in Campaign
    BY <1>4 DEF TypeOK, IsLive
  <2>2. c.amount = campaigns[id].amount /\ c.status.state = "Refunding"
    BY <2>1 DEF Campaign, StatusOf
  <2>3. c # None
    BY <1>4, <2>1, StatusType, NoneAssumption DEF States
  <2> QED
    BY <1>2, <1>4, <2>2, <2>3 DEF IsLive
<1>5. ASSUME NEW caller \in Callers, NEW id \in CampaignIds, CancelBeforeOpen(caller, id)
      PROVE  Accounting'
  BY <1>4, <1>5 DEF CancelBeforeOpen, StartRefund, IsLive
<1>6. ASSUME NEW id \in CampaignIds, ExpireAndRefund(id) PROVE Accounting'
  BY <1>4, <1>6 DEF ExpireAndRefund, StartRefund, Open, IsLive
<1>7. ASSUME NEW id \in CampaignIds, RetryRefund(id) PROVE Accounting'
  <2>1. campaigns[id].status.seq + 1 \in Nat
    BY <1>7 DEF RetryRefund, TypeOK, Campaign, Status
  <2> QED
    BY <1>4, <1>7, <2>1 DEF RetryRefund, Retryable, IsLive
<1>8. ASSUME NEW m \in payouts, OnClaimTransfer(m) \/ OnRefundTransfer(m) PROVE Accounting'
  <2>1. m.id \in CampaignIds
    BY DEF TypeOK, Payout
  <2>2. CASE StaleClaim(m) /\ StaleRefund(m)
    BY <1>1, <1>8, <2>2 DEF OnClaimTransfer, OnRefundTransfer
  <2>3. CASE UNCHANGED <<campaigns, totalReserved>>
    BY <1>1, <2>3
  <2>4. CASE ~StaleClaim(m) \/ ~StaleRefund(m)
    <3> SUFFICES ASSUME ~UNCHANGED <<campaigns, totalReserved>> PROVE Accounting'
      BY <2>3
    <3>1. campaigns[m.id] \in Campaign /\ IsLive(campaigns[m.id])
      BY <2>1, <2>4 DEF TypeOK, StaleClaim, StaleRefund, IsLive
    <3>2. PICK status \in Status :
             /\ campaigns' = [campaigns EXCEPT ![m.id].status = status]
             /\ \/ /\ status.state \in {"Claimed", "Refunded"}
                   /\ totalReserved' = totalReserved - campaigns[m.id].amount
                \/ /\ status.state \in {"Active", "Refunding"}
                   /\ UNCHANGED totalReserved
      <4>1. /\ StatusOf("Claimed", m.seq, FALSE).state = "Claimed"
            /\ StatusOf("Refunded", 0, FALSE).state = "Refunded"
            /\ StatusOf("Active", 0, FALSE).state = "Active"
            /\ FailedRefund(m).state = "Refunding"
        BY DEF StatusOf, FailedRefund
      <4>2. /\ StatusOf("Claimed", m.seq, FALSE) \in Status /\ StatusOf("Refunded", 0, FALSE) \in Status
            /\ StatusOf("Active", 0, FALSE) \in Status /\ FailedRefund(m) \in Status
        BY DEF StatusOf, FailedRefund, Status, States, TypeOK, Payout
      <4> QED
        BY <1>8, <4>1, <4>2 DEF OnClaimTransfer, OnRefundTransfer, Released
    <3> DEFINE c == [campaigns[m.id] EXCEPT !.status = status]
    <3>3. campaigns' = [campaigns EXCEPT ![m.id] = c]
      BY <3>2
    <3>4. c.status = status /\ c.amount = campaigns[m.id].amount
      BY <3>1 DEF Campaign
    <3>5. c # None
      <4>1. c \in Campaign
        BY <3>1 DEF Campaign
      <4> QED
        BY <4>1, NoneAssumption
    <3> HIDE DEF c
    <3>6. CASE status.state \in {"Claimed", "Refunded"}
      <4>1. ~IsLive(c)
        BY <3>4, <3>6 DEF IsLive
      <4> QED
        BY <2>1, <3>1, <3>2, <3>3, <3>6, <4>1, SettledAccounting
    <3>7. CASE status.state \in {"Active", "Refunding"}
      <4>1. IsLive(c)
        BY <3>4, <3>5, <3>7 DEF IsLive
      <4> QED
        BY <1>2, <2>1, <3>1, <3>2, <3>3, <3>4, <3>7, <4>1
    <3> QED
      BY <3>2, <3>6, <3>7
  <2> QED
    BY <2>2, <2>4
<1> QED
  BY <1>1, <1>3, <1>5, <1>6, <1>7, <1>8
     DEF PayOut, SignPermit, FtTransferOk, FtTransferFail, escrow, token

\* total_reserved is always the sum of the live prizes, so get_accounting never
\* reports a broken invariant and no payout callback panics on underflow.
THEOREM ReservesAccounted == Spec => []Accounting
<1>1. Init => Accounting
  <2> SUFFICES ASSUME Init PROVE Accounting
    OBVIOUS
  <2>1. ReservedUnits = {}
    BY DEF Init, ReservedUnits, LiveIds, IsLive
  <2> QED
    BY <2>1, FS_EmptySet DEF Init, Accounting
<1>2. TypeOK /\ TypeOK' /\ PayoutInv /\ Accounting /\ [Next]_vars => Accounting'
  <2> SUFFICES ASSUME TypeOK, TypeOK', PayoutInv, Accounting, [Next]_vars PROVE Accounting'
    OBVIOUS
  <2>1. CASE UNCHANGED vars \/ Tick
    BY <2>1, SameLiveAccounting DEF vars, escrow, token, Tick
  <2> QED
    BY <2>1, FundAccounting, FundExternallyAccounting, PayOutAccounting DEF Next
<1> QED
  BY <1>1, <1>2, TypeCorrect, PayoutInvariant, PTL DEF Spec

-----------------------------------------------------------------------------
(* Terms.  A campaign is never removed, and its terms are fixed when it is   *)
(* funded; only status and nonce move.                                      *)

SameTerms(c, d) ==
    d # None /\ d.spec = c.spec /\ d.amount = c.amount /\ d.rail = c.rail /\ d.reference = c.reference

LEMMA StatusKeepsTerms ==
  ASSUME NEW c \in Campaign, NEW nonce \in Nat, NEW status \in Status
  PROVE  /\ SameTerms(c, [c EXCEPT !.status = status])
         /\ SameTerms(c, [c EXCEPT !.claimNonce = nonce, !.status = status])
<1>1. [c EXCEPT !.status = status] \in Campaign
      /\ [c EXCEPT !.claimNonce = nonce, !.status = status] \in Campaign
  BY DEF Campaign
<1> QED
  BY <1>1, NoneAssumption DEF SameTerms, Campaign

\* External funding touches campaigns in the balance callback alone, and payouts never.
LEMMA FundExternallyFrame ==
  ASSUME FundExternally
  PROVE  /\ UNCHANGED <<permits, payouts, inbound, disbursed>>
         /\ \/ UNCHANGED <<campaigns, totalReserved>>
            \/ \E q \in queries : OnExternalFundingBalance(q)
<1>1. ASSUME NEW caller \in Callers, NEW spec \in Specs, NEW amount \in Prizes,
             NEW r \in References, NEW rail \in Rails, NEW deadline \in Deadlines,
             AuthorizeExternalFunding(caller, spec, amount, r, rail, deadline)
      PROVE  UNCHANGED <<campaigns, totalReserved, permits, payouts, inbound, disbursed>>
  BY <1>1 DEF AuthorizeExternalFunding, token
<1>2. ASSUME NEW r \in References, Retire(r)
      PROVE  UNCHANGED <<campaigns, totalReserved, permits, payouts, inbound, disbursed>>
  BY <1>2 DEF Retire, token
<1>3. ASSUME NEW q \in queries, OnExternalFundingBalance(q)
      PROVE  UNCHANGED <<permits, payouts, inbound, disbursed>>
  BY <1>3 DEF OnExternalFundingBalance
<1> QED
  BY <1>1, <1>2, <1>3 DEF FundExternally, ProviderDeposit, RevokeAuthorization,
     CleanupAuthorization, ActivateExternalFunding, FtBalanceOf, escrow

LEMMA TermsFixed ==
  ASSUME TypeOK, [Next]_vars, NEW id \in CampaignIds, campaigns[id] # None
  PROVE  SameTerms(campaigns[id], campaigns'[id])
<1> DEFINE c == campaigns[id]
<1>1. c \in Campaign /\ c.claimNonce \in Nat /\ c.claimNonce + 1 \in Nat /\ c.status.seq + 1 \in Nat
  BY DEF TypeOK, Campaign, Status
<1>2. ASSUME campaigns'[id] = c
      PROVE  SameTerms(c, campaigns'[id])
  BY <1>2 DEF SameTerms
<1>3. ASSUME NEW i \in CampaignIds, NEW d, campaigns' = [campaigns EXCEPT ![i] = d], i # id \/ SameTerms(c, d)
      PROVE  SameTerms(c, campaigns'[id])
  BY <1>2, <1>3 DEF TypeOK
<1>4. ASSUME NEW t \in inbound, FtOnTransferAccept(t)
      PROVE  SameTerms(c, campaigns'[id])
  <2>1. t.spec.id \in CampaignIds /\ t.spec.id # id
    BY <1>4 DEF FtOnTransferAccept, Acceptable, Buildable, TypeOK, Inbound, Spec0
  <2> QED
    BY <1>3, <1>4, <2>1 DEF FtOnTransferAccept
<1>5. ASSUME NEW q \in queries, OnExternalFundingBalance(q)
      PROVE  SameTerms(c, campaigns'[id])
  <2>1. CASE UNCHANGED campaigns
    BY <1>2, <2>1
  <2>2. CASE ~UNCHANGED campaigns
    <3> DEFINE auth == pending[q.reference]
    <3>1. /\ auth # None /\ Proves(q, auth)
          /\ campaigns' = [campaigns EXCEPT ![auth.campaign.spec.id] = auth.campaign]
      BY <1>5, <2>2 DEF OnExternalFundingBalance, escrow
    <3>2. auth.campaign.spec.id \in CampaignIds /\ auth.campaign.spec.id # id
      BY <3>1 DEF TypeOK, Query, Authorization, Campaign, Spec0, Proves
    <3> QED
      BY <1>3, <3>1, <3>2
  <2> QED
    BY <2>1, <2>2
<1>6. ASSUME NEW p \in permits, Claim(p)
      PROVE  SameTerms(c, campaigns'[id])
  <2> DEFINE e == campaigns[p.id]
             d == [e EXCEPT !.claimNonce = e.claimNonce + 1,
                            !.status = StatusOf("Claiming", e.claimNonce, TRUE)]
  <2>1. p.id \in CampaignIds /\ campaigns' = [campaigns EXCEPT ![p.id] = d]
    BY <1>6 DEF Claim, TypeOK, Permit
  <2>2. p.id = id => SameTerms(c, d)
    <3>1. StatusOf("Claiming", c.claimNonce, TRUE) \in Status
      BY <1>1 DEF StatusOf, Status, States
    <3> QED
      BY <1>1, <3>1, StatusKeepsTerms
  <2> HIDE DEF d
  <2> QED
    BY <1>3, <2>1, <2>2
<1>7. ASSUME NEW i \in CampaignIds, StartRefund(i) \/ RetryRefund(i)
      PROVE  SameTerms(c, campaigns'[id])
  <2>1. CASE i # id
    BY <1>3, <1>7, <2>1 DEF StartRefund, RetryRefund
  <2>2. CASE i = id
    <3>1. PICK status \in Status : campaigns' = [campaigns EXCEPT ![id] = [c EXCEPT !.status = status]]
      <4>1. StatusOf("Refunding", 0, TRUE) \in Status
            /\ StatusOf("Refunding", c.status.seq + 1, TRUE) \in Status
        BY <1>1 DEF StatusOf, Status, States
      <4> QED
        BY <1>7, <2>2, <4>1 DEF StartRefund, RetryRefund
    <3>2. SameTerms(c, [c EXCEPT !.status = status])
      BY <1>1, StatusKeepsTerms
    <3> QED
      BY <1>3, <3>1, <3>2
  <2> QED
    BY <2>1, <2>2
<1>8. ASSUME NEW m \in payouts, OnClaimTransfer(m) \/ OnRefundTransfer(m)
      PROVE  SameTerms(c, campaigns'[id])
  <2>1. m.id \in CampaignIds /\ m.seq \in Nat
    BY DEF TypeOK, Payout
  <2>2. \/ UNCHANGED campaigns
        \/ \E status \in Status : campaigns' = [campaigns EXCEPT ![m.id].status = status]
    <3>1. /\ StatusOf("Claimed", m.seq, FALSE) \in Status /\ StatusOf("Refunded", 0, FALSE) \in Status
          /\ StatusOf("Active", 0, FALSE) \in Status /\ FailedRefund(m) \in Status
      BY <2>1 DEF StatusOf, FailedRefund, Status, States
    <3> QED
      BY <1>8, <3>1 DEF OnClaimTransfer, OnRefundTransfer
  <2>3. ASSUME NEW status \in Status, campaigns' = [campaigns EXCEPT ![m.id].status = status]
        PROVE  SameTerms(c, campaigns'[id])
    <3>1. m.id = id => SameTerms(c, [campaigns[m.id] EXCEPT !.status = status])
      BY <1>1, StatusKeepsTerms
    <3> QED
      BY <1>3, <2>1, <2>3, <3>1
  <2> QED
    BY <1>2, <2>2, <2>3
<1>9. CASE UNCHANGED campaigns
  BY <1>2, <1>9
<1>10. ASSUME Tick \/ UNCHANGED vars
       PROVE  UNCHANGED campaigns
  BY <1>10 DEF Tick, vars, escrow
<1>11. ASSUME Fund
       PROVE  SameTerms(c, campaigns'[id])
  BY <1>4, <1>9, <1>11 DEF Fund, FtTransferCall, FtOnTransferReject, FtResolveTransfer, escrow
<1>12. ASSUME FundExternally
       PROVE  SameTerms(c, campaigns'[id])
  BY <1>5, <1>9, <1>12, FundExternallyFrame
<1>13. ASSUME PayOut
       PROVE  SameTerms(c, campaigns'[id])
  BY <1>6, <1>7, <1>8, <1>9, <1>13 DEF PayOut, SignPermit, CancelBeforeOpen, ExpireAndRefund,
     FtTransferOk, FtTransferFail, escrow
<1> QED
  BY <1>9, <1>10, <1>11, <1>12, <1>13 DEF Next

-----------------------------------------------------------------------------
(* Receivers.  A payout names its receiver when it is made, and what makes   *)
(* it the right one stays.                                                  *)

\* A permit over the nonce that was consumed, or the refund account.
RightReceiver(kind, id, to, seq) ==
    IF kind = "claim" THEN \E p \in permits : p.id = id /\ p.receiver = to /\ p.nonce = seq
    ELSE campaigns[id] # None /\ to = campaigns[id].spec.refundTo

ReceiversRight ==
    /\ \A m \in payouts : RightReceiver(m.kind, m.id, m.to, m.seq)
    /\ \A d \in disbursed : RightReceiver(d.kind, d.id, d.to, d.seq)

LEMMA PermitsStay ==
  ASSUME [Next]_vars
  PROVE  permits \subseteq permits'
<1>1. ASSUME FundExternally
      PROVE  permits' = permits
  BY <1>1, FundExternallyFrame
<1>2. ASSUME Fund \/ Tick \/ UNCHANGED vars
      PROVE  permits' = permits
  BY <1>2 DEF Fund, FtTransferCall, FtOnTransferAccept, FtOnTransferReject, FtResolveTransfer, Tick, vars
<1>3. ASSUME PayOut
      PROVE  permits \subseteq permits'
  BY <1>3 DEF PayOut, SignPermit, Claim, CancelBeforeOpen, ExpireAndRefund, StartRefund, RetryRefund,
     FtTransferOk, FtTransferFail, OnClaimTransfer, OnRefundTransfer
<1> QED
  BY <1>1, <1>2, <1>3 DEF Next

\* What a step may add to the payouts, and to the disbursements.
LEMMA NewPayouts ==
  ASSUME TypeOK, [Next]_vars, NEW m \in payouts' \ payouts
  PROVE  \/ RightReceiver(m.kind, m.id, m.to, m.seq)
         \/ \E n \in payouts : m.kind = n.kind /\ m.id = n.id /\ m.to = n.to /\ m.seq = n.seq
<1>1. payouts' # payouts
  OBVIOUS
<1>2. ~(Fund \/ Tick \/ UNCHANGED vars)
  BY <1>1 DEF Fund, FtTransferCall, FtOnTransferAccept, FtOnTransferReject, FtResolveTransfer, Tick, vars,
     token
<1>3. ~FundExternally
  BY <1>1, FundExternallyFrame
<1>4. ASSUME NEW p \in permits, Claim(p)
      PROVE  RightReceiver(m.kind, m.id, m.to, m.seq)
  <2>1. m.kind = "claim" /\ m.id = p.id /\ m.to = p.receiver /\ m.seq = campaigns[p.id].claimNonce
    BY <1>4 DEF Claim, PayoutOf
  <2>2. p.nonce = campaigns[p.id].claimNonce
    BY <1>4 DEF Claim, PermitFits
  <2> QED
    BY <2>1, <2>2 DEF RightReceiver
<1>5. ASSUME NEW id \in CampaignIds, campaigns[id] # None, StartRefund(id) \/ RetryRefund(id)
      PROVE  RightReceiver(m.kind, m.id, m.to, m.seq)
  <2>1. m.kind = "refund" /\ m.id = id /\ m.to = campaigns[id].spec.refundTo
    <3>1. CASE StartRefund(id)
      BY <3>1 DEF StartRefund, PayoutOf
    <3>2. CASE RetryRefund(id)
      BY <3>2 DEF RetryRefund, PayoutOf
    <3> QED
      BY <1>5, <3>1, <3>2
  <2> QED
    BY <1>5, <2>1 DEF RightReceiver
<1>6. ASSUME NEW n \in payouts, FtTransferOk(n) \/ FtTransferFail(n)
      PROVE  m.kind = n.kind /\ m.id = n.id /\ m.to = n.to /\ m.seq = n.seq
  <2>1. n \in Payout
    BY DEF TypeOK
  <2>2. m = [n EXCEPT !.reply = "ok"] \/ m = [n EXCEPT !.reply = "failed"]
    BY <1>6 DEF FtTransferOk, FtTransferFail
  <2> QED
    BY <2>1, <2>2 DEF Payout
<1>7. ASSUME NEW n \in payouts, OnClaimTransfer(n) \/ OnRefundTransfer(n)
      PROVE  FALSE
  BY <1>7 DEF OnClaimTransfer, OnRefundTransfer
<1>8. PayOut
  BY <1>2, <1>3 DEF Next
<1> QED
  BY <1>1, <1>4, <1>5, <1>6, <1>7, <1>8 DEF PayOut, SignPermit, CancelBeforeOpen, ExpireAndRefund,
     RetryRefund, token

LEMMA NewDisbursements ==
  ASSUME TypeOK, [Next]_vars, NEW d \in disbursed' \ disbursed
  PROVE  \E m \in payouts : FtTransferOk(m) /\ d.kind = m.kind /\ d.id = m.id /\ d.to = m.to /\ d.seq = m.seq
<1>1. disbursed' # disbursed
  OBVIOUS
<1>2. ~(Fund \/ Tick \/ UNCHANGED vars)
  BY <1>1 DEF Fund, FtTransferCall, FtOnTransferAccept, FtOnTransferReject, FtResolveTransfer, Tick, vars,
     token
<1>3. ~FundExternally
  BY <1>1, FundExternallyFrame
<1>4. PayOut
  BY <1>2, <1>3 DEF Next
<1>5. \E m \in payouts : FtTransferOk(m)
  BY <1>1, <1>4 DEF PayOut, SignPermit, Claim, CancelBeforeOpen, ExpireAndRefund, StartRefund, RetryRefund,
     FtTransferFail, OnClaimTransfer, OnRefundTransfer, token
<1> QED
  BY <1>5 DEF FtTransferOk

LEMMA ReceiversStayRight ==
  ASSUME TypeOK, ReceiversRight, [Next]_vars
  PROVE  ReceiversRight'
<1>1. ASSUME NEW kind, NEW id \in CampaignIds, NEW to, NEW seq, RightReceiver(kind, id, to, seq)
      PROVE  RightReceiver(kind, id, to, seq)'
  BY <1>1, PermitsStay, TermsFixed DEF RightReceiver, SameTerms
<1>2. ASSUME NEW m \in payouts'
      PROVE  RightReceiver(m.kind, m.id, m.to, m.seq)'
  <2>1. RightReceiver(m.kind, m.id, m.to, m.seq)
    BY NewPayouts DEF ReceiversRight
  <2>2. m.id \in CampaignIds
    <3>1. [Next]_vars /\ TypeOK => TypeOK'
      BY TickType, FundType, FundExternallyType, PayOutType DEF Next, TypeOK, vars, escrow, token
    <3> QED
      BY <3>1 DEF TypeOK, Payout
  <2> QED
    BY <1>1, <2>1, <2>2
<1>3. ASSUME NEW d \in disbursed'
      PROVE  RightReceiver(d.kind, d.id, d.to, d.seq)'
  <2>1. RightReceiver(d.kind, d.id, d.to, d.seq) /\ d.id \in CampaignIds
    BY NewDisbursements DEF ReceiversRight, TypeOK, Disbursement, Payout
  <2> QED
    BY <1>1, <2>1
<1> QED
  BY <1>2, <1>3 DEF ReceiversRight

LEMMA ReceiversInvariant == Spec => []ReceiversRight
<1>1. Init => ReceiversRight
  BY DEF Init, ReceiversRight
<1>2. TypeOK /\ ReceiversRight /\ [Next]_vars => ReceiversRight'
  BY ReceiversStayRight
<1> QED
  BY <1>1, <1>2, TypeCorrect, PTL DEF Spec

\* A prize goes to a receiver that a permit names for the nonce it consumed, or back to
\* the refund account that was fixed when it was funded (contract-v2/src/lib.rs, claim and
\* refund_promise).
THEOREM PrizesPaidAsSigned == Spec => []PaidAsSigned
<1>1. ReceiversRight => PaidAsSigned
  BY DEF ReceiversRight, RightReceiver, PaidAsSigned
<1> QED
  BY <1>1, ReceiversInvariant, PTL

-----------------------------------------------------------------------------
(* Funding.  The maps of authorizations are each other's index, whoever      *)
(* authorized is its own creator, controller and refund account, and what a  *)
(* campaign was funded with is spent.                                       *)

SelfFunded(terms) ==
    terms.creator # Operator /\ terms.controller = terms.creator /\ terms.refundTo = terms.creator

\* auths and byId as the authorization maps, spent as the used references.
Indexed(auths, byId, spent) ==
    /\ auths \in [References -> Authorization \cup {None}]
    /\ byId \in [CampaignIds -> References \cup {None}]
    /\ \A r \in References : auths[r] # None =>
          /\ byId[auths[r].campaign.spec.id] = r
          /\ auths[r].campaign.reference = r
          /\ r \notin spent
          /\ SelfFunded(auths[r].campaign.spec)
    /\ \A id \in CampaignIds : byId[id] # None =>
          /\ auths[byId[id]] # None
          /\ auths[byId[id]].campaign.spec.id = id
          /\ campaigns[id] = None
    /\ \A r \in References : pending[r] # None => pending[r] = auths[r]

PendingIdsAre(ids, allocations) ==
    ids = {allocations[r].campaign.spec.id : r \in {x \in References : allocations[x] # None}}

FundingInv ==
    /\ Indexed(authorizations, authById, used)
    /\ PendingIdsAre(pendingIds, pending)
    /\ ReferenceFundsOneCampaign

LEMMA FundingInvSafe ==
  ASSUME FundingInv
  PROVE  FundingSafe
BY DEF FundingInv, Indexed, PendingIdsAre, FundingSafe, AuthorizationIndex

LEMMA AuthorizationType ==
  ASSUME NEW x \in Authorization
  PROVE  x # None /\ x.campaign \in Campaign /\ x.campaign.spec.id \in CampaignIds
BY NoneAssumption DEF Authorization, Campaign, Spec0

\* A retired reference leaves both maps and is spent.
LEMMA RetiredIndexed ==
  ASSUME TypeOK, FundingInv, NEW r \in References, Retirable(r)
  PROVE  /\ Indexed(Retired(r).authorizations, Retired(r).authById, Retired(r).used)
         /\ Retired(r).authorizations[r] = None
         /\ Retired(r).authById[authorizations[r].campaign.spec.id] = None
         /\ \A x \in References : authorizations[x] = None => Retired(r).authorizations[x] = None
<1> DEFINE i == authorizations[r].campaign.spec.id
           A == [authorizations EXCEPT ![r] = None]
           B == [authById EXCEPT ![i] = None]
           U == used \cup {r}
<1>1. authorizations[r] # None /\ pending[r] = None /\ authById[i] = r /\ i \in CampaignIds
  BY AuthorizationType DEF Retirable, TypeOK
<1>2. /\ A \in [References -> Authorization \cup {None}] /\ A[r] = None
      /\ \A x \in References \ {r} : A[x] = authorizations[x]
      /\ B \in [CampaignIds -> References \cup {None}] /\ B[i] = None
      /\ \A x \in CampaignIds \ {i} : B[x] = authById[x]
  BY <1>1 DEF TypeOK
<1>3. Retired(r).authorizations = A /\ Retired(r).authById = B /\ Retired(r).used = U
  BY DEF Retired
<1> HIDE DEF A, B, i
<1>4. ASSUME NEW x \in References, A[x] # None
      PROVE  /\ B[A[x].campaign.spec.id] = x /\ A[x].campaign.reference = x /\ x \notin U
             /\ SelfFunded(A[x].campaign.spec)
  <2>1. x # r /\ A[x] = authorizations[x]
    BY <1>2, <1>4
  <2>2. authorizations[x].campaign.spec.id \in CampaignIds
    BY <1>4, <2>1, AuthorizationType DEF TypeOK
  <2>3. authById[authorizations[x].campaign.spec.id] = x /\ authorizations[x].campaign.reference = x
        /\ x \notin used /\ SelfFunded(authorizations[x].campaign.spec)
    BY <1>4, <2>1 DEF FundingInv, Indexed
  <2>4. authorizations[x].campaign.spec.id # i
    BY <1>1, <2>1, <2>3
  <2> QED
    BY <1>2, <2>1, <2>2, <2>3, <2>4
<1>5. ASSUME NEW id \in CampaignIds, B[id] # None
      PROVE  A[B[id]] # None /\ A[B[id]].campaign.spec.id = id /\ campaigns[id] = None
  <2>1. id # i /\ B[id] = authById[id]
    BY <1>2, <1>5
  <2>2. authById[id] \in References /\ authorizations[authById[id]] # None
        /\ authorizations[authById[id]].campaign.spec.id = id /\ campaigns[id] = None
    BY <1>5, <2>1 DEF FundingInv, Indexed
  <2>3. authById[id] # r
    BY <2>1, <2>2 DEF i
  <2> QED
    BY <1>2, <2>1, <2>2, <2>3
<1>6. \A x \in References : pending[x] # None => pending[x] = A[x]
  BY <1>1, <1>2 DEF FundingInv, Indexed
<1>7. Indexed(A, B, U)
  BY <1>2, <1>4, <1>5, <1>6 DEF Indexed
<1> QED
  BY <1>2, <1>3, <1>7 DEF i

LEMMA RetireFunding ==
  ASSUME TypeOK, FundingInv, NEW r \in References, Retire(r)
  PROVE  FundingInv'
<1>1. /\ authorizations' = Retired(r).authorizations /\ authById' = Retired(r).authById
      /\ used' = Retired(r).used /\ Retirable(r)
      /\ UNCHANGED <<campaigns, pending, pendingIds>>
  BY DEF Retire
<1>2. Indexed(authorizations, authById, used)'
  BY <1>1, RetiredIndexed DEF Indexed
<1>3. used \subseteq used'
  BY <1>1 DEF Retired
<1> QED
  BY <1>1, <1>2, <1>3 DEF FundingInv, PendingIdsAre, ReferenceFundsOneCampaign

LEMMA AuthorizeFunding ==
  ASSUME TypeOK, FundingInv, NEW caller \in Callers, NEW spec \in Specs, NEW amount \in Prizes,
         NEW r \in References, NEW rail \in Rails, NEW deadline \in Deadlines,
         AuthorizeExternalFunding(caller, spec, amount, r, rail, deadline)
  PROVE  FundingInv'
<1> DEFINE id == spec.id
           old == authById[id]
           campaign == [Build(spec, amount, r, rail)
                          EXCEPT !.status = StatusOf("Scheduled", 0, FALSE)]
           base == IF old # None THEN Retired(old)
                   ELSE [authorizations |-> authorizations, authById |-> authById, used |-> used]
           new == [campaign |-> campaign, deadline |-> deadline]
<1>1. spec \in Spec0 /\ id \in CampaignIds /\ amount \in Nat \ {0} /\ deadline \in Nat
      /\ SelfFunded(spec) /\ campaigns[id] = None
  BY SpecsAssumption DEF AuthorizeExternalFunding, Buildable, Spec0, Authorizes, SelfFunded
<1>2. r \notin used /\ pending[r] = None /\ authorizations[r] = None
      /\ (old # None => Retirable(old))
  BY DEF AuthorizeExternalFunding, ReferenceAvailable
<1>3. new \in Authorization /\ new # None /\ new.campaign.spec = spec /\ new.campaign.reference = r
  <2>1. campaign \in Campaign /\ campaign.spec = spec /\ campaign.reference = r
    BY <1>1, BuildType DEF Build
  <2> HIDE DEF campaign
  <2> QED
    BY <1>1, <2>1, AuthorizationType DEF Authorization
<1>4. /\ authorizations' = [base.authorizations EXCEPT ![r] = new]
      /\ authById' = [base.authById EXCEPT ![id] = r] /\ used' = base.used
      /\ UNCHANGED <<campaigns, pending, pendingIds>>
  BY DEF AuthorizeExternalFunding
<1>5. /\ Indexed(base.authorizations, base.authById, base.used)
      /\ base.authorizations[r] = None /\ base.authById[id] = None /\ r \notin base.used
      /\ used \subseteq base.used
  <2>1. CASE old = None
    BY <1>2, <2>1 DEF FundingInv
  <2>2. CASE old # None
    <3>1. old \in References /\ authorizations[old].campaign.spec.id = id /\ old # r
      BY <1>1, <1>2, <2>2 DEF FundingInv, Indexed
    <3>2. /\ Indexed(Retired(old).authorizations, Retired(old).authById, Retired(old).used)
          /\ Retired(old).authById[id] = None
          /\ Retired(old).authorizations[r] = None
      BY <1>2, <2>2, <3>1, RetiredIndexed
    <3>3. Retired(old).used = used \cup {old}
      BY DEF Retired
    <3> QED
      BY <1>2, <2>2, <3>1, <3>2, <3>3
  <2> QED
    BY <2>1, <2>2
<1> DEFINE A == base.authorizations
           B == base.authById
           U == base.used
<1> HIDE DEF new, base, id
<1>6. A \in [References -> Authorization \cup {None}] /\ B \in [CampaignIds -> References \cup {None}]
  BY <1>5 DEF Indexed
<1> HIDE DEF A, B, U
<1>7. /\ authorizations' \in [References -> Authorization \cup {None}] /\ authorizations'[r] = new
      /\ \A x \in References \ {r} : authorizations'[x] = A[x]
      /\ authById' \in [CampaignIds -> References \cup {None}] /\ authById'[id] = r
      /\ \A x \in CampaignIds \ {id} : authById'[x] = B[x]
      /\ used' = U
  BY <1>1, <1>3, <1>4, <1>6 DEF A, B, U
<1>8. Indexed(A, B, U) /\ A[r] = None /\ B[id] = None /\ r \notin U
  BY <1>5 DEF A, B, U
<1>9. ASSUME NEW x \in References, authorizations'[x] # None
      PROVE  /\ authById'[authorizations'[x].campaign.spec.id] = x
             /\ authorizations'[x].campaign.reference = x /\ x \notin U
             /\ SelfFunded(authorizations'[x].campaign.spec)
  <2>1. CASE x = r
    BY <1>1, <1>3, <1>7, <1>8, <2>1 DEF id
  <2>2. CASE x # r
    <3>1. authorizations'[x] = A[x] /\ A[x].campaign.spec.id \in CampaignIds
      BY <1>6, <1>7, <1>9, <2>2, AuthorizationType
    <3>2. B[A[x].campaign.spec.id] = x /\ A[x].campaign.reference = x /\ x \notin U
          /\ SelfFunded(A[x].campaign.spec)
      BY <1>8, <1>9, <3>1 DEF Indexed
    <3>3. A[x].campaign.spec.id # id
      BY <1>8, <3>2, NoneAssumption
    <3> QED
      BY <1>7, <3>1, <3>2, <3>3
  <2> QED
    BY <2>1, <2>2
<1>10. ASSUME NEW i \in CampaignIds, authById'[i] # None
       PROVE  /\ authorizations'[authById'[i]] # None
              /\ authorizations'[authById'[i]].campaign.spec.id = i /\ campaigns[i] = None
  <2>1. CASE i = id
    BY <1>1, <1>3, <1>7, <2>1 DEF id
  <2>2. CASE i # id
    <3>1. authById'[i] = B[i] /\ B[i] \in References /\ A[B[i]] # None
          /\ A[B[i]].campaign.spec.id = i /\ campaigns[i] = None
      BY <1>7, <1>8, <1>10, <2>2 DEF Indexed
    <3>2. B[i] # r
      BY <1>8, <3>1
    <3> QED
      BY <1>7, <3>1, <3>2
  <2> QED
    BY <2>1, <2>2
<1>11. \A x \in References : pending[x] # None => pending[x] = authorizations'[x]
  BY <1>2, <1>7, <1>8 DEF Indexed
<1>12. Indexed(authorizations, authById, used)'
  BY <1>4, <1>7, <1>9, <1>10, <1>11 DEF Indexed, SelfFunded
<1>13. used \subseteq used'
  BY <1>5, <1>7 DEF U
<1> QED
  BY <1>4, <1>12, <1>13 DEF FundingInv, PendingIdsAre, ReferenceFundsOneCampaign

LEMMA ActivateFunding ==
  ASSUME TypeOK, FundingInv, NEW caller \in Callers, NEW r \in References, NEW id \in CampaignIds,
         ActivateExternalFunding(caller, r, id)
  PROVE  FundingInv'
<1>1. /\ authorizations[r] # None /\ authorizations[r].campaign.spec.id = id
      /\ pendingIds' = pendingIds \cup {id}
      /\ pending' = [pending EXCEPT ![r] = authorizations[r]]
      /\ UNCHANGED <<campaigns, used, authorizations, authById>>
  BY DEF ActivateExternalFunding
<1>2. pending'[r] = authorizations[r] /\ \A x \in References \ {r} : pending'[x] = pending[x]
  BY <1>1 DEF TypeOK
<1>3. Indexed(authorizations, authById, used)'
  BY <1>1, <1>2 DEF FundingInv, Indexed, SelfFunded
<1>4. PendingIdsAre(pendingIds, pending)'
  <2>1. \A x \in References : pending[x] # None => pending'[x] = pending[x]
    BY <1>2 DEF FundingInv, Indexed
  <2>2. ASSUME NEW i
        PROVE  i \in pendingIds' <=>
                  \E x \in References : pending'[x] # None /\ pending'[x].campaign.spec.id = i
    BY <1>1, <1>2, <2>1 DEF FundingInv, PendingIdsAre
  <2> QED
    BY <2>2 DEF PendingIdsAre
<1> QED
  BY <1>1, <1>3, <1>4 DEF FundingInv, ReferenceFundsOneCampaign

\* A campaign that is new spends its reference.
LEMMA NewCampaignReference ==
  ASSUME TypeOK, ReferenceFundsOneCampaign, NEW id \in CampaignIds, NEW c, campaigns[id] = None,
         campaigns' = [campaigns EXCEPT ![id] = c], c.reference \notin used,
         used' = used \cup {c.reference}
  PROVE  ReferenceFundsOneCampaign'
<1>1. campaigns'[id] = c /\ \A i \in CampaignIds \ {id} : campaigns'[i] = campaigns[i]
  BY DEF TypeOK
<1>2. ASSUME NEW i \in CampaignIds, NEW j \in CampaignIds, campaigns'[i] # None
      PROVE  /\ campaigns'[i].reference \in used'
             /\ campaigns'[j] # None /\ campaigns'[i].reference = campaigns'[j].reference => i = j
  <2>1. i # id => campaigns'[i].reference \in used
    BY <1>1, <1>2 DEF ReferenceFundsOneCampaign
  <2>2. j # id /\ campaigns'[j] # None => campaigns'[j].reference \in used
    BY <1>1 DEF ReferenceFundsOneCampaign
  <2> QED
    BY <1>1, <1>2, <2>1, <2>2 DEF ReferenceFundsOneCampaign
<1> QED
  BY <1>2 DEF ReferenceFundsOneCampaign

LEMMA BalanceFunding ==
  ASSUME TypeOK, FundingInv, NEW q \in queries, OnExternalFundingBalance(q)
  PROVE  FundingInv'
<1> DEFINE r == q.reference
           auth == pending[r]
           id == auth.campaign.spec.id
<1>1. r \in References
  BY DEF TypeOK, Query
<1>2. CASE auth = None
  BY <1>2 DEF OnExternalFundingBalance, escrow, FundingInv, Indexed, PendingIdsAre, ReferenceFundsOneCampaign
<1>3. CASE auth # None
  <2>1. /\ auth = authorizations[r] /\ auth \in Authorization /\ id \in CampaignIds
        /\ auth.campaign \in Campaign /\ auth.campaign.reference = r /\ authById[id] = r
        /\ r \notin used
    BY <1>1, <1>3, AuthorizationType DEF FundingInv, Indexed, TypeOK
  <2>2. pending' = [pending EXCEPT ![r] = None] /\ pendingIds' = pendingIds \ {id}
    BY <1>3 DEF OnExternalFundingBalance
  <2>3. pending'[r] = None /\ \A x \in References \ {r} : pending'[x] = pending[x]
    BY <1>1, <2>2 DEF TypeOK
  <2>4. ASSUME NEW x \in References, x # r, pending[x] # None
        PROVE  pending[x].campaign.spec.id # id
    <3>1. authorizations[x] # None /\ authById[pending[x].campaign.spec.id] = x
      BY <2>4 DEF FundingInv, Indexed
    <3> QED
      BY <2>1, <2>4, <3>1
  <2>5. PendingIdsAre(pendingIds, pending)'
    <3>1. ASSUME NEW i
          PROVE  i \in pendingIds' <=>
                    \E x \in References : pending'[x] # None /\ pending'[x].campaign.spec.id = i
      <4>1. i \in pendingIds <=>
                \E x \in References : pending[x] # None /\ pending[x].campaign.spec.id = i
        BY DEF FundingInv, PendingIdsAre
      <4>2. ASSUME i \in pendingIds'
            PROVE  \E x \in References : pending'[x] # None /\ pending'[x].campaign.spec.id = i
        <5>1. PICK x \in References : pending[x] # None /\ pending[x].campaign.spec.id = i
          BY <2>2, <4>1, <4>2
        <5>2. x # r
          BY <2>2, <4>2, <5>1
        <5> QED
          BY <2>3, <5>1, <5>2
      <4>3. ASSUME NEW x \in References, pending'[x] # None, pending'[x].campaign.spec.id = i
            PROVE  i \in pendingIds'
        <5>1. x # r /\ pending[x] # None /\ pending[x].campaign.spec.id = i
          BY <2>3, <4>3
        <5> QED
          BY <2>2, <2>4, <4>1, <5>1
      <4> QED
        BY <4>2, <4>3
    <3> QED
      BY <3>1 DEF PendingIdsAre
  <2> HIDE DEF auth, id
  <2>6. CASE ~Proves(q, auth)
    <3>1. UNCHANGED <<campaigns, used, authorizations, authById>>
      BY <1>3, <2>6 DEF OnExternalFundingBalance, auth, id
    <3>2. Indexed(authorizations, authById, used)'
      BY <2>3, <3>1 DEF FundingInv, Indexed, SelfFunded
    <3> QED
      BY <2>5, <3>1, <3>2 DEF FundingInv, ReferenceFundsOneCampaign
  <2>7. CASE Proves(q, auth)
    <3>1. /\ authorizations' = [authorizations EXCEPT ![r] = None]
          /\ authById' = [authById EXCEPT ![id] = None]
          /\ campaigns' = [campaigns EXCEPT ![id] = auth.campaign]
          /\ used' = used \cup {r}
      BY <1>3, <2>7 DEF OnExternalFundingBalance, auth, id
    <3>2. campaigns[id] = None
      BY <2>7 DEF Proves, auth, id
    <3>3. ReferenceFundsOneCampaign'
      BY <2>1, <3>1, <3>2, NewCampaignReference DEF FundingInv
    <3>4. /\ authorizations' \in [References -> Authorization \cup {None}] /\ authorizations'[r] = None
          /\ \A x \in References \ {r} : authorizations'[x] = authorizations[x]
          /\ authById' \in [CampaignIds -> References \cup {None}] /\ authById'[id] = None
          /\ \A x \in CampaignIds \ {id} : authById'[x] = authById[x] /\ campaigns'[x] = campaigns[x]
      BY <1>1, <2>1, <3>1 DEF TypeOK
    <3>5. ASSUME NEW x \in References, authorizations'[x] # None
          PROVE  /\ authById'[authorizations'[x].campaign.spec.id] = x
                 /\ authorizations'[x].campaign.reference = x /\ x \notin used'
                 /\ SelfFunded(authorizations'[x].campaign.spec)
      <4>1. x # r /\ authorizations'[x] = authorizations[x]
            /\ authorizations[x].campaign.spec.id \in CampaignIds
        BY <3>4, <3>5, AuthorizationType DEF TypeOK
      <4>2. /\ authById[authorizations[x].campaign.spec.id] = x
            /\ authorizations[x].campaign.reference = x /\ x \notin used
            /\ SelfFunded(authorizations[x].campaign.spec)
        BY <3>5, <4>1 DEF FundingInv, Indexed
      <4>3. authorizations[x].campaign.spec.id # id
        BY <2>1, <4>1, <4>2
      <4> QED
        BY <3>1, <3>4, <4>1, <4>2, <4>3
    <3>6. ASSUME NEW i \in CampaignIds, authById'[i] # None
          PROVE  /\ authorizations'[authById'[i]] # None
                 /\ authorizations'[authById'[i]].campaign.spec.id = i /\ campaigns'[i] = None
      <4>1. i # id /\ authById'[i] = authById[i] /\ campaigns'[i] = campaigns[i]
        BY <3>4, <3>6
      <4>2. authById[i] \in References /\ authorizations[authById[i]] # None
            /\ authorizations[authById[i]].campaign.spec.id = i /\ campaigns[i] = None
        BY <3>6, <4>1 DEF FundingInv, Indexed
      <4>3. authById[i] # r
        BY <2>1, <4>1, <4>2 DEF id
      <4> QED
        BY <3>4, <4>1, <4>2, <4>3
    <3>7. \A x \in References : pending'[x] # None => pending'[x] = authorizations'[x]
      BY <2>3, <3>4 DEF FundingInv, Indexed
    <3>8. Indexed(authorizations, authById, used)'
      BY <3>4, <3>5, <3>6, <3>7 DEF Indexed, SelfFunded
    <3> QED
      BY <2>5, <3>3, <3>8 DEF FundingInv
  <2> QED
    BY <2>6, <2>7
<1> QED
  BY <1>2, <1>3

LEMMA AcceptFunding ==
  ASSUME TypeOK, FundingInv, NEW t \in inbound, FtOnTransferAccept(t)
  PROVE  FundingInv'
<1> DEFINE c == Build(t.spec, t.amount, t.reference, "direct_usdc")
           id == t.spec.id
<1>1. /\ campaigns' = [campaigns EXCEPT ![id] = c] /\ used' = used \cup {t.reference}
      /\ UNCHANGED <<authorizations, authById, pending, pendingIds>>
      /\ campaigns[id] = None /\ authById[id] = None /\ ReferenceAvailable(t.reference)
  BY DEF FtOnTransferAccept, Acceptable, Buildable
<1>2. id \in CampaignIds /\ c.reference = t.reference
  BY DEF FtOnTransferAccept, Acceptable, TypeOK, Inbound, Spec0, Build
<1> HIDE DEF c, id
<1>3. ReferenceFundsOneCampaign'
  BY <1>1, <1>2, NewCampaignReference DEF FundingInv, ReferenceAvailable
<1>4. \A x \in CampaignIds \ {id} : campaigns'[x] = campaigns[x]
  BY <1>1 DEF TypeOK
<1>5. Indexed(authorizations, authById, used)'
  BY <1>1, <1>4 DEF FundingInv, Indexed, SelfFunded, ReferenceAvailable
<1> QED
  BY <1>1, <1>3, <1>5 DEF FundingInv, PendingIdsAre

\* A step of a payout moves the status of campaigns that are there, and no funding map.
LEMMA FundingUnmoved ==
  ASSUME TypeOK, FundingInv, [Next]_vars,
         UNCHANGED <<used, authorizations, authById, pending, pendingIds>>,
         \A id \in CampaignIds : campaigns[id] = None => campaigns'[id] = None
  PROVE  FundingInv'
<1>1. \A id \in CampaignIds : campaigns[id] # None =>
         campaigns'[id] # None /\ campaigns'[id].reference = campaigns[id].reference
  BY TermsFixed DEF SameTerms
<1>2. Indexed(authorizations, authById, used)'
  BY DEF FundingInv, Indexed, SelfFunded
<1>3. ReferenceFundsOneCampaign'
  BY <1>1 DEF FundingInv, ReferenceFundsOneCampaign
<1> QED
  BY <1>2, <1>3 DEF FundingInv, PendingIdsAre

\* Payouts are of campaigns that are there.
LEMMA PayOutOfExisting ==
  ASSUME TypeOK, PayoutInv, PayOut, NEW id \in CampaignIds, campaigns[id] = None
  PROVE  campaigns'[id] = None
<1>1. ASSUME NEW p \in permits, Claim(p)
      PROVE  campaigns'[id] = None
  BY <1>1 DEF Claim, TypeOK, Permit
<1>2. ASSUME NEW i \in CampaignIds, campaigns[i] # None, StartRefund(i)
      PROVE  campaigns'[id] = None
  BY <1>2 DEF StartRefund, TypeOK
<1>3. ASSUME NEW i \in CampaignIds, RetryRefund(i)
      PROVE  campaigns'[id] = None
  BY <1>3 DEF RetryRefund, TypeOK
<1>4. ASSUME NEW m \in payouts, OnClaimTransfer(m)
      PROVE  campaigns'[id] = None
  BY <1>4 DEF OnClaimTransfer, StaleClaim, TypeOK, Payout
<1>5. ASSUME NEW m \in payouts, OnRefundTransfer(m)
      PROVE  campaigns'[id] = None
  BY <1>5 DEF OnRefundTransfer, StaleRefund, TypeOK, Payout
<1> QED
  BY <1>1, <1>2, <1>3, <1>4, <1>5 DEF PayOut, SignPermit, CancelBeforeOpen, ExpireAndRefund,
     FtTransferOk, FtTransferFail, escrow

LEMMA FundingNext ==
  ASSUME TypeOK, PayoutInv, FundingInv, [Next]_vars
  PROVE  FundingInv'
<1>1. CASE PayOut
  <2>1. UNCHANGED <<used, authorizations, authById, pending, pendingIds>>
    BY <1>1 DEF PayOut, SignPermit, Claim, CancelBeforeOpen, ExpireAndRefund, StartRefund, RetryRefund,
       FtTransferOk, FtTransferFail, OnClaimTransfer, OnRefundTransfer, escrow
  <2> QED
    BY <1>1, <2>1, PayOutOfExisting, FundingUnmoved
<1>2. ASSUME UNCHANGED escrow
      PROVE  FundingInv'
  BY <1>2, FundingUnmoved DEF escrow
<1>3. ASSUME Fund
      PROVE  FundingInv'
  BY <1>2, <1>3, AcceptFunding DEF Fund, FtTransferCall, FtOnTransferReject, FtResolveTransfer
<1>4. ASSUME FundExternally
      PROVE  FundingInv'
  <2>1. ASSUME NEW r \in References, Retire(r)
        PROVE  FundingInv'
    BY <2>1, RetireFunding
  <2> QED
    BY <1>2, <1>4, <2>1, AuthorizeFunding, ActivateFunding, BalanceFunding
       DEF FundExternally, ProviderDeposit, RevokeAuthorization, CleanupAuthorization, FtBalanceOf
<1>5. ASSUME Tick \/ UNCHANGED vars
      PROVE  FundingInv'
  BY <1>2, <1>5 DEF Tick, vars
<1> QED
  BY <1>1, <1>3, <1>4, <1>5 DEF Next

LEMMA FundingInvariant == Spec => []FundingInv
<1>1. Init => FundingInv
  BY NoneAssumption DEF Init, FundingInv, Indexed, PendingIdsAre, ReferenceFundsOneCampaign
<1>2. TypeOK /\ PayoutInv /\ FundingInv /\ [Next]_vars => FundingInv'
  BY FundingNext
<1> QED
  BY <1>1, <1>2, TypeCorrect, PayoutInvariant, PTL DEF Spec

\* A reference funds one campaign, and the authorization maps agree on which, whatever is
\* authorized, revoked, replaced, activated and answered in between (contract-v2/src/lib.rs,
\* validate_reference_available and retire_external_authorization).
THEOREM FundingIsSafe == Spec => []FundingSafe
<1>1. FundingInv => FundingSafe
  BY FundingInvSafe
<1> QED
  BY <1>1, FundingInvariant, PTL

-----------------------------------------------------------------------------
(* Allocation.  A campaign appears in one of two steps only.                *)

\* The campaign that transfer t, or the answer to a balance query on r, has made.
FundedBy(id, t) ==
    FtOnTransferAccept(t) /\ t.spec.id = id /\ campaigns'[id] = Build(t.spec, t.amount, t.reference, "direct_usdc")

AllocatedBy(id, r) ==
    /\ pending[r] # None /\ authorizations[r] = pending[r]
    /\ campaigns'[id] = pending[r].campaign

LEMMA NewCampaigns ==
  ASSUME TypeOK, PayoutInv, FundingInv, [Next]_vars, NEW id \in CampaignIds,
         campaigns[id] = None, campaigns'[id] # None
  PROVE  /\ campaigns' = [campaigns EXCEPT ![id] = campaigns'[id]]
         /\ \/ \E t \in inbound : FundedBy(id, t)
            \/ \E r \in References : AllocatedBy(id, r)
<1>1. ASSUME NEW t \in inbound, FtOnTransferAccept(t)
      PROVE  FundedBy(id, t) /\ campaigns' = [campaigns EXCEPT ![id] = campaigns'[id]]
  <2>1. campaigns' = [campaigns EXCEPT ![t.spec.id] = Build(t.spec, t.amount, t.reference, "direct_usdc")]
    BY <1>1 DEF FtOnTransferAccept
  <2>2. t.spec.id = id
    BY <2>1 DEF TypeOK
  <2> QED
    BY <1>1, <2>1, <2>2 DEF FundedBy, TypeOK
<1>2. ASSUME NEW q \in queries, OnExternalFundingBalance(q)
      PROVE  /\ \E r \in References : AllocatedBy(id, r)
             /\ campaigns' = [campaigns EXCEPT ![id] = campaigns'[id]]
  <2> DEFINE r == q.reference
             new == pending[r].campaign
  <2>1. r \in References
    BY DEF TypeOK, Query
  <2>2. pending[r] # None /\ campaigns' = [campaigns EXCEPT ![new.spec.id] = new]
    BY <1>2 DEF OnExternalFundingBalance, escrow
  <2>3. campaigns'[id] = new /\ new.spec.id = id
    BY <2>2 DEF TypeOK
  <2>4. authorizations[r] = pending[r]
    BY <2>1, <2>2 DEF FundingInv, Indexed
  <2> QED
    BY <2>1, <2>2, <2>3, <2>4 DEF AllocatedBy
<1>3. ~UNCHANGED campaigns
  OBVIOUS
<1>4. ~(Tick \/ UNCHANGED vars \/ PayOut)
  BY <1>3, PayOutOfExisting DEF Tick, vars, escrow
<1>5. CASE Fund
  BY <1>1, <1>3, <1>5 DEF Fund, FtTransferCall, FtOnTransferReject, FtResolveTransfer, escrow
<1>6. CASE FundExternally
  BY <1>2, <1>3, <1>6, FundExternallyFrame
<1> QED
  BY <1>4, <1>5, <1>6 DEF Next

\* "The operator cannot author or modify a prize" (contract-v2): whatever is revoked,
\* replaced or answered while an allocation is pending, the campaign that it makes is the
\* one its own creator authorized, and that creator is not the operator.
THEOREM AllocationsAsAuthorized == Spec => AllocatedAsAuthorized
<1> DEFINE Authored(id) ==
             campaigns[id] = None /\ campaigns'[id] # None /\ campaigns'[id].rail # "direct_usdc" =>
                \E r \in References :
                   /\ authorizations[r] # None /\ pending[r] = authorizations[r]
                   /\ campaigns'[id] = authorizations[r].campaign
                   /\ LET terms == campaigns'[id].spec
                      IN  /\ terms.creator # Operator
                          /\ terms.controller = terms.creator /\ terms.refundTo = terms.creator
<1>1. ASSUME TypeOK, PayoutInv, FundingInv, [Next]_vars, NEW id \in CampaignIds
      PROVE  Authored(id)
  <2> SUFFICES ASSUME campaigns[id] = None, campaigns'[id] # None, campaigns'[id].rail # "direct_usdc"
               PROVE  Authored(id)
    OBVIOUS
  <2>1. ASSUME NEW t \in inbound, FundedBy(id, t)
        PROVE  FALSE
    BY <2>1 DEF FundedBy, Build
  <2>2. PICK r \in References : AllocatedBy(id, r)
    BY <1>1, <2>1, NewCampaigns
  <2>3. authorizations[r] # None /\ pending[r] = authorizations[r]
        /\ campaigns'[id] = authorizations[r].campaign
    BY <2>2 DEF AllocatedBy
  <2>4. SelfFunded(campaigns'[id].spec)
    BY <1>1, <2>3 DEF FundingInv, Indexed
  <2> QED
    BY <2>3, <2>4 DEF SelfFunded
<1>2. TypeOK /\ PayoutInv /\ FundingInv /\ [Next]_vars => [\A id \in CampaignIds : Authored(id)]_vars
  BY <1>1
<1> QED
  BY <1>2, TypeCorrect, PayoutInvariant, FundingInvariant, PTL DEF Spec, AllocatedAsAuthorized

-----------------------------------------------------------------------------
(* Refinement.  Funding is Fund, a signed permit is Endorse, an executed     *)
(* payout is Pay or Return; every other step leaves the promise as it is.    *)

\* The one disbursement of a campaign settles what the promise shows of it.
LEMMA OneExit ==
  ASSUME NEW D, NEW d \in D, \A e \in D : e.id = d.id => e = d
  PROVE  /\ \A kind : (\E e \in D : e.id = d.id /\ e.kind = kind) <=> d.kind = kind
         /\ (CHOOSE e \in D : e.id = d.id) = d
         /\ Cardinality({e \in D : e.id = d.id}) = 1
<1>1. {e \in D : e.id = d.id} = {d}
  OBVIOUS
<1>2. Cardinality({d}) = 1
  BY FS_Singleton
<1>3. (CHOOSE e \in D : e.id = d.id) = d
  OBVIOUS
<1> QED
  BY <1>1, <1>2, <1>3

LEMMA MappedStutter ==
  ASSUME TypeOK, [Next]_vars, UNCHANGED <<permits, disbursed>>,
         \A id \in CampaignIds : campaigns[id] = None => campaigns'[id] = None
  PROVE  UNCHANGED Promise!vars
<1>1. \A id \in CampaignIds : campaigns[id] # None =>
         campaigns'[id] # None /\ campaigns'[id].spec = campaigns[id].spec
  BY TermsFixed DEF SameTerms
<1>2. prizeOf' = prizeOf
  BY <1>1 DEF prizeOf, DisbursedTo
<1>3. refundToOf' = refundToOf
  <2>1. ASSUME NEW id \in CampaignIds
        PROVE  refundToOf'[id] = refundToOf[id]
    <3>1. CASE campaigns[id] = None
      BY <3>1 DEF refundToOf
    <3>2. CASE campaigns[id] # None
      BY <1>1, <3>2 DEF refundToOf
    <3> QED
      BY <3>1, <3>2
  <2> QED
    BY <2>1 DEF refundToOf
<1>4. payeeOf' = payeeOf
  BY DEF payeeOf
<1>5. exitsOf' = exitsOf
  BY DEF exitsOf
<1> QED
  BY <1>2, <1>3, <1>4, <1>5 DEF Promise!vars

LEMMA MappedFund ==
  ASSUME TypeOK, PayoutInv, NEW id \in CampaignIds, NEW c \in Campaign, campaigns[id] = None,
         campaigns' = [campaigns EXCEPT ![id] = c], UNCHANGED <<permits, disbursed>>
  PROVE  Promise!Fund(id, c.spec.refundTo)
<1>1. c # None /\ campaigns'[id] = c /\ \A i \in CampaignIds \ {id} : campaigns'[i] = campaigns[i]
  BY NoneAssumption DEF TypeOK
<1>2. \A d \in disbursed : d.id # id
  BY DEF PayoutInv, DisbursedOnce
<1>3. prizeOf[id] = "none"
  BY <1>2 DEF prizeOf, DisbursedTo
<1>4. prizeOf' = [prizeOf EXCEPT ![id] = "held"]
  BY <1>1, <1>2 DEF prizeOf, DisbursedTo
<1>5. refundToOf' = [refundToOf EXCEPT ![id] = c.spec.refundTo]
  <2>1. refundToOf'[id] = c.spec.refundTo
    BY <1>1 DEF refundToOf
  <2>2. ASSUME NEW i \in CampaignIds \ {id}
        PROVE  refundToOf'[i] = refundToOf[i]
    <3>1. campaigns'[i] = campaigns[i]
      BY <1>1
    <3> QED
      BY <3>1 DEF refundToOf
  <2>3. refundToOf = [i \in CampaignIds |-> refundToOf[i]] /\ refundToOf' = [i \in CampaignIds |-> refundToOf'[i]]
    BY DEF refundToOf
  <2> QED
    BY <2>1, <2>2, <2>3
<1>6. payeeOf' = payeeOf
  BY DEF payeeOf
<1>7. exitsOf' = exitsOf
  BY DEF exitsOf
<1> QED
  BY <1>3, <1>4, <1>5, <1>6, <1>7 DEF Promise!Fund

LEMMA MappedEndorse ==
  ASSUME TypeOK, NEW id \in CampaignIds, NEW receiver \in Receivers, NEW nonce, NEW deadline,
         SignPermit(id, receiver, nonce, deadline)
  PROVE  Promise!Endorse(id, receiver)
<1>1. campaigns[id] # None /\ UNCHANGED <<campaigns, disbursed>>
  BY DEF SignPermit, escrow, token
<1>2. prizeOf[id] # "none"
  BY <1>1 DEF prizeOf
<1> DEFINE p == [id |-> id, receiver |-> receiver, nonce |-> nonce, deadline |-> deadline]
<1>3. permits' = permits \cup {p} /\ p.id = id /\ p.receiver = receiver
  BY DEF SignPermit
<1> HIDE DEF p
<1>4. {<<q.id, q.receiver>> : q \in permits'} = {<<q.id, q.receiver>> : q \in permits} \cup {<<id, receiver>>}
  BY <1>3
<1>5. UNCHANGED <<prizeOf, refundToOf, payeeOf, exitsOf>>
  BY <1>1 DEF prizeOf, DisbursedTo, refundToOf, payeeOf, exitsOf
<1> QED
  BY <1>2, <1>4, <1>5 DEF Promise!Endorse

\* The payout that is executed is the first of its campaign, and finds the prize held.
LEMMA MappedLeave ==
  ASSUME TypeOK, PayoutInv, ReceiversRight, NEW m \in payouts, FtTransferOk(m)
  PROVE  Promise!Leave(m.id)
<1> DEFINE id == m.id
           d == [id |-> m.id, kind |-> m.kind, seq |-> m.seq, to |-> m.to, amount |-> m.amount]
<1>1. /\ id \in CampaignIds /\ m.kind \in {"claim", "refund"} /\ m.to \in Accounts /\ m.reply = "sent"
      /\ disbursed' = disbursed \cup {d} /\ UNCHANGED <<campaigns, permits>>
  BY DEF TypeOK, Payout, FtTransferOk, escrow
<1>2. d.id = id /\ d.kind = m.kind /\ d.to = m.to
  OBVIOUS
<1> HIDE DEF d
<1>3. campaigns[id] # None /\ campaigns[id].status.state \in {"Claiming", "Refunding"}
  BY <1>1 DEF PayoutInv, OnePayoutInFlight, StaleClaim, StaleRefund
<1>4. ASSUME NEW e \in disbursed
      PROVE  e.id # id
  BY <1>1, <1>3 DEF PayoutInv, OnePayoutInFlight, DisbursedOnce
<1>5. prizeOf[id] = "held"
  <2>1. ~DisbursedTo(id, "claim") /\ ~DisbursedTo(id, "refund")
    BY <1>4 DEF DisbursedTo
  <2> QED
    BY <1>1, <1>3, <2>1 DEF prizeOf
<1>6. /\ \A kind : (\E e \in disbursed' : e.id = id /\ e.kind = kind) <=> m.kind = kind
      /\ (CHOOSE e \in disbursed' : e.id = id) = d
      /\ Cardinality({e \in disbursed' : e.id = id}) = 1
  <2>1. d \in disbursed' /\ \A e \in disbursed' : e.id = d.id => e = d
    BY <1>1, <1>2, <1>4
  <2> QED
    BY <1>2, <2>1, OneExit
<1>7. \A i \in CampaignIds \ {id} : \A e : (e \in disbursed' /\ e.id = i) <=> (e \in disbursed /\ e.id = i)
  BY <1>1, <1>2
<1>8. prizeOf' = [prizeOf EXCEPT ![id] = IF m.kind = "claim" THEN "paid" ELSE "returned"]
  <2>1. prizeOf'[id] = IF m.kind = "claim" THEN "paid" ELSE "returned"
    BY <1>1, <1>6 DEF prizeOf, DisbursedTo
  <2>2. ASSUME NEW i \in CampaignIds \ {id}
        PROVE  prizeOf'[i] = prizeOf[i]
    BY <1>1, <1>7 DEF prizeOf, DisbursedTo
  <2> QED
    BY <2>1, <2>2 DEF prizeOf
<1>9. payeeOf' = [payeeOf EXCEPT ![id] = m.to]
  <2>1. payeeOf'[id] = m.to
    BY <1>1, <1>2, <1>6 DEF payeeOf
  <2>2. ASSUME NEW i \in CampaignIds \ {id}
        PROVE  payeeOf'[i] = payeeOf[i]
    <3>1. \A e : (e \in disbursed' /\ e.id = i) <=> (e \in disbursed /\ e.id = i)
      BY <1>7
    <3>2. (CHOOSE e : e \in disbursed' /\ e.id = i) = (CHOOSE e : e \in disbursed /\ e.id = i)
      BY <3>1
    <3> QED
      BY <3>1, <3>2 DEF payeeOf
  <2> QED
    BY <2>1, <2>2 DEF payeeOf
<1>10. exitsOf' = [exitsOf EXCEPT ![id] = 1]
  <2>1. exitsOf'[id] = 1
    BY <1>1, <1>6 DEF exitsOf
  <2>2. ASSUME NEW i \in CampaignIds \ {id}
        PROVE  exitsOf'[i] = exitsOf[i]
    <3>1. {e \in disbursed' : e.id = i} = {e \in disbursed : e.id = i}
      BY <1>7
    <3> QED
      BY <3>1 DEF exitsOf
  <2> QED
    BY <2>1, <2>2 DEF exitsOf
<1>11. refundToOf' = refundToOf /\ UNCHANGED {<<p.id, p.receiver>> : p \in permits}
  BY <1>1 DEF refundToOf
<1>12. RightReceiver(m.kind, id, m.to, m.seq)
  BY DEF ReceiversRight
<1> HIDE DEF id
<1>13. CASE m.kind = "claim"
  <2>1. <<id, m.to>> \in {<<p.id, p.receiver>> : p \in permits}
    BY <1>12, <1>13 DEF RightReceiver
  <2>2. Promise!Pay(id, m.to)
    BY <1>5, <1>8, <1>9, <1>10, <1>11, <1>13, <2>1 DEF Promise!Pay
  <2> QED
    BY <1>1, <2>2 DEF Promise!Leave, id
<1>14. CASE m.kind = "refund"
  <2>1. refundToOf[id] = m.to
    BY <1>1, <1>3, <1>12, <1>14 DEF RightReceiver, refundToOf
  <2>2. Promise!Return(id)
    BY <1>5, <1>8, <1>9, <1>10, <1>11, <1>14, <2>1 DEF Promise!Return
  <2> QED
    BY <2>2 DEF Promise!Leave, id
<1> QED
  BY <1>1, <1>13, <1>14

\* A step that touches neither permits nor disbursements, unless it signs or pays.
LEMMA PermitsAndDisbursements ==
  ASSUME [Next]_vars
  PROVE  \/ UNCHANGED <<permits, disbursed>>
         \/ \E id \in CampaignIds, receiver \in Receivers, nonce \in 0 .. MaxSeq - 1, deadline \in Deadlines :
               SignPermit(id, receiver, nonce, deadline)
         \/ \E m \in payouts : FtTransferOk(m)
<1>1. ASSUME FundExternally
      PROVE  UNCHANGED <<permits, disbursed>>
  BY <1>1, FundExternallyFrame
<1>2. ASSUME Fund \/ Tick \/ UNCHANGED vars
      PROVE  UNCHANGED <<permits, disbursed>>
  BY <1>2 DEF Fund, FtTransferCall, FtOnTransferAccept, FtOnTransferReject, FtResolveTransfer, Tick, vars,
     token
<1>3. ASSUME PayOut, ~\E m \in payouts : FtTransferOk(m)
      PROVE  \/ UNCHANGED <<permits, disbursed>>
             \/ \E id \in CampaignIds, receiver \in Receivers, nonce \in 0 .. MaxSeq - 1,
                   deadline \in Deadlines : SignPermit(id, receiver, nonce, deadline)
  BY <1>3 DEF PayOut, Claim, CancelBeforeOpen, ExpireAndRefund, StartRefund, RetryRefund,
     FtTransferFail, OnClaimTransfer, OnRefundTransfer
<1> QED
  BY <1>1, <1>2, <1>3 DEF Next

LEMMA MappedNewCampaign ==
  ASSUME TypeOK, TypeOK', PayoutInv, FundingInv, [Next]_vars, UNCHANGED <<permits, disbursed>>,
         NEW id \in CampaignIds, campaigns[id] = None, campaigns'[id] # None
  PROVE  Promise!Next
<1> DEFINE c == campaigns'[id]
<1>1. c \in Campaign /\ campaigns' = [campaigns EXCEPT ![id] = c]
  BY NewCampaigns DEF TypeOK
<1> HIDE DEF c
<1>2. Promise!Fund(id, c.spec.refundTo)
  BY <1>1, MappedFund
<1>3. c.spec.refundTo \in Accounts
  BY <1>1 DEF Campaign, Spec0
<1> QED
  BY <1>2, <1>3 DEF Promise!Next

\* The contract with its promises and callbacks keeps the promise of PrizeEscrow: a prize is
\* held once and leaves once, for an endorsed receiver or for the refund account.
THEOREM PromiseKept == Spec => ImplementsPrizeEscrow
<1>1. Init => Promise!Init
  <2> SUFFICES ASSUME Init PROVE Promise!Init
    OBVIOUS
  <2>1. prizeOf = [id \in CampaignIds |-> "none"]
    BY DEF Init, prizeOf, DisbursedTo
  <2>2. refundToOf = [id \in CampaignIds |-> None]
    BY DEF Init, refundToOf
  <2>3. payeeOf = [id \in CampaignIds |-> None]
    BY DEF Init, payeeOf
  <2>4. exitsOf = [id \in CampaignIds |-> 0]
    <3>1. \A id \in CampaignIds : {d \in disbursed : d.id = id} = {}
      BY DEF Init
    <3> QED
      BY <3>1, FS_EmptySet DEF exitsOf
  <2>5. {<<p.id, p.receiver>> : p \in permits} = {}
    BY DEF Init
  <2> QED
    BY <2>1, <2>2, <2>3, <2>4, <2>5 DEF Promise!Init
<1>2. ASSUME TypeOK, TypeOK', PayoutInv, FundingInv, ReceiversRight, [Next]_vars
      PROVE  [Promise!Next]_(Promise!vars)
  <2>1. ASSUME NEW m \in payouts, FtTransferOk(m)
        PROVE  Promise!Next
    <3>1. m.id \in CampaignIds
      BY <1>2 DEF TypeOK, Payout
    <3> QED
      BY <1>2, <2>1, <3>1, MappedLeave DEF Promise!Next
  <2>2. ASSUME NEW id \in CampaignIds, NEW receiver \in Receivers, NEW nonce \in 0 .. MaxSeq - 1,
               NEW deadline \in Deadlines, SignPermit(id, receiver, nonce, deadline)
        PROVE  Promise!Next
    <3>1. Promise!Endorse(id, receiver)
      BY <1>2, <2>2, MappedEndorse
    <3> QED
      BY <3>1, AccountsAssumption DEF Promise!Next
  <2>3. CASE UNCHANGED <<permits, disbursed>>
    BY <1>2, <2>3, MappedNewCampaign, MappedStutter
  <2> QED
    BY <1>2, <2>1, <2>2, <2>3, PermitsAndDisbursements
<1> QED
  BY <1>1, <1>2, TypeCorrect, PayoutInvariant, FundingInvariant, ReceiversInvariant, PTL
     DEF Spec, ImplementsPrizeEscrow, Promise!Spec

-----------------------------------------------------------------------------
(* Solvency.  Every unit that has left the vault or is still to leave it is  *)
(* counted under the campaign or the transfer that moves it.                 *)

PaidAmounts == {<<m.id, m.amount>> : m \in {n \in payouts : n.reply = "ok"}}
InboundAmounts == {<<t.name, t.amount>> : t \in inbound}

NamesOnce == \A t, u \in inbound : t.name = u.name => t = u

\* What a creator authorizes externally is not funded directly.
RoutedOutside ==
    \A r \in References : authorizations[r] # None => authorizations[r].campaign.rail # "direct_usdc"

SolvencyInv ==
    /\ NamesOnce
    /\ RoutedOutside
    /\ IsFiniteSet(PaidUnits) /\ IsFiniteSet(InboundUnits)
    /\ Solvent

LEMMA UnitsOfPairs ==
  ASSUME NEW S
  PROVE  /\ UNION {{m.id} \X (1 .. m.amount) : m \in S} = UnitsIn({<<m.id, m.amount>> : m \in S})
         /\ UNION {{m.name} \X (1 .. m.amount) : m \in S} = UnitsIn({<<m.name, m.amount>> : m \in S})
<1>1. {Block(p[1], p[2]) : p \in {<<m.id, m.amount>> : m \in S}} = {Block(m.id, m.amount) : m \in S}
  <2>1. \A m \in S : <<m.id, m.amount>>[1] = m.id /\ <<m.id, m.amount>>[2] = m.amount
    OBVIOUS
  <2> QED
    BY <2>1, Zenon
<1>2. {Block(p[1], p[2]) : p \in {<<m.name, m.amount>> : m \in S}} = {Block(m.name, m.amount) : m \in S}
  <2>1. \A m \in S : <<m.name, m.amount>>[1] = m.name /\ <<m.name, m.amount>>[2] = m.amount
    OBVIOUS
  <2> QED
    BY <2>1, Zenon
<1> QED
  BY <1>1, <1>2, Zenon DEF UnitsIn, Block

LEMMA Margin ==
  ASSUME NEW v \in Nat, NEW v2 \in Nat, NEW r \in Nat, NEW r2 \in Nat, NEW p \in Nat, NEW i \in Nat,
         NEW paid \in Int, NEW due \in Int, v2 + paid - due - r2 >= v - r, v + p >= r + i
  PROVE  v2 + (p + paid) >= r2 + (i + due)
OBVIOUS

\* An escrow that is funded directly after a step was so before it.
LEMMA DirectBefore ==
  ASSUME TypeOK, [Next]_vars, FundedDirectly'
  PROVE  FundedDirectly
BY TermsFixed DEF FundedDirectly, SameTerms

\* The step leaves at least as much over as there was.
LEMMA SolvencyKept ==
  ASSUME TypeOK, TypeOK', SolvencyInv, [Next]_vars, NamesOnce', RoutedOutside',
         NEW paid \in Int, NEW due \in Int,
         IsFiniteSet(PaidUnits'), Cardinality(PaidUnits') = Cardinality(PaidUnits) + paid,
         IsFiniteSet(InboundUnits'), Cardinality(InboundUnits') = Cardinality(InboundUnits) + due,
         FundedDirectly' => vault' + paid - due - totalReserved' >= vault - totalReserved
  PROVE  SolvencyInv'
<1>1. /\ Cardinality(PaidUnits) \in Nat /\ Cardinality(InboundUnits) \in Nat
      /\ Cardinality(PaidUnits') \in Nat /\ Cardinality(InboundUnits') \in Nat
  BY FS_CardinalityType DEF SolvencyInv
<1>2. vault \in Nat /\ vault' \in Nat /\ totalReserved \in Nat /\ totalReserved' \in Nat
  BY DEF TypeOK
<1>3. ASSUME FundedDirectly'
      PROVE  vault' + Cardinality(PaidUnits') >= totalReserved' + Cardinality(InboundUnits')
  <2>1. vault + Cardinality(PaidUnits) >= totalReserved + Cardinality(InboundUnits)
    BY <1>3, DirectBefore DEF SolvencyInv, Solvent
  <2>2. vault' + paid - due - totalReserved' >= vault - totalReserved
    BY <1>3
  <2> DEFINE p == Cardinality(PaidUnits)
             i == Cardinality(InboundUnits)
  <2>3. p \in Nat /\ i \in Nat /\ vault + p >= totalReserved + i
    BY <1>1, <2>1
  <2> HIDE DEF p, i
  <2>4. vault' + (p + paid) >= totalReserved' + (i + due)
    BY <1>2, <2>2, <2>3, Margin
  <2> QED
    BY <2>4 DEF p, i
<1>4. Solvent'
  BY <1>3 DEF Solvent
<1> QED
  BY <1>4 DEF SolvencyInv

LEMMA PaidUnmoved ==
  ASSUME \A m : (m \in payouts' /\ m.reply = "ok") <=> (m \in payouts /\ m.reply = "ok")
  PROVE  PaidUnits' = PaidUnits
<1>1. {n \in payouts' : n.reply = "ok"} = {n \in payouts : n.reply = "ok"}
  OBVIOUS
<1> QED
  BY <1>1 DEF PaidUnits

LEMMA PaidKeysOnce ==
  ASSUME PayoutInv
  PROVE  KeysOnce(PaidAmounts)
BY DEF PayoutInv, OnePayoutInFlight, KeysOnce, PaidAmounts

LEMMA InboundKeysOnce ==
  ASSUME NamesOnce
  PROVE  KeysOnce(InboundAmounts)
BY DEF NamesOnce, KeysOnce, InboundAmounts

\* One transfer more, or one less.
LEMMA InboundMore ==
  ASSUME TypeOK, SolvencyInv, NEW t \in Inbound, inbound' = inbound \cup {t}, \A u \in inbound : u.name # t.name
  PROVE  /\ NamesOnce' /\ IsFiniteSet(InboundUnits')
         /\ Cardinality(InboundUnits') = Cardinality(InboundUnits) + t.amount
<1>1. InboundAmounts' = InboundAmounts \cup {<<t.name, t.amount>>}
  BY DEF InboundAmounts
<1>2. t.amount \in Nat /\ \A p \in InboundAmounts : p[1] # t.name
  BY DEF InboundAmounts, Inbound
<1>3. NamesOnce'
  BY DEF NamesOnce, SolvencyInv
<1>4. InboundUnits' = UnitsIn(InboundAmounts') /\ InboundUnits = UnitsIn(InboundAmounts)
  BY UnitsOfPairs DEF InboundUnits, InboundAmounts
<1>5. IsFiniteSet(UnitsIn(InboundAmounts))
  BY <1>4 DEF SolvencyInv
<1> QED
  BY <1>1, <1>2, <1>3, <1>4, <1>5, AddAmount

LEMMA InboundLess ==
  ASSUME TypeOK, SolvencyInv, NEW t \in inbound, inbound' = inbound \ {t}
  PROVE  /\ NamesOnce' /\ IsFiniteSet(InboundUnits')
         /\ Cardinality(InboundUnits') = Cardinality(InboundUnits) - t.amount
<1>1. <<t.name, t.amount>> \in InboundAmounts /\ KeysOnce(InboundAmounts)
  BY InboundKeysOnce DEF InboundAmounts, SolvencyInv
<1>2. InboundAmounts' = InboundAmounts \ {<<t.name, t.amount>>}
  <2>1. \A u \in inbound : u # t => u.name # t.name
    BY DEF SolvencyInv, NamesOnce
  <2> QED
    BY <2>1 DEF InboundAmounts
<1>3. t.amount \in Nat
  BY DEF TypeOK, Inbound
<1>4. NamesOnce'
  BY DEF NamesOnce, SolvencyInv
<1>5. InboundUnits' = UnitsIn(InboundAmounts') /\ InboundUnits = UnitsIn(InboundAmounts)
  BY UnitsOfPairs DEF InboundUnits, InboundAmounts
<1>6. IsFiniteSet(UnitsIn(InboundAmounts))
  BY <1>5 DEF SolvencyInv
<1> QED
  BY <1>1, <1>2, <1>3, <1>4, <1>5, <1>6, RemoveAmount

\* A payout that is executed, and one whose success the callback has reported.
LEMMA PaidMore ==
  ASSUME TypeOK, PayoutInv, SolvencyInv, NEW m \in payouts, FtTransferOk(m)
  PROVE  IsFiniteSet(PaidUnits') /\ Cardinality(PaidUnits') = Cardinality(PaidUnits) + m.amount
<1> DEFINE n == [m EXCEPT !.reply = "ok"]
<1>1. m \in Payout /\ m.reply = "sent" /\ payouts' = (payouts \ {m}) \cup {n}
  BY DEF TypeOK, FtTransferOk
<1>2. n.id = m.id /\ n.amount = m.amount /\ n.reply = "ok" /\ m.amount \in Nat
  BY <1>1 DEF Payout
<1> HIDE DEF n
<1>3. PaidAmounts' = PaidAmounts \cup {<<m.id, m.amount>>}
  BY <1>1, <1>2 DEF PaidAmounts
<1>4. \A p \in PaidAmounts : p[1] # m.id
  BY <1>1 DEF PaidAmounts, PayoutInv, OnePayoutInFlight
<1>5. PaidUnits' = UnitsIn(PaidAmounts') /\ PaidUnits = UnitsIn(PaidAmounts)
  BY UnitsOfPairs DEF PaidUnits, PaidAmounts
<1>6. IsFiniteSet(UnitsIn(PaidAmounts))
  BY <1>5 DEF SolvencyInv
<1> QED
  BY <1>2, <1>3, <1>4, <1>5, <1>6, AddAmount

LEMMA PaidLess ==
  ASSUME TypeOK, PayoutInv, SolvencyInv, NEW m \in payouts, m.reply = "ok", payouts' = payouts \ {m}
  PROVE  IsFiniteSet(PaidUnits') /\ Cardinality(PaidUnits') = Cardinality(PaidUnits) - m.amount
<1>1. <<m.id, m.amount>> \in PaidAmounts /\ m.amount \in Nat
  BY DEF PaidAmounts, TypeOK, Payout
<1>2. PaidAmounts' = PaidAmounts \ {<<m.id, m.amount>>}
  <2>1. \A n \in payouts : n # m => n.id # m.id
    BY DEF PayoutInv, OnePayoutInFlight
  <2> QED
    BY <2>1 DEF PaidAmounts
<1>3. PaidUnits' = UnitsIn(PaidAmounts') /\ PaidUnits = UnitsIn(PaidAmounts)
  BY UnitsOfPairs DEF PaidUnits, PaidAmounts
<1>4. IsFiniteSet(UnitsIn(PaidAmounts))
  BY <1>3 DEF SolvencyInv
<1> QED
  BY <1>1, <1>2, <1>3, <1>4, PaidKeysOnce, RemoveAmount

\* Only authorize_external_funding records an authorization, and never of the direct rail.
LEMMA StaysRoutedOutside ==
  ASSUME TypeOK, RoutedOutside, [Next]_vars
  PROVE  RoutedOutside'
<1>1. ASSUME \A r \in References : authorizations'[r] \in {None, authorizations[r]}
      PROVE  RoutedOutside'
  BY <1>1 DEF RoutedOutside
<1>2. ASSUME NEW r \in References, NEW a, a \in {authorizations, Retired(r).authorizations}
      PROVE  a \in [References -> Authorization \cup {None}]
             /\ \A x \in References : a[x] \in {None, authorizations[x]}
  BY <1>2 DEF Retired, TypeOK
<1>3. ASSUME NEW r \in References, Retire(r)
      PROVE  RoutedOutside'
  BY <1>1, <1>2, <1>3 DEF Retire
<1>4. ASSUME NEW caller \in Callers, NEW spec \in Specs, NEW amount \in Prizes,
             NEW r \in References, NEW rail \in Rails, NEW deadline \in Deadlines,
             AuthorizeExternalFunding(caller, spec, amount, r, rail, deadline)
      PROVE  RoutedOutside'
  <2> DEFINE new == [campaign |-> [Build(spec, amount, r, rail) EXCEPT !.status = StatusOf("Scheduled", 0, FALSE)],
                     deadline |-> deadline]
             old == authById[spec.id]
  <2>1. rail # "direct_usdc"
    BY <1>4 DEF AuthorizeExternalFunding
  <2>2. new.campaign.rail = rail
    BY DEF Build
  <2>3. spec.id \in CampaignIds
    BY SpecsAssumption DEF Spec0
  <2>4. old # None => old \in References
    BY <2>3 DEF TypeOK
  <2>5. \E a : /\ a = authorizations \/ (old # None /\ a = Retired(old).authorizations)
               /\ authorizations' = [a EXCEPT ![r] = new]
    BY <1>4 DEF AuthorizeExternalFunding
  <2>6. PICK a : /\ a \in [References -> Authorization \cup {None}]
                 /\ \A x \in References : a[x] \in {None, authorizations[x]}
                 /\ authorizations' = [a EXCEPT ![r] = new]
    BY <1>2, <2>4, <2>5
  <2> HIDE DEF new
  <2>7. authorizations'[r] = new /\ \A x \in References \ {r} : authorizations'[x] = a[x]
    BY <2>6
  <2> QED
    BY <2>1, <2>2, <2>6, <2>7 DEF RoutedOutside
<1>5. ASSUME NEW q \in queries, OnExternalFundingBalance(q)
      PROVE  RoutedOutside'
  <2>1. UNCHANGED authorizations \/ authorizations' = [authorizations EXCEPT ![q.reference] = None]
    BY <1>5 DEF OnExternalFundingBalance, escrow
  <2> QED
    BY <1>1, <2>1 DEF TypeOK
<1>6. ASSUME UNCHANGED authorizations
      PROVE  RoutedOutside'
  BY <1>1, <1>6
<1>7. ASSUME FundExternally
      PROVE  RoutedOutside'
  BY <1>3, <1>4, <1>5, <1>6, <1>7 DEF FundExternally, ProviderDeposit, RevokeAuthorization,
     CleanupAuthorization, ActivateExternalFunding, FtBalanceOf, escrow
<1>8. ASSUME Tick \/ Fund \/ PayOut \/ UNCHANGED vars
      PROVE  UNCHANGED authorizations
  BY <1>8 DEF Tick, Fund, FtTransferCall, FtOnTransferAccept, FtOnTransferReject, FtResolveTransfer,
     PayOut, SignPermit, Claim, CancelBeforeOpen, ExpireAndRefund, StartRefund, RetryRefund,
     FtTransferOk, FtTransferFail, OnClaimTransfer, OnRefundTransfer, vars, escrow
<1> QED
  BY <1>6, <1>7, <1>8 DEF Next

\* A step in which no transfer comes or goes and no payout is executed or settled.
LEMMA CountsUnmoved ==
  ASSUME SolvencyInv, UNCHANGED inbound,
         \A m : (m \in payouts' /\ m.reply = "ok") <=> (m \in payouts /\ m.reply = "ok")
  PROVE  /\ NamesOnce' /\ IsFiniteSet(PaidUnits') /\ IsFiniteSet(InboundUnits')
         /\ Cardinality(PaidUnits') = Cardinality(PaidUnits) + 0
         /\ Cardinality(InboundUnits') = Cardinality(InboundUnits) + 0
<1>1. PaidUnits' = PaidUnits /\ InboundUnits' = InboundUnits
  BY PaidUnmoved DEF InboundUnits
<1>2. Cardinality(PaidUnits) \in Nat /\ Cardinality(InboundUnits) \in Nat
  BY FS_CardinalityType DEF SolvencyInv
<1>3. NamesOnce'
  BY DEF SolvencyInv, NamesOnce
<1>4. Cardinality(PaidUnits) + 0 = Cardinality(PaidUnits) /\ Cardinality(InboundUnits) + 0 = Cardinality(InboundUnits)
  BY <1>2
<1> QED
  BY <1>1, <1>3, <1>4 DEF SolvencyInv

LEMMA FundSolvency ==
  ASSUME TypeOK, TypeOK', SolvencyInv, [Next]_vars, Fund
  PROVE  SolvencyInv'
<1>1. RoutedOutside' /\ vault \in Nat /\ totalReserved \in Nat
  BY StaysRoutedOutside DEF SolvencyInv, TypeOK
<1>2. /\ PaidUnits' = PaidUnits /\ IsFiniteSet(PaidUnits')
      /\ Cardinality(PaidUnits') = Cardinality(PaidUnits) + 0
  <2>1. payouts' = payouts
    BY DEF Fund, FtTransferCall, FtOnTransferAccept, FtOnTransferReject, FtResolveTransfer
  <2>2. PaidUnits' = PaidUnits
    BY <2>1 DEF PaidUnits
  <2>3. Cardinality(PaidUnits) \in Nat
    BY FS_CardinalityType DEF SolvencyInv
  <2>4. Cardinality(PaidUnits) + 0 = Cardinality(PaidUnits)
    BY <2>3
  <2> QED
    BY <2>2, <2>4 DEF SolvencyInv
<1>3. ASSUME NEW name \in Transfers, NEW spec \in Specs \cup {None}, NEW amount \in Prizes,
             NEW r \in References, NEW deadline \in Deadlines,
             FtTransferCall(name, spec, amount, r, deadline)
      PROVE  SolvencyInv'
  <2> DEFINE t == [name |-> name, stage |-> "sent", amount |-> amount, spec |-> spec,
                   reference |-> r, deadline |-> deadline]
  <2>1. t \in Inbound
    BY SpecsAssumption DEF Inbound
  <2>2. t.name = name /\ t.amount = amount /\ amount \in Nat
    BY SpecsAssumption
  <2>3. /\ inbound' = inbound \cup {t} /\ vault' = vault + amount /\ totalReserved' = totalReserved
        /\ \A u \in inbound : u.name # name
    BY <1>3 DEF FtTransferCall, escrow
  <2> HIDE DEF t
  <2>4. /\ NamesOnce' /\ IsFiniteSet(InboundUnits')
        /\ Cardinality(InboundUnits') = Cardinality(InboundUnits) + amount
    BY <2>1, <2>2, <2>3, InboundMore
  <2>5. vault' + 0 - amount - totalReserved' >= vault - totalReserved
    BY <1>1, <2>2, <2>3
  <2>6. 0 \in Int /\ amount \in Int
    BY <2>2
  <2> QED
    BY <1>1, <1>2, <2>4, <2>5, <2>6, SolvencyKept
<1>4. ASSUME NEW t \in inbound, inbound' = inbound \ {t},
             vault' - totalReserved' >= vault - totalReserved - t.amount
      PROVE  SolvencyInv'
  <2>1. t.amount \in Nat /\ vault' \in Nat /\ totalReserved' \in Nat
    BY DEF TypeOK, Inbound
  <2>2. /\ NamesOnce' /\ IsFiniteSet(InboundUnits')
        /\ Cardinality(InboundUnits') = Cardinality(InboundUnits) - t.amount
    BY <1>4, InboundLess
  <2>3. Cardinality(InboundUnits) \in Nat
    BY FS_CardinalityType DEF SolvencyInv
  <2>4. Cardinality(InboundUnits') = Cardinality(InboundUnits) + (-t.amount)
    BY <2>1, <2>2, <2>3
  <2>5. vault' + 0 - (-t.amount) - totalReserved' >= vault - totalReserved
    BY <1>1, <1>4, <2>1
  <2>6. 0 \in Int /\ -t.amount \in Int
    BY <2>1
  <2> QED
    BY <1>1, <1>2, <2>2, <2>4, <2>5, <2>6, SolvencyKept
<1>5. ASSUME NEW t \in inbound, FtOnTransferAccept(t)
      PROVE  SolvencyInv'
  <2>1. inbound' = inbound \ {t} /\ vault' = vault /\ totalReserved' = totalReserved + t.amount
        /\ t.amount \in Nat
    BY <1>5 DEF FtOnTransferAccept, TypeOK, Inbound
  <2> QED
    BY <1>1, <1>4, <2>1
<1>6. ASSUME NEW t \in inbound, FtResolveTransfer(t)
      PROVE  SolvencyInv'
  <2>1. /\ inbound' = inbound \ {t} /\ totalReserved' = totalReserved /\ t.amount \in Nat
        /\ vault' = IF vault >= t.amount THEN vault - t.amount ELSE 0
    BY <1>6 DEF FtResolveTransfer, escrow, TypeOK, Inbound
  <2> QED
    BY <1>1, <1>4, <2>1
<1>7. ASSUME NEW t \in inbound, FtOnTransferReject(t)
      PROVE  SolvencyInv'
  <2> DEFINE u == [t EXCEPT !.stage = "returning"]
  <2>1. inbound' = (inbound \ {t}) \cup {u} /\ vault' = vault /\ totalReserved' = totalReserved
    BY <1>7 DEF FtOnTransferReject, escrow
  <2>2. t \in Inbound /\ u.name = t.name /\ u.amount = t.amount
    BY DEF TypeOK, Inbound
  <2> HIDE DEF u
  <2>3. InboundAmounts' = InboundAmounts
    BY <2>1, <2>2 DEF InboundAmounts
  <2>4. InboundUnits' = InboundUnits
    BY <2>3, UnitsOfPairs DEF InboundUnits, InboundAmounts
  <2>5. NamesOnce'
    BY <2>1, <2>2 DEF SolvencyInv, NamesOnce
  <2>6. Cardinality(InboundUnits) \in Nat
    BY FS_CardinalityType DEF SolvencyInv
  <2>7. Cardinality(InboundUnits') = Cardinality(InboundUnits) + 0 /\ 0 \in Int
    BY <2>4, <2>6
  <2>8. vault' + 0 - 0 - totalReserved' >= vault - totalReserved
    BY <1>1, <2>1
  <2>9. IsFiniteSet(InboundUnits')
    BY <2>4 DEF SolvencyInv
  <2> QED
    BY <1>1, <1>2, <2>5, <2>7, <2>8, <2>9, SolvencyKept
<1> QED
  BY <1>3, <1>5, <1>6, <1>7 DEF Fund

LEMMA FundExternallySolvency ==
  ASSUME TypeOK, TypeOK', FundingInv, SolvencyInv, [Next]_vars, FundExternally
  PROVE  SolvencyInv'
<1>1. RoutedOutside' /\ UNCHANGED <<payouts, inbound>>
  BY StaysRoutedOutside, FundExternallyFrame DEF SolvencyInv
<1>2. /\ NamesOnce' /\ IsFiniteSet(PaidUnits') /\ IsFiniteSet(InboundUnits')
      /\ Cardinality(PaidUnits') = Cardinality(PaidUnits) + 0
      /\ Cardinality(InboundUnits') = Cardinality(InboundUnits) + 0
  BY <1>1, CountsUnmoved
<1>3. vault' >= vault
  <2>1. ASSUME NEW caller \in Callers, NEW spec \in Specs, NEW amount \in Prizes,
               NEW r \in References, NEW rail \in Rails, NEW deadline \in Deadlines,
               AuthorizeExternalFunding(caller, spec, amount, r, rail, deadline)
        PROVE  vault' = vault
    BY <2>1 DEF AuthorizeExternalFunding, token
  <2>2. ASSUME NEW amount \in Prizes, ProviderDeposit(amount)
        PROVE  vault' = vault + amount /\ amount \in Nat
    BY <2>2, SpecsAssumption DEF ProviderDeposit
  <2>3. ASSUME NEW r \in References, Retire(r)
        PROVE  vault' = vault
    BY <2>3 DEF Retire, token
  <2>4. ASSUME NEW q \in queries, OnExternalFundingBalance(q) \/ FtBalanceOf(q)
        PROVE  vault' = vault
    BY <2>4 DEF OnExternalFundingBalance, FtBalanceOf
  <2>5. vault \in Nat
    BY DEF TypeOK
  <2>6. vault' = vault \/ \E amount \in Nat : vault' = vault + amount
    BY <2>1, <2>2, <2>3, <2>4 DEF FundExternally, RevokeAuthorization, CleanupAuthorization, ActivateExternalFunding
  <2> QED
    BY <2>5, <2>6
<1>4. ASSUME NEW q \in queries, OnExternalFundingBalance(q), ~UNCHANGED campaigns
      PROVE  ~FundedDirectly'
  <2> DEFINE r == q.reference
             new == pending[r].campaign
  <2>1. r \in References
    BY DEF TypeOK, Query
  <2>2. pending[r] # None /\ campaigns' = [campaigns EXCEPT ![new.spec.id] = new]
    BY <1>4 DEF OnExternalFundingBalance, escrow
  <2>3. pending[r] = authorizations[r]
    BY <2>1, <2>2 DEF FundingInv, Indexed
  <2>4. new.rail # "direct_usdc"
    BY <2>1, <2>2, <2>3 DEF SolvencyInv, RoutedOutside
  <2>5. new \in Campaign /\ new.spec.id \in CampaignIds
    BY <2>1, <2>2, AuthorizationType DEF TypeOK
  <2>6. campaigns'[new.spec.id] = new /\ new # None
    BY <2>2, <2>5, NoneAssumption DEF TypeOK
  <2> QED
    BY <2>4, <2>5, <2>6 DEF FundedDirectly
<1>5. FundedDirectly' => totalReserved' = totalReserved
  <2>1. ASSUME NEW q \in queries, OnExternalFundingBalance(q), UNCHANGED campaigns
        PROVE  totalReserved' = totalReserved
    <3>1. q.reference \in References
      BY DEF TypeOK, Query
    <3> DEFINE auth == pending[q.reference]
    <3>2. CASE auth = None \/ ~Proves(q, auth)
      BY <2>1, <3>2 DEF OnExternalFundingBalance, escrow
    <3>3. CASE auth # None /\ Proves(q, auth)
      <4>1. campaigns[auth.campaign.spec.id] = None /\ auth.campaign # None /\ auth.campaign.spec.id \in CampaignIds
        BY <3>1, <3>3, AuthorizationType, NoneAssumption DEF Proves, TypeOK
      <4>2. campaigns' = [campaigns EXCEPT ![auth.campaign.spec.id] = auth.campaign]
        BY <2>1, <3>3 DEF OnExternalFundingBalance
      <4> QED
        BY <2>1, <4>1, <4>2 DEF TypeOK
    <3> QED
      BY <3>2, <3>3
  <2> QED
    BY <1>4, <2>1, FundExternallyFrame
<1>6. ASSUME FundedDirectly'
      PROVE  vault' + 0 - 0 - totalReserved' >= vault - totalReserved
  <2>1. totalReserved' = totalReserved
    BY <1>5, <1>6
  <2>2. vault \in Nat /\ vault' \in Nat /\ totalReserved \in Nat
    BY DEF TypeOK
  <2>3. \A x \in Nat, y \in Nat, z \in Nat : x >= y => x + 0 - 0 - z >= y - z
    OBVIOUS
  <2>4. vault' + 0 - 0 - totalReserved >= vault - totalReserved
    BY <1>3, <2>2, <2>3
  <2> QED
    BY <2>1, <2>4
<1>7. 0 \in Int
  OBVIOUS
<1> QED
  BY <1>1, <1>2, <1>6, <1>7, SolvencyKept

LEMMA PayOutSolvency ==
  ASSUME TypeOK, TypeOK', PayoutInv, SolvencyInv, [Next]_vars, PayOut
  PROVE  SolvencyInv'
<1>1. RoutedOutside' /\ vault \in Nat /\ totalReserved \in Nat /\ totalReserved' \in Nat /\ 0 \in Int
  BY StaysRoutedOutside DEF SolvencyInv, TypeOK
<1>2. Cardinality(PaidUnits) \in Nat /\ Cardinality(InboundUnits) \in Nat
  BY FS_CardinalityType DEF SolvencyInv
<1>3. /\ inbound' = inbound /\ NamesOnce' /\ IsFiniteSet(InboundUnits')
      /\ Cardinality(InboundUnits') = Cardinality(InboundUnits) + 0
  <2>1. inbound' = inbound
    BY DEF PayOut, SignPermit, Claim, CancelBeforeOpen, ExpireAndRefund, StartRefund, RetryRefund,
       FtTransferOk, FtTransferFail, OnClaimTransfer, OnRefundTransfer, token
  <2>2. InboundUnits' = InboundUnits
    BY <2>1 DEF InboundUnits
  <2>3. Cardinality(InboundUnits) + 0 = Cardinality(InboundUnits)
    BY <1>2
  <2> QED
    BY <2>1, <2>2, <2>3 DEF SolvencyInv, NamesOnce
<1>4. ASSUME UNCHANGED <<vault, totalReserved>>,
             \A m : (m \in payouts' /\ m.reply = "ok") <=> (m \in payouts /\ m.reply = "ok")
      PROVE  SolvencyInv'
  <2>1. vault' + 0 - 0 - totalReserved' >= vault - totalReserved
    BY <1>1, <1>4
  <2>2. IsFiniteSet(PaidUnits') /\ Cardinality(PaidUnits') = Cardinality(PaidUnits) + 0
    BY <1>3, <1>4, CountsUnmoved
  <2> QED
    BY <1>1, <1>3, <2>1, <2>2, SolvencyKept
<1>5. ASSUME NEW m \in payouts, FtTransferOk(m)
      PROVE  SolvencyInv'
  <2>1. vault' = vault - m.amount /\ totalReserved' = totalReserved /\ m.amount \in Nat
    BY <1>5 DEF FtTransferOk, escrow, TypeOK, Payout
  <2>2. IsFiniteSet(PaidUnits') /\ Cardinality(PaidUnits') = Cardinality(PaidUnits) + m.amount
    BY <1>5, PaidMore
  <2>3. vault' + m.amount - 0 - totalReserved' >= vault - totalReserved /\ m.amount \in Int
    BY <1>1, <2>1
  <2> QED
    BY <1>1, <1>3, <2>2, <2>3, SolvencyKept
<1>6. ASSUME NEW m \in payouts, OnClaimTransfer(m) \/ OnRefundTransfer(m), Succeeded(m)
      PROVE  SolvencyInv'
  <2>1. payouts' = payouts \ {m} /\ vault' = vault /\ m.amount \in Nat /\ m.reply = "ok"
    BY <1>6 DEF OnClaimTransfer, OnRefundTransfer, Succeeded, TypeOK, Payout
  <2>2. totalReserved' = totalReserved - m.amount
    <3>1. Released(m) = totalReserved - m.amount
      BY DEF Released, PayoutInv, PayoutsMatch
    <3>2. CASE OnClaimTransfer(m)
      BY <1>6, <3>1, <3>2 DEF OnClaimTransfer, PayoutInv, OnePayoutInFlight
    <3>3. CASE OnRefundTransfer(m)
      BY <1>6, <3>1, <3>3 DEF OnRefundTransfer, PayoutInv, OnePayoutInFlight
    <3> QED
      BY <1>6, <3>2, <3>3
  <2>3. IsFiniteSet(PaidUnits') /\ Cardinality(PaidUnits') = Cardinality(PaidUnits) - m.amount
    BY <2>1, PaidLess
  <2>4. Cardinality(PaidUnits') = Cardinality(PaidUnits) + (-m.amount)
    BY <1>2, <2>1, <2>3
  <2>5. vault' + (-m.amount) - 0 - totalReserved' >= vault - totalReserved /\ -m.amount \in Int
    BY <1>1, <2>1, <2>2
  <2> QED
    BY <1>1, <1>3, <2>3, <2>4, <2>5, SolvencyKept
<1>7. ASSUME NEW m \in payouts, OnClaimTransfer(m) \/ OnRefundTransfer(m), ~Succeeded(m)
      PROVE  SolvencyInv'
  <2>1. payouts' = payouts \ {m} /\ UNCHANGED <<vault, totalReserved>> /\ m.reply # "ok"
    BY <1>7 DEF OnClaimTransfer, OnRefundTransfer, Succeeded
  <2> QED
    BY <1>4, <2>1
<1>8. ASSUME NEW m \in payouts, FtTransferFail(m)
      PROVE  SolvencyInv'
  <2> DEFINE n == [m EXCEPT !.reply = "failed"]
  <2>1. payouts' = (payouts \ {m}) \cup {n} /\ UNCHANGED <<vault, totalReserved>> /\ m.reply # "ok"
    BY <1>8 DEF FtTransferFail, escrow
  <2>2. n.reply = "failed"
    BY DEF TypeOK, Payout
  <2> HIDE DEF n
  <2> QED
    BY <1>4, <2>1, <2>2
<1>9. ASSUME UNCHANGED <<vault, totalReserved>>, NEW n, n.reply # "ok", payouts' = payouts \cup {n}
      PROVE  SolvencyInv'
  BY <1>4, <1>9
<1>10. ASSUME NEW p \in permits, Claim(p)
       PROVE  SolvencyInv'
  BY <1>9, <1>10 DEF Claim, PayoutOf
<1>11. ASSUME NEW id \in CampaignIds, StartRefund(id) \/ RetryRefund(id)
       PROVE  SolvencyInv'
  BY <1>9, <1>11 DEF StartRefund, RetryRefund, PayoutOf
<1>12. ASSUME UNCHANGED <<escrow, token>>
       PROVE  SolvencyInv'
  BY <1>4, <1>12 DEF escrow, token
<1> QED
  BY <1>5, <1>6, <1>7, <1>8, <1>10, <1>11, <1>12
     DEF PayOut, SignPermit, CancelBeforeOpen, ExpireAndRefund

LEMMA SolvencyInvariant == Spec => []SolvencyInv
<1>1. Init => SolvencyInv
  <2> SUFFICES ASSUME Init PROVE SolvencyInv
    OBVIOUS
  <2>1. PaidUnits = {} /\ InboundUnits = {}
    BY DEF Init, PaidUnits, InboundUnits
  <2>2. IsFiniteSet({}) /\ Cardinality({}) = 0
    BY FS_EmptySet
  <2>3. vault + Cardinality(PaidUnits) >= totalReserved + Cardinality(InboundUnits)
    BY <2>1, <2>2 DEF Init
  <2> QED
    BY <2>1, <2>2, <2>3 DEF Init, SolvencyInv, NamesOnce, RoutedOutside, Solvent
<1>2. TypeOK /\ TypeOK' /\ PayoutInv /\ FundingInv /\ SolvencyInv /\ [Next]_vars => SolvencyInv'
  <2> SUFFICES ASSUME TypeOK, TypeOK', PayoutInv, FundingInv, SolvencyInv, [Next]_vars PROVE SolvencyInv'
    OBVIOUS
  <2>1. CASE UNCHANGED <<escrow, token>>
    <3>1. RoutedOutside' /\ UNCHANGED <<vault, totalReserved, inbound, payouts>>
      BY <2>1, StaysRoutedOutside DEF SolvencyInv, escrow, token
    <3>2. /\ NamesOnce' /\ IsFiniteSet(PaidUnits') /\ IsFiniteSet(InboundUnits')
          /\ Cardinality(PaidUnits') = Cardinality(PaidUnits) + 0
          /\ Cardinality(InboundUnits') = Cardinality(InboundUnits) + 0
      BY <3>1, CountsUnmoved
    <3>3. vault' + 0 - 0 - totalReserved' >= vault - totalReserved /\ 0 \in Int
      BY <3>1 DEF TypeOK
    <3> QED
      BY <3>1, <3>2, <3>3, SolvencyKept
  <2> QED
    BY <2>1, FundSolvency, FundExternallySolvency, PayOutSolvency DEF Next, Tick, vars
<1> QED
  BY <1>1, <1>2, TypeCorrect, PayoutInvariant, FundingInvariant, PTL DEF Spec

\* As long as every campaign was funded directly, the USDC of the escrow account covers the
\* reserve with every unresolved transfer set aside, whatever is rejected, handed back, paid,
\* refused and retried in between (contract-v2/src/lib.rs, ft_on_transfer and the callbacks).
THEOREM DirectEscrowIsSolvent == Spec => []Solvent
<1>1. SolvencyInv => Solvent
  BY DEF SolvencyInv
<1> QED
  BY <1>1, SolvencyInvariant, PTL

-----------------------------------------------------------------------------
(* The escrow of the one campaign, as the ledger relies on it.               *)

\* The escrow's own invariants; its promises, transfers and permits are about the
\* campaign, and a transfer to a winner was made under the nonce of the status.
EscrowInv ==
    /\ TypeOK /\ PayoutInv /\ ReceiversRight
    /\ chain # None
    /\ \A x \in payouts \cup disbursed \cup permits : x.id = Id
    /\ \A d \in disbursed :
          d.kind = "claim" =>
             chain.status.state \in {"Claiming", "Claimed"} /\ chain.status.seq = d.seq

\* Solvers sign the permit that the ledger quoted, and nothing else.
PermitsInv ==
    \A p \in permits : \E cl \in Claims : claims[cl].status # "NONE" /\ p = PermitOf(cl)

-----------------------------------------------------------------------------
(* What has been decided about a claim, for good.                           *)

\* The permit of the claim took the prize.
Won(cl) ==
    /\ claims[cl].status # "NONE"
    /\ chain.status.state = "Claimed"
    /\ \E d \in disbursed : d.kind = "claim" /\ d.to = Receiver[cl] /\ d.seq = claims[cl].nonce

\* The permit of the claim has not taken the prize and cannot take it any more.
Lost(cl) ==
    /\ claims[cl].status # "NONE"
    /\ \A m \in payouts \cup disbursed : ~(m.kind = "claim" /\ m.to = Receiver[cl])
    /\ \/ chain.status.state = "Claimed"
       \/ chain.claimNonce > claims[cl].nonce
       \/ now > claims[cl].deadline

Settled == {"PAID", "RECOVERED"}
Ended == {"PAID", "RECOVERED", "FAILED"}

\* A campaign that solvers cannot enter any more, unless its cancellation came too late.
Beyond == {"REFUNDING", "REFUNDED", "CLAIMED"}
Cancelled == jobs[RefundKey("CREATOR_CANCEL")].status # "NONE"

\* What a job was enqueued upon.
Started(k) ==
    /\ k[1] = "claim" => claims[k[2]].status \notin {"NONE", "AWAITING_PROOF"}
    /\ k[1] = "payout" => Won(k[2])

\* What a job leaves behind that is done.
Done(k) ==
    /\ k[1] = "claim" => \/ claims[k[2]].status \in Ended
                         \/ k[2] \in OneClick /\ jobs[PayoutKey(k[2])].status # "NONE"
    /\ k[1] = "payout" => claims[k[2]].status \in Settled
    /\ k[1] = "lifecycle" => Cancelled \/ cstatus \in Beyond

-----------------------------------------------------------------------------
(* The invariant.                                                           *)

ClaimOK(cl) ==
    /\ claims[cl].status \in Settled =>
          /\ Won(cl)
          /\ cl \in OneClick =>
                /\ provider[cl] = IF claims[cl].status = "PAID" THEN "settled" ELSE "refunded"
                /\ cstatus = "CLAIMED"
    /\ claims[cl].status = "FAILED" => Lost(cl) \/ (cl \in OneClick /\ provider[cl] # "pending")

CampaignOK ==
    /\ cstatus = "CLAIMED" => chain.status.state = "Claimed"
    /\ cstatus = "REFUNDED" => chain.status.state = "Refunded"
    /\ order = "REFUNDED" => cstatus = "REFUNDED"

JobOK(k) ==
    /\ jobs[k].status # "NONE" => Started(k)
    /\ jobs[k].status = "SUCCEEDED" => Done(k)

\* What a run of job k may rely on at its stage, however long ago it got there.
AtStage(k, stage, status) ==
    /\ stage = "loaded" /\ k[1] = "payout" /\ status \in Settled => claims[k[2]].status = status
    /\ stage = "consumed" => k[1] = "claim" /\ Lost(k[2])
    /\ stage = "paid" => k[1] = "claim" /\ claims[k[2]].status = "PAID"
    /\ stage = "deposited" => k[1] = "claim" /\ k[2] \in OneClick /\ Won(k[2])
    /\ stage \in {"lost", "reopen"} => k[1] = "claim" /\ claims[k[2]].status \in Ended
    /\ stage = "lost" => chain.status.state = "Claimed"
    /\ stage = "submit" => k[1] = "claim"
    /\ stage \in {"expire", "hand over"} => k[1] = "lifecycle"
    /\ stage = "restart" => k[1] = "refund"
    /\ stage = "order" => k[1] \in {"lifecycle", "refund"} /\ cstatus = "REFUNDED"
    /\ stage \in {"hand over", "done"} => Done(k)

\* A run whose row is fresh has the campaign's status, and once it has seen the campaign
\* closed to solvers the campaign stays so.
RunOK(r) ==
    /\ r.at <= now
    /\ jobs[r.job].status # "NONE"
    /\ r.fresh => r.seen = cstatus
    /\ r.stage \in {"loaded", "expire"} /\ r.seen \in Beyond => Cancelled \/ cstatus \in Beyond
    /\ AtStage(r.job, r.stage, r.claim)

JobsInv == jobs[LifecycleKey].status # "NONE" /\ \A k \in Keys : JobOK(k)
RunsInv == \A w \in Workers, r \in Run \ {None} : runs[w] = r => RunOK(r)

LedgerInv ==
    /\ LedgerTypeOK
    /\ EscrowInv /\ PermitsInv
    /\ \A cl \in Claims : ClaimOK(cl)
    /\ CampaignOK
    /\ JobsInv /\ RunsInv

\* The parts of LedgerTypeOK, the escrow's aside.
JobsTyped == jobs \in [Keys -> JobRow]
CampaignTyped == cstatus \in CampaignStatuses /\ order \in {"ALLOCATED", "REFUNDED"}
ClaimsTyped == claims \in [Claims -> ClaimRow]
RunsTyped == runs \in [Workers -> Run \cup {None}]
ProviderTyped == provider \in [OneClick -> {"pending", "failed", "settled", "refunded"}]

LEMMA Typed ==
  LedgerTypeOK <=> /\ TypeOK /\ JobsTyped /\ CampaignTyped /\ ClaimsTyped /\ RunsTyped /\ ProviderTyped
  BY DEF LedgerTypeOK, JobsTyped, CampaignTyped, ClaimsTyped, RunsTyped, ProviderTyped

-----------------------------------------------------------------------------
(* Keys of jobs.                                                            *)

LEMMA KeyFacts ==
  /\ \A cl \in Claims : ClaimKey(cl) \in Keys /\ ClaimKey(cl)[1] = "claim" /\ ClaimKey(cl)[2] = cl
  /\ \A cl \in OneClick : PayoutKey(cl) \in Keys /\ PayoutKey(cl)[1] = "payout" /\ PayoutKey(cl)[2] = cl
  /\ \A reason \in Reasons : RefundKey(reason) \in Keys /\ RefundKey(reason)[1] = "refund"
  /\ LifecycleKey \in Keys /\ LifecycleKey[1] = "lifecycle"
  BY KeysAssumption DEF ClaimKey, PayoutKey, RefundKey, LifecycleKey

LEMMA KindsOfKeys ==
  ASSUME NEW k \in Keys
  PROVE  /\ k[1] \in {"claim", "payout", "refund", "lifecycle"}
         /\ k[1] = "claim" => k[2] \in Claims /\ k = ClaimKey(k[2])
         /\ k[1] = "payout" => k[2] \in OneClick /\ k[2] \in Claims /\ k = PayoutKey(k[2])
         /\ k[1] = "lifecycle" => k = LifecycleKey
  BY KeysAssumption, LedgerAssumption DEF ClaimKey, PayoutKey, RefundKey, LifecycleKey

-----------------------------------------------------------------------------
(* The invariant implies what the runs check.                               *)

LEMMA ChainTyped ==
  ASSUME EscrowInv
  PROVE  /\ chain \in Campaign /\ chain.claimNonce \in Nat /\ chain.status \in Status
         /\ chain.status.seq \in Nat /\ chain.status.state \in States
         /\ chain.spec \in Spec0 /\ chain.spec.expires \in Nat /\ chain.spec.opens \in Nat
         /\ now \in Nat
  BY LedgerAssumption DEF EscrowInv, chain, TypeOK, Campaign, Status, Spec0

\* status_view differs from the status only until the campaign is first written after
\* its opening.
LEMMA ViewedStates ==
  /\ ChainState = "Claimed" <=> chain.status.state = "Claimed"
  /\ ChainState = "Refunded" <=> chain.status.state = "Refunded"
  /\ ChainState = "Active" => Open(chain)
  BY DEF ChainState, Open

LEMMA LedgerInvSafe == LedgerInv => LedgerSafe
<1> SUFFICES ASSUME LedgerInv PROVE LedgerSafe
  OBVIOUS
<1>1. PaidMeansPaid
  BY DEF LedgerInv, ClaimOK, Settled, Won, PaidMeansPaid
<1>2. FailedNeverPays
  <2> SUFFICES ASSUME NEW cl \in Claims, Lost(cl) PROVE ~Payable(cl)
    BY DEF LedgerInv, ClaimOK, FailedNeverPays
  <2>1. claims[cl].nonce \in Nat /\ claims[cl].deadline \in Nat /\ chain.claimNonce \in Nat /\ now \in Nat
    BY ChainTyped DEF LedgerInv, LedgerTypeOK, ClaimRow
  <2> QED
    BY <2>1 DEF Lost, Payable, Open
<1>3. LedgerAgrees
  <2>1. OneClick \subseteq Claims
    BY LedgerAssumption
  <2> QED
    BY <2>1, ViewedStates DEF LedgerInv, CampaignOK, ClaimOK, Settled, LedgerAgrees
<1>4. ClaimsCarriedOn
  <2>1. ASSUME NEW cl \in Claims, claims[cl].status \in {"SUBMITTED", "PAYING"},
               jobs[ClaimKey(cl)].status = "SUCCEEDED"
        PROVE  cl \in OneClick /\ Unfinished(PayoutKey(cl))
    <3>1. cl \in OneClick /\ jobs[PayoutKey(cl)].status # "NONE"
      BY <2>1, KeyFacts DEF LedgerInv, JobsInv, JobOK, Done, Ended
    <3>2. jobs[PayoutKey(cl)].status # "SUCCEEDED"
      BY <2>1, <3>1, KeyFacts DEF LedgerInv, JobsInv, JobOK, Done, Settled
    <3> QED
      BY <3>1, <3>2, KeyFacts DEF LedgerInv, LedgerTypeOK, JobRow, Unfinished
  <2>2. ASSUME cstatus = "CLAIMING", ~Cancelled
        PROVE  Unfinished(LifecycleKey)
    <3>1. jobs[LifecycleKey].status \notin {"NONE", "SUCCEEDED"}
      BY <2>2, KeyFacts DEF LedgerInv, JobsInv, JobOK, Done, Beyond
    <3> QED
      BY <3>1, KeyFacts DEF LedgerInv, LedgerTypeOK, JobRow, Unfinished
  <2> QED
    BY <2>1, <2>2 DEF ClaimsCarriedOn, Cancelled
<1> QED
  BY <1>1, <1>2, <1>3, <1>4 DEF LedgerInv, LedgerSafe, ClaimsSafe

\* The ledger starts with an escrowed prize and no claim.
LEMMA LedgerInitInv == LedgerInit => LedgerInv
<1> SUFFICES ASSUME LedgerInit PROVE LedgerInv
  OBVIOUS
<1>1. PICK spec \in Specs, amount \in Prizes \ {0}, r \in References :
         /\ campaigns = [id \in CampaignIds |->
                IF id = Id
                THEN [spec |-> spec, amount |-> amount, rail |-> "direct_usdc", reference |-> r,
                      claimNonce |-> 0,
                      status |-> StatusOf(IF spec.opens > 0 THEN "Scheduled" ELSE "Active", 0, FALSE)]
                ELSE None]
         /\ used = {r} /\ totalReserved = amount /\ vault = amount
         /\ cstatus = IF spec.opens > 0 THEN "SCHEDULED" ELSE "ACTIVE"
  BY DEF LedgerInit
<1> DEFINE status == StatusOf(IF spec.opens > 0 THEN "Scheduled" ELSE "Active", 0, FALSE)
           c == [spec |-> spec, amount |-> amount, rail |-> "direct_usdc", reference |-> r,
                 claimNonce |-> 0, status |-> status]
<1>2. status \in Status /\ status.state \in {"Scheduled", "Active"} /\ ~AwaitsPayout(c)
  BY DEF StatusOf, Status, States, AwaitsPayout
<1>3. c \in Campaign /\ c # None
  <2>1. spec \in Spec0 /\ amount \in Nat \ {0} /\ "direct_usdc" \in Rails
    BY SpecsAssumption DEF Rails
  <2> HIDE DEF status
  <2>2. c \in Campaign
    BY <1>2, <2>1 DEF Campaign
  <2> QED
    BY <2>2, NoneAssumption
<1>4. chain = c /\ campaigns \in [CampaignIds -> {c, None}]
  BY <1>1, LedgerAssumption DEF chain
<1> HIDE DEF c, status
<1>5. TypeOK
  BY <1>1, <1>3, <1>4, SpecsAssumption DEF LedgerInit, TypeOK
<1>6. PayoutInv
  <2>1. c.status = status
    BY DEF c
  <2> QED
    BY <1>2, <1>4, <2>1 DEF LedgerInit, PayoutInv, AuthorizedIdle, PayoutsMatch, OnePayoutInFlight,
       DisbursedOnce, SettledIsDisbursed, AwaitsPayout
<1>7. LedgerTypeOK
  <2>1. jobs \in [Keys -> JobRow]
    BY QueueAssumption DEF LedgerInit, Row, JobRow
  <2> QED
    BY <1>1, <1>5, <2>1 DEF LedgerInit, LedgerTypeOK, CampaignStatuses, ClaimStatuses, ClaimRow
<1>8. EscrowInv /\ PermitsInv
  BY <1>3, <1>4, <1>5, <1>6 DEF LedgerInit, EscrowInv, PermitsInv, ReceiversRight
<1>9. (\A cl \in Claims : ClaimOK(cl)) /\ CampaignOK
  BY <1>1 DEF LedgerInit, ClaimOK, CampaignOK, Settled
<1>10. JobsInv /\ RunsInv
  BY KeyFacts, KindsOfKeys DEF LedgerInit, JobsInv, RunsInv, JobOK, Started, Row
<1> QED
  BY <1>7, <1>8, <1>9, <1>10 DEF LedgerInv

-----------------------------------------------------------------------------
(* Steps of the escrow.                                                     *)

EscrowStep ==
    \/ UNCHANGED vars
    \/ Tick
    \/ \E p \in permits : Claim(p)
    \/ \E caller \in Callers : CancelBeforeOpen(caller, Id)
    \/ ExpireAndRefund(Id) \/ RetryRefund(Id)
    \/ \E m \in payouts : \/ FtTransferOk(m) \/ FtTransferFail(m)
                          \/ OnClaimTransfer(m) \/ OnRefundTransfer(m)

\* What a step of the escrow leaves in force: time and nonces grow, a settled campaign
\* stays settled, money leaves by a promise only, and only a permit over the current
\* nonce, in time, makes a promise to a winner.
EscrowGrows ==
    /\ now <= now'
    /\ permits \subseteq permits' /\ disbursed \subseteq disbursed'
    /\ chain.claimNonce <= chain'.claimNonce
    /\ chain.status.state \in {"Claimed", "Refunded"} => chain'.status = chain.status
    /\ \A d \in disbursed' \ disbursed : \E n \in payouts : n.kind = d.kind /\ n.to = d.to
    /\ \A m \in payouts' \ payouts :
          m.kind = "claim" =>
             \/ \E n \in payouts : n.kind = "claim" /\ n.to = m.to
             \/ /\ Open(chain)
                /\ \E p \in permits : p.receiver = m.to /\ p.nonce = chain.claimNonce /\ now <= p.deadline

\* A step that leaves the status, the promises and the transfers of the escrow alone.
LEMMA EscrowQuiet ==
  ASSUME EscrowInv, TypeOK', PayoutInv', ReceiversRight', now <= now',
         UNCHANGED <<campaigns, payouts, disbursed>>, permits \subseteq permits',
         \A p \in permits' \ permits : p.id = Id
  PROVE  EscrowInv' /\ EscrowGrows
<1>1. chain' = chain /\ chain.claimNonce \in Nat
  BY ChainTyped DEF chain
<1> QED
  BY <1>1 DEF EscrowInv, EscrowGrows

\* The campaign waits for no payout: no transfer to a winner has been made.
LEMMA NothingPaid ==
  ASSUME EscrowInv, chain.status.state \notin {"Claiming", "Claimed"}
  PROVE  \A d \in disbursed : d.kind # "claim"
  BY DEF EscrowInv

\* A step that starts a payout, or reports one that failed.
LEMMA EscrowOpens ==
  ASSUME EscrowInv, TypeOK', PayoutInv', ReceiversRight',
         UNCHANGED <<now, permits, disbursed>>, chain' # None,
         \A d \in disbursed : d.kind # "claim",
         chain.status.state \notin {"Claimed", "Refunded"},
         chain.claimNonce <= chain'.claimNonce,
         \A m \in payouts' \ payouts :
            /\ m.id = Id
            /\ m.kind = "claim" =>
                  /\ Open(chain)
                  /\ \E p \in permits : p.receiver = m.to /\ p.nonce = chain.claimNonce /\ now <= p.deadline
  PROVE  EscrowInv' /\ EscrowGrows
<1>1. now \in Nat
  BY ChainTyped
<1> QED
  BY <1>1 DEF EscrowInv, EscrowGrows

LEMMA EscrowMoves ==
  ASSUME EscrowInv, EscrowStep
  PROVE  EscrowInv' /\ EscrowGrows
<1> USE DEF chain
<1>0. Id \in CampaignIds /\ chain # None /\ chain \in Campaign /\ chain.status \in Status
      /\ chain.claimNonce \in Nat /\ chain.status.seq \in Nat /\ now \in Nat
  BY LedgerAssumption, ChainTyped DEF EscrowInv
<1>1. [Next]_vars /\ (Tick \/ PayOut \/ UNCHANGED vars)
  BY <1>0 DEF EscrowStep, Next, PayOut
<1>2. TypeOK /\ PayoutInv /\ ReceiversRight
  BY DEF EscrowInv
<1>3. TypeOK'
  <2>1. UNCHANGED vars => TypeOK'
    BY <1>2 DEF TypeOK, vars, escrow, token
  <2> QED
    BY <1>1, <1>2, <2>1, TickType, PayOutType
<1>4. PayoutInv'
  <2>1. UNCHANGED vars \/ Tick => PayoutInv'
    BY <1>2, PayoutInvUnchanged DEF vars, escrow, token, Tick
  <2> QED
    BY <1>1, <1>2, <2>1, PayOutPayouts
<1>5. ReceiversRight'
  BY <1>1, <1>2, ReceiversStayRight
<1>6. SameTerms(chain, chain')
  BY <1>0, <1>1, <1>2, TermsFixed
<1>7. chain' # None
  BY <1>6 DEF SameTerms
<1>8. CASE UNCHANGED vars \/ Tick
  <2>1. now <= now' /\ UNCHANGED <<campaigns, payouts, disbursed, permits>>
    BY <1>0, <1>8 DEF vars, escrow, token, Tick
  <2> QED
    BY <1>3, <1>4, <1>5, <2>1, EscrowQuiet
<1>9. ASSUME NEW p \in permits, Claim(p)
      PROVE  EscrowInv' /\ EscrowGrows
  <2>1. p.id = Id
    BY DEF EscrowInv
  <2>2. /\ Open(chain) /\ p.nonce = chain.claimNonce /\ now <= p.deadline
        /\ UNCHANGED <<now, permits, disbursed>>
        /\ payouts' = payouts \cup {PayoutOf(Id, "claim", chain.claimNonce, p.receiver, chain.amount)}
    BY <1>9, <2>1 DEF Claim, PermitFits
  <2>3. chain' = [chain EXCEPT !.claimNonce = chain.claimNonce + 1,
                               !.status = StatusOf("Claiming", chain.claimNonce, TRUE)]
    BY <1>0, <1>2, <1>9, <2>1 DEF Claim, TypeOK
  <2>4. chain.claimNonce <= chain'.claimNonce
    BY <1>0, <2>3 DEF Campaign
  <2>5. \A m \in payouts' \ payouts : m.id = Id /\ m.to = p.receiver
    BY <2>2 DEF PayoutOf
  <2>6. chain.status.state \notin {"Claiming", "Claimed", "Refunded"}
    BY <2>2 DEF Open
  <2> QED
    BY <1>3, <1>4, <1>5, <1>7, <2>2, <2>4, <2>5, <2>6, NothingPaid, EscrowOpens

\* start_refund and retry_refund start attempt number seq.
<1>10. ASSUME NEW seq, Open(chain) \/ Retryable(chain),
              campaigns' = [campaigns EXCEPT ![Id] =
                 [chain EXCEPT !.status = StatusOf("Refunding", seq, TRUE)]],
              payouts' = payouts \cup {PayoutOf(Id, "refund", seq, chain.spec.refundTo, chain.amount)},
              UNCHANGED <<now, permits, disbursed>>
       PROVE  EscrowInv' /\ EscrowGrows
  <2>1. chain' = [chain EXCEPT !.status = StatusOf("Refunding", seq, TRUE)]
    BY <1>0, <1>2, <1>10 DEF TypeOK
  <2>2. chain.claimNonce <= chain'.claimNonce
    BY <1>0, <2>1 DEF Campaign
  <2>3. \A m \in payouts' \ payouts : m.id = Id /\ m.kind = "refund"
    BY <1>10 DEF PayoutOf
  <2>4. chain.status.state \notin {"Claiming", "Claimed", "Refunded"}
    BY <1>10 DEF Open, Retryable
  <2> QED
    BY <1>3, <1>4, <1>5, <1>7, <1>10, <2>2, <2>3, <2>4, NothingPaid, EscrowOpens
<1>11. ASSUME Open(chain), StartRefund(Id)
       PROVE  EscrowInv' /\ EscrowGrows
  BY <1>10, <1>11 DEF StartRefund
<1>12. ASSUME RetryRefund(Id)
       PROVE  EscrowInv' /\ EscrowGrows
  BY <1>10, <1>12 DEF RetryRefund
<1>13. ASSUME NEW m \in payouts, FtTransferOk(m) \/ FtTransferFail(m)
       PROVE  EscrowInv' /\ EscrowGrows
  <2>1. m \in Payout /\ m.id = Id /\ m.reply = "sent"
    BY <1>2, <1>13 DEF TypeOK, EscrowInv, FtTransferOk, FtTransferFail
  <2>2. m.kind = "claim" => chain.status.state = "Claiming" /\ chain.status.seq = m.seq
    BY <1>2, <2>1 DEF PayoutInv, OnePayoutInFlight, StaleClaim
  <2>3. /\ UNCHANGED <<now, permits, campaigns>>
        /\ \A n \in payouts' \ payouts : n.id = Id /\ n.kind = m.kind /\ n.to = m.to
        /\ disbursed \subseteq disbursed'
        /\ \A d \in disbursed' \ disbursed : d.id = Id /\ d.kind = m.kind /\ d.to = m.to /\ d.seq = m.seq
    <3>1. CASE FtTransferOk(m)
      <4>1. [m EXCEPT !.reply = "ok"].id = m.id /\ [m EXCEPT !.reply = "ok"].kind = m.kind
            /\ [m EXCEPT !.reply = "ok"].to = m.to
        BY <2>1 DEF Payout
      <4>2. \A d \in disbursed' \ disbursed : d.id = m.id /\ d.kind = m.kind /\ d.to = m.to /\ d.seq = m.seq
        BY <3>1 DEF FtTransferOk
      <4>3. \A n \in payouts' \ payouts : n = [m EXCEPT !.reply = "ok"]
        BY <3>1 DEF FtTransferOk
      <4>4. UNCHANGED <<now, permits, campaigns>> /\ disbursed \subseteq disbursed'
        BY <3>1 DEF FtTransferOk, escrow
      <4> QED
        BY <2>1, <4>1, <4>2, <4>3, <4>4
    <3>2. CASE FtTransferFail(m)
      <4>1. [m EXCEPT !.reply = "failed"].id = m.id /\ [m EXCEPT !.reply = "failed"].kind = m.kind
            /\ [m EXCEPT !.reply = "failed"].to = m.to
        BY <2>1 DEF Payout
      <4> QED
        BY <2>1, <3>2, <4>1 DEF FtTransferFail, escrow
    <3> QED
      BY <1>13, <3>1, <3>2
  <2>4. chain' = chain
    BY <2>3
  <2>5. EscrowInv'
    <3>1. \A x \in (payouts \cup disbursed \cup permits)' : x.id = Id
      BY <2>3 DEF EscrowInv
    <3>2. \A d \in disbursed' : d.kind = "claim" =>
             chain'.status.state \in {"Claiming", "Claimed"} /\ chain'.status.seq = d.seq
      BY <2>2, <2>3, <2>4 DEF EscrowInv
    <3> HIDE DEF chain
    <3> QED
      BY <1>3, <1>4, <1>5, <1>7, <3>1, <3>2 DEF EscrowInv
  <2>6. EscrowGrows
    <3> HIDE DEF chain
    <3> QED
      BY <1>0, <2>3, <2>4 DEF EscrowGrows
  <2> QED
    BY <2>5, <2>6
<1>14. ASSUME NEW m \in payouts, OnClaimTransfer(m) \/ OnRefundTransfer(m)
       PROVE  EscrowInv' /\ EscrowGrows
  <2>1. m \in Payout /\ m.id = Id /\ m.reply # "sent"
    BY <1>2, <1>14 DEF TypeOK, EscrowInv, OnClaimTransfer, OnRefundTransfer
  <2>2. UNCHANGED <<now, permits, disbursed>> /\ payouts' = payouts \ {m}
    BY <1>14 DEF OnClaimTransfer, OnRefundTransfer
  <2>3. /\ m.kind = "claim" => chain.status.state = "Claiming" /\ chain.status.seq = m.seq
        /\ m.kind = "refund" => chain.status.state = "Refunding"
    BY <1>2, <2>1 DEF PayoutInv, OnePayoutInFlight, StaleClaim, StaleRefund
  <2>4. PICK status : chain' = [chain EXCEPT !.status = status]
                      /\ (m.kind = "claim" /\ m.reply = "ok" =>
                             status.state = "Claimed" /\ status.seq = m.seq)
    <3>1. PICK status :
             /\ campaigns' = [campaigns EXCEPT ![Id].status = status]
             /\ m.kind = "claim" /\ m.reply = "ok" => status.state = "Claimed" /\ status.seq = m.seq
      <4>1. CASE OnClaimTransfer(m)
        <5>1. ~StaleClaim(m)
          BY <1>2, <4>1 DEF OnClaimTransfer, PayoutInv, OnePayoutInFlight
        <5> DEFINE paid == StatusOf("Claimed", m.seq, FALSE)
                   reopened == StatusOf("Active", 0, FALSE)
        <5>2. \/ campaigns' = [campaigns EXCEPT ![Id].status = paid]
              \/ campaigns' = [campaigns EXCEPT ![Id].status = reopened] /\ m.reply # "ok"
          BY <2>1, <4>1, <5>1 DEF OnClaimTransfer, Succeeded
        <5>3. paid.state = "Claimed" /\ paid.seq = m.seq
          BY DEF StatusOf
        <5> HIDE DEF paid, reopened
        <5> QED
          BY <5>2, <5>3
      <4>2. CASE OnRefundTransfer(m)
        <5>1. ~StaleRefund(m) /\ m.kind = "refund"
          BY <1>2, <4>2 DEF OnRefundTransfer, PayoutInv, OnePayoutInFlight
        <5> QED
          BY <2>1, <4>2, <5>1 DEF OnRefundTransfer
      <4> QED
        BY <1>14, <4>1, <4>2
    <3> QED
      BY <1>0, <1>2, <3>1 DEF TypeOK
  <2>5. chain'.status = status /\ chain'.claimNonce = chain.claimNonce
    BY <1>0, <2>4 DEF Campaign
  <2>6. CASE m.kind = "claim" /\ m.reply = "ok"
    <3>1. \A d \in disbursed : d.kind = "claim" => chain.status.seq = d.seq
      BY DEF EscrowInv
    <3> HIDE DEF chain
    <3>2. EscrowInv'
      BY <1>3, <1>4, <1>5, <1>7, <2>2, <2>3, <2>4, <2>5, <2>6, <3>1 DEF EscrowInv
    <3>3. EscrowGrows
      BY <1>0, <2>2, <2>3, <2>5, <2>6 DEF EscrowGrows
    <3> QED
      BY <3>2, <3>3
  <2>7. CASE ~(m.kind = "claim" /\ m.reply = "ok")
    <3>1. \A d \in disbursed : d.kind # "claim"
      <4>1. CASE m.kind = "refund"
        BY <2>3, <4>1, NothingPaid
      <4>2. CASE m.kind = "claim"
        <5>1. \A n \in payouts : n.id = Id => n = m
          BY <1>2, <2>1 DEF PayoutInv, OnePayoutInFlight
        <5>2. ~(\E n \in payouts : n.id = Id /\ n.reply = "ok")
          BY <2>7, <4>2, <5>1
        <5>3. \A d \in disbursed : d.id = Id
          BY DEF EscrowInv
        <5> QED
          BY <1>2, <2>3, <4>2, <5>2, <5>3 DEF PayoutInv, DisbursedOnce
      <4> QED
        BY <2>1, <4>1, <4>2 DEF Payout
    <3>2. chain.status.state \notin {"Claimed", "Refunded"}
      BY <2>1, <2>3 DEF Payout
    <3>3. chain.claimNonce <= chain'.claimNonce
      BY <1>0, <2>5
    <3> QED
      BY <1>3, <1>4, <1>5, <1>7, <2>2, <3>1, <3>2, <3>3, EscrowOpens
  <2> QED
    BY <2>6, <2>7
<1> QED
  BY <1>8, <1>9, <1>11, <1>12, <1>13, <1>14 DEF EscrowStep, CancelBeforeOpen, ExpireAndRefund, Open

-----------------------------------------------------------------------------
(* What no step of anybody takes back.                                      *)

ClaimsGrow ==
    \A cl \in Claims :
       /\ claims[cl].status # "NONE" =>
             /\ claims'[cl].status # "NONE"
             /\ claims'[cl].nonce = claims[cl].nonce /\ claims'[cl].deadline = claims[cl].deadline
       /\ claims[cl].status \notin {"NONE", "AWAITING_PROOF"} =>
             claims'[cl].status \notin {"NONE", "AWAITING_PROOF"}
       /\ claims[cl].status \in Ended => claims'[cl].status \in Ended
       /\ claims[cl].status \in Settled \/ (claims[cl].status = "FAILED" /\ cl \notin OneClick) =>
             claims'[cl].status = claims[cl].status

CampaignGrows ==
    /\ cstatus \in {"CLAIMED", "REFUNDED"} => cstatus' = cstatus
    /\ cstatus \in Beyond => Cancelled \/ cstatus' \in Beyond

JobsGrow == \A k \in Keys : jobs[k].status # "NONE" => jobs'[k].status # "NONE"

ProviderGrows ==
    \A cl \in OneClick :
       /\ provider[cl] # "pending" => provider'[cl] # "pending"
       /\ provider[cl] \in {"settled", "refunded"} => provider'[cl] = provider[cl]

Grows == EscrowGrows /\ ClaimsGrow /\ CampaignGrows /\ JobsGrow /\ ProviderGrows

\* The step of a lawful system: it takes nothing back and keeps the escrow's invariant.
Lawful == LedgerInv /\ Grows /\ EscrowInv'

LEMMA EscrowIdle ==
  ASSUME EscrowInv, UNCHANGED vars
  PROVE  EscrowInv' /\ EscrowGrows
  BY EscrowMoves DEF EscrowStep

LEMMA LedgerIdle ==
  /\ claims' = claims => ClaimsGrow
  /\ cstatus' = cstatus => CampaignGrows
  /\ jobs' = jobs => JobsGrow
  /\ provider' = provider => ProviderGrows
<1>1. claims' = claims => ClaimsGrow
  BY DEF ClaimsGrow
<1>2. cstatus' = cstatus => CampaignGrows
  BY DEF CampaignGrows
<1>3. jobs' = jobs => JobsGrow
  BY DEF JobsGrow
<1>4. provider' = provider => ProviderGrows
  BY DEF ProviderGrows
<1> QED
  BY <1>1, <1>2, <1>3, <1>4

LEMMA TypedNext ==
  ASSUME EscrowInv'
  PROVE  chain'.claimNonce \in Nat /\ now' \in Nat
  BY LedgerAssumption DEF EscrowInv, chain, TypeOK, Campaign

LEMMA WonStays ==
  ASSUME Lawful, NEW cl \in Claims, Won(cl)
  PROVE  Won(cl)'
  BY DEF Lawful, Grows, EscrowGrows, ClaimsGrow, Won

LEMMA PermitsKept ==
  ASSUME Lawful, UNCHANGED permits
  PROVE  PermitsInv'
  BY DEF Lawful, LedgerInv, Grows, ClaimsGrow, PermitsInv, PermitOf

\* A claim that has lost has no promise, and a new one would need its spent permit.
LEMMA LostStays ==
  ASSUME Lawful, NEW cl \in Claims, Lost(cl)
  PROVE  Lost(cl)'
<1>1. /\ claims[cl].nonce \in Nat /\ claims[cl].deadline \in Nat
      /\ chain.claimNonce \in Nat /\ now \in Nat /\ chain'.claimNonce \in Nat /\ now' \in Nat
  BY ChainTyped, TypedNext DEF Lawful, LedgerInv, LedgerTypeOK, ClaimRow
<1>2. /\ claims'[cl].status # "NONE"
      /\ claims'[cl].nonce = claims[cl].nonce /\ claims'[cl].deadline = claims[cl].deadline
  BY DEF Lawful, Grows, ClaimsGrow, Lost
<1>3. \/ chain'.status.state = "Claimed"
      \/ chain'.claimNonce > claims'[cl].nonce
      \/ now' > claims'[cl].deadline
  BY <1>1, <1>2 DEF Lawful, Grows, EscrowGrows, Lost
<1>4. ASSUME NEW p \in permits, p.receiver = Receiver[cl], p.nonce = chain.claimNonce,
             now <= p.deadline, Open(chain)
      PROVE  FALSE
  <2>1. PICK c \in Claims : p = PermitOf(c)
    BY DEF Lawful, LedgerInv, PermitsInv
  <2>2. c = cl
    BY <1>4, <2>1, LedgerAssumption DEF PermitOf
  <2>3. chain.claimNonce = claims[cl].nonce /\ now <= claims[cl].deadline
    BY <1>4, <2>1, <2>2 DEF PermitOf
  <2> QED
    BY <1>1, <1>4, <2>3 DEF Lost, Open
<1>5. \A n \in payouts \cup disbursed : ~(n.kind = "claim" /\ n.to = Receiver[cl])
  BY DEF Lost
<1>6. ASSUME NEW d \in disbursed', d.kind = "claim", d.to = Receiver[cl] PROVE FALSE
  BY <1>5, <1>6 DEF Lawful, Grows, EscrowGrows
<1>7. ASSUME NEW m \in payouts', m.kind = "claim", m.to = Receiver[cl] PROVE FALSE
  BY <1>4, <1>5, <1>7 DEF Lawful, Grows, EscrowGrows
<1> QED
  BY <1>2, <1>3, <1>6, <1>7 DEF Lost

LEMMA StartedStays ==
  ASSUME Lawful, NEW k \in Keys, Started(k)
  PROVE  Started(k)'
<1>1. k[1] = "claim" => claims'[k[2]].status \notin {"NONE", "AWAITING_PROOF"}
  BY KindsOfKeys DEF Lawful, Grows, ClaimsGrow, Started
<1>2. k[1] = "payout" => Won(k[2])'
  BY KindsOfKeys, WonStays DEF Started
<1> QED
  BY <1>1, <1>2 DEF Started

LEMMA DoneStays ==
  ASSUME Lawful, NEW k \in Keys, Done(k)
  PROVE  Done(k)'
<1>1. k[1] = "claim" => \/ claims'[k[2]].status \in Ended
                        \/ k[2] \in OneClick /\ jobs'[PayoutKey(k[2])].status # "NONE"
  BY KindsOfKeys, KeyFacts DEF Lawful, Grows, ClaimsGrow, JobsGrow, Done
<1>2. k[1] = "payout" => claims'[k[2]].status \in Settled
  BY KindsOfKeys DEF Lawful, Grows, ClaimsGrow, Done
<1>3. k[1] = "lifecycle" => Cancelled' \/ cstatus' \in Beyond
  BY KeyFacts DEF Lawful, Grows, CampaignGrows, JobsGrow, Done, Cancelled, Reasons
<1> QED
  BY <1>1, <1>2, <1>3 DEF Done

LEMMA CancelledStays ==
  ASSUME Lawful, Cancelled \/ cstatus \in Beyond
  PROVE  Cancelled' \/ cstatus' \in Beyond
  BY KeyFacts DEF Lawful, Grows, CampaignGrows, JobsGrow, Cancelled, Reasons

LEMMA ClaimStaysOK ==
  ASSUME Lawful, NEW cl \in Claims, claims'[cl].status = claims[cl].status
  PROVE  ClaimOK(cl)'
<1>1. ClaimOK(cl)
  BY DEF Lawful, LedgerInv
<1>2. CASE claims[cl].status \in Settled
  <2>1. Won(cl)'
    BY <1>1, <1>2, WonStays DEF ClaimOK
  <2>2. cl \in OneClick =>
           /\ provider'[cl] = IF claims[cl].status = "PAID" THEN "settled" ELSE "refunded"
           /\ cstatus' = "CLAIMED"
    BY <1>1, <1>2 DEF ClaimOK, Lawful, Grows, CampaignGrows, ProviderGrows
  <2> QED
    BY <1>2, <2>1, <2>2 DEF ClaimOK, Settled
<1>3. CASE claims[cl].status = "FAILED"
  <2>1. Lost(cl)' \/ (cl \in OneClick /\ provider'[cl] # "pending")
    BY <1>1, <1>3, LostStays DEF ClaimOK, Lawful, Grows, ProviderGrows
  <2> QED
    BY <1>3, <2>1 DEF ClaimOK, Settled
<1> QED
  BY <1>2, <1>3 DEF ClaimOK

LEMMA StageStays ==
  ASSUME Lawful, NEW k \in Keys, NEW stage, NEW status, AtStage(k, stage, status)
  PROVE  AtStage(k, stage, status)'
<1> USE KindsOfKeys
<1>1. /\ stage = "loaded" /\ k[1] = "payout" /\ status \in Settled => claims'[k[2]].status = status
      /\ stage = "paid" => k[1] = "claim" /\ claims'[k[2]].status = "PAID"
      /\ stage \in {"lost", "reopen"} => k[1] = "claim" /\ claims'[k[2]].status \in Ended
  BY DEF Lawful, Grows, ClaimsGrow, AtStage, Settled
<1>2. /\ stage = "consumed" => k[1] = "claim" /\ Lost(k[2])'
      /\ stage = "deposited" => k[1] = "claim" /\ k[2] \in OneClick /\ Won(k[2])'
  BY LostStays, WonStays DEF AtStage
<1>3. /\ stage = "lost" => chain'.status.state = "Claimed"
      /\ stage = "order" => k[1] \in {"lifecycle", "refund"} /\ cstatus' = "REFUNDED"
  BY DEF Lawful, Grows, EscrowGrows, CampaignGrows, AtStage
<1>4. stage \in {"hand over", "done"} => Done(k)'
  BY DoneStays DEF AtStage
<1> QED
  BY <1>1, <1>2, <1>3, <1>4 DEF AtStage

-----------------------------------------------------------------------------
(* Runs.                                                                    *)

\* The runs are typed, and those of the other workers are as before but for their row,
\* which may have become stale.
OthersKept(w) ==
    /\ runs' \in [Workers -> Run \cup {None}]
    /\ \A v \in Workers \ {w}, r \in Run \ {None} :
          runs'[v] = r =>
             \E s \in Run \ {None} :
                /\ runs[v] = s
                /\ r.job = s.job /\ r.at = s.at /\ r.stage = s.stage /\ r.seen = s.seen /\ r.claim = s.claim
                /\ r.fresh => s.fresh /\ cstatus' = cstatus

LEMMA RunStays ==
  ASSUME Lawful, NEW r \in Run, NEW s \in Run, RunOK(s),
         r.job = s.job, r.at = s.at, r.stage = s.stage, r.seen = s.seen, r.claim = s.claim,
         r.fresh => s.fresh /\ cstatus' = cstatus
  PROVE  RunOK(r)'
<1>1. r.job \in Keys /\ r.at \in Nat /\ now \in Nat /\ now' \in Nat /\ now <= now'
  BY ChainTyped, TypedNext DEF Run, Lawful, LedgerInv, Grows, EscrowGrows
<1>2. r.at <= now' /\ jobs'[r.job].status # "NONE" /\ (r.fresh => r.seen = cstatus')
  BY <1>1 DEF RunOK, Lawful, Grows, JobsGrow
<1>3. r.stage \in {"loaded", "expire"} /\ r.seen \in Beyond => Cancelled' \/ cstatus' \in Beyond
  BY CancelledStays DEF RunOK
<1>4. AtStage(r.job, r.stage, r.claim)'
  BY <1>1, StageStays DEF RunOK
<1> QED
  BY <1>2, <1>3, <1>4 DEF RunOK

LEMMA RunsKept ==
  ASSUME Lawful, NEW w, OthersKept(w),
         \A r \in Run \ {None} : w \in Workers /\ runs'[w] = r => RunOK(r)'
  PROVE  RunsInv'
<1> SUFFICES ASSUME NEW v \in Workers, NEW r \in Run \ {None}, runs'[v] = r, v # w PROVE RunOK(r)'
  BY DEF RunsInv
<1>1. PICK s \in Run \ {None} :
         /\ runs[v] = s
         /\ r.job = s.job /\ r.at = s.at /\ r.stage = s.stage /\ r.seen = s.seen /\ r.claim = s.claim
         /\ r.fresh => s.fresh /\ cstatus' = cstatus
  BY DEF OthersKept
<1>2. RunOK(s)
  BY <1>1 DEF Lawful, LedgerInv, RunsInv
<1> QED
  BY <1>1, <1>2, RunStays

\* Nobody's run moves.
LEMMA AllKept ==
  ASSUME LedgerTypeOK, runs' = Others(NoWorker) \/ (runs' = runs /\ cstatus' = cstatus)
  PROVE  OthersKept(NoWorker)
<1>1. CASE runs' = runs /\ cstatus' = cstatus
  BY <1>1 DEF LedgerTypeOK, OthersKept
<1>2. CASE runs' = Others(NoWorker)
  <2>1. NoWorker \notin Workers
    BY QueueAssumption
  <2>2. ASSUME NEW v \in Workers, runs[v] # None
        PROVE  /\ runs[v] \in Run /\ runs'[v] = [runs[v] EXCEPT !.fresh = @ /\ cstatus' = cstatus]
               /\ runs'[v] \in Run
    <3>1. runs[v] \in Run /\ runs'[v] = [runs[v] EXCEPT !.fresh = @ /\ cstatus' = cstatus]
      BY <1>2, <2>1, <2>2 DEF Others, LedgerTypeOK
    <3> QED
      BY <3>1 DEF Run
  <2>3. \A v \in Workers : runs[v] = None => runs'[v] = None
    BY <1>2 DEF Others
  <2>4. runs' \in [Workers -> Run \cup {None}]
    BY <1>2, <2>2, <2>3 DEF Others
  <2>5. ASSUME NEW v \in Workers, NEW r \in Run \ {None}, runs'[v] = r
        PROVE  \E s \in Run \ {None} :
                  /\ runs[v] = s
                  /\ r.job = s.job /\ r.at = s.at /\ r.stage = s.stage /\ r.seen = s.seen /\ r.claim = s.claim
                  /\ r.fresh => s.fresh /\ cstatus' = cstatus
    <3>1. runs[v] # None /\ runs[v] \in Run
      BY <2>3, <2>5, <2>2
    <3>2. r = [runs[v] EXCEPT !.fresh = @ /\ cstatus' = cstatus]
      BY <2>2, <2>5, <3>1
    <3> QED
      BY <3>1, <3>2 DEF Run
  <2> QED
    BY <2>4, <2>5 DEF OthersKept
<1> QED
  BY <1>1, <1>2

\* The other workers' runs, seen from worker w.
LEMMA OthersSeen ==
  ASSUME LedgerTypeOK, NEW w \in Workers
  PROVE  /\ Others(w) \in [Workers -> Run \cup {None}]
         /\ Others(w)[w] = runs[w]
         /\ \A v \in Workers \ {w}, r \in Run \ {None} :
               Others(w)[v] = r =>
                 \E s \in Run \ {None} :
                    /\ runs[v] = s
                    /\ r.job = s.job /\ r.at = s.at /\ r.stage = s.stage /\ r.seen = s.seen /\ r.claim = s.claim
                    /\ r.fresh => s.fresh /\ cstatus' = cstatus
<1>1. ASSUME NEW v \in Workers, v # w, runs[v] # None
      PROVE  /\ runs[v] \in Run /\ Others(w)[v] = [runs[v] EXCEPT !.fresh = @ /\ cstatus' = cstatus]
             /\ Others(w)[v] \in Run
  <2>1. runs[v] \in Run /\ Others(w)[v] = [runs[v] EXCEPT !.fresh = @ /\ cstatus' = cstatus]
    BY <1>1 DEF Others, LedgerTypeOK
  <2> QED
    BY <2>1 DEF Run
<1>2. Others(w)[w] = runs[w] /\ \A v \in Workers : runs[v] = None => Others(w)[v] = None
  BY DEF Others
<1>3. Others(w) \in [Workers -> Run \cup {None}]
  <2>1. \A v \in Workers : Others(w)[v] \in Run \cup {None}
    BY <1>1, <1>2 DEF LedgerTypeOK
  <2> QED
    BY <2>1 DEF Others
<1>4. ASSUME NEW v \in Workers \ {w}, NEW r \in Run \ {None}, Others(w)[v] = r
      PROVE  \E s \in Run \ {None} :
                /\ runs[v] = s
                /\ r.job = s.job /\ r.at = s.at /\ r.stage = s.stage /\ r.seen = s.seen /\ r.claim = s.claim
                /\ r.fresh => s.fresh /\ cstatus' = cstatus
  <2>1. runs[v] # None /\ runs[v] \in Run /\ r = [runs[v] EXCEPT !.fresh = @ /\ cstatus' = cstatus]
    BY <1>1, <1>2, <1>4
  <2> QED
    BY <2>1 DEF Run
<1> QED
  BY <1>2, <1>3, <1>4

\* A worker's own step, whatever it goes on with.
LEMMA RunMoves ==
  ASSUME LedgerTypeOK, NEW w \in Workers, NEW s \in Run \cup {None},
         runs' = [Others(w) EXCEPT ![w] = s]
  PROVE  OthersKept(w) /\ runs'[w] = s
<1>1. runs' \in [Workers -> Run \cup {None}] /\ runs'[w] = s
  BY OthersSeen
<1>2. \A v \in Workers \ {w} : runs'[v] = Others(w)[v]
  BY OthersSeen
<1> QED
  BY <1>1, <1>2, OthersSeen DEF OthersKept

\* It forgets what it has loaded.
LEMMA Forgets ==
  ASSUME LedgerTypeOK, NEW w \in Workers, NEW r \in Run \ {None}, runs[w] = r,
         NEW at \in Nat, NEW stage \in Stages,
         GotoKeeping(w, stage, at)
  PROVE  OthersKept(w) /\ runs'[w] = Fresh(r.job, at, stage)
<1>1. runs' = [Others(w) EXCEPT ![w] = Fresh(r.job, at, stage)]
  BY OthersSeen DEF GotoKeeping
<1>2. Fresh(r.job, at, stage) \in Run
  BY DEF Run, Fresh, ClaimStatuses
<1> QED
  BY <1>1, <1>2, RunMoves

LEMMA ForgetsSafely ==
  ASSUME Lawful, NEW w \in Workers, NEW r \in Run \ {None}, runs[w] = r,
         NEW at \in Nat, at <= now, NEW stage \in Stages \ {"loaded", "expire"},
         GotoKeeping(w, stage, at),
         AtStage(r.job, stage, "NONE")'
  PROVE  RunsTyped' /\ RunsInv'
<1>1. OthersKept(w) /\ runs'[w] = Fresh(r.job, at, stage)
  BY Forgets DEF Lawful, LedgerInv
<1>2. ASSUME NEW s \in Run \ {None}, runs'[w] = s
      PROVE  RunOK(s)'
  <2>1. s.job = r.job /\ s.at = at /\ s.stage = stage /\ s.fresh = FALSE /\ s.claim = "NONE"
    BY <1>1, <1>2 DEF Fresh
  <2>2. at <= now'
    BY ChainTyped, TypedNext DEF Lawful, LedgerInv, Grows, EscrowGrows
  <2>3. jobs'[r.job].status # "NONE"
    BY DEF Run, Lawful, LedgerInv, RunsInv, RunOK, Grows, JobsGrow
  <2> QED
    BY <2>1, <2>2, <2>3 DEF RunOK
<1> QED
  BY <1>1, <1>2, RunsKept DEF OthersKept, RunsTyped

\* The stages at which a run relies on nothing.
LEMMA NothingReliedOn ==
  ASSUME NEW k, NEW stage \in {"leased", "verify", "again"}
  PROVE  AtStage(k, stage, "NONE")'
  BY DEF AtStage, Settled

-----------------------------------------------------------------------------
(* Jobs, claims and the campaign, after a step.                             *)

LEMMA JobsMove ==
  ASSUME Lawful,
         \A k \in Keys : jobs'[k].status # "NONE" => jobs[k].status # "NONE" \/ Started(k)',
         \A k \in Keys : jobs'[k].status = "SUCCEEDED" => jobs[k].status = "SUCCEEDED" \/ Done(k)'
  PROVE  JobsInv'
<1>1. jobs'[LifecycleKey].status # "NONE"
  BY KeyFacts DEF Lawful, LedgerInv, JobsInv, Grows, JobsGrow
<1>2. \A k \in Keys : JobOK(k)'
  BY StartedStays, DoneStays DEF Lawful, LedgerInv, JobsInv, JobOK
<1> QED
  BY <1>1, <1>2 DEF JobsInv

LEMMA JobsUnmoved ==
  ASSUME Lawful, jobs' = jobs
  PROVE  JobsTyped' /\ JobsInv'
  BY JobsMove DEF Lawful, LedgerInv, LedgerTypeOK, JobsTyped

LEMMA JobEnqueued ==
  ASSUME JobsTyped, NEW k \in Keys, NEW revive \in BOOLEAN, jobs' = Enqueued(k, revive)
  PROVE  /\ JobsTyped' /\ JobsGrow
         /\ jobs'[k].status # "NONE"
         /\ \A j \in Keys : /\ j # k => jobs'[j] = jobs[j]
                            /\ jobs'[j].status = "SUCCEEDED" => jobs[j].status = "SUCCEEDED"
<1>1. Row("PENDING", 0) \in JobRow /\ Row("PENDING", 0).status = "PENDING"
  BY QueueAssumption DEF Row, JobRow
<1>2. (jobs' = jobs /\ jobs[k].status # "NONE") \/ jobs' = [jobs EXCEPT ![k] = Row("PENDING", 0)]
  BY DEF Enqueued
<1> QED
  BY <1>1, <1>2 DEF JobsTyped, JobsGrow

LEMMA JobLeased ==
  ASSUME JobsTyped, NEW k \in Keys, NEW w \in Workers, Leasable(k), jobs' = Leased(k, w)
  PROVE  /\ JobsTyped' /\ JobsGrow
         /\ \A j \in Keys : j # k => jobs'[j] = jobs[j]
         /\ jobs[k].status # "NONE" /\ jobs'[k].status = "RUNNING"
<1> DEFINE row == [status |-> "RUNNING", attempts |-> jobs[k].attempts + 1, owner |-> w]
<1>1. row \in JobRow /\ row.status = "RUNNING"
  BY QueueAssumption DEF JobsTyped, JobRow, Leasable
<1>2. jobs' = [jobs EXCEPT ![k] = row]
  BY DEF Leased
<1>3. jobs[k].status # "NONE"
  BY DEF Leasable
<1> HIDE DEF row
<1> QED
  BY <1>1, <1>2, <1>3 DEF JobsTyped, JobsGrow

\* completeJob, rescheduleJob and failJob write the job that the worker still owns.
LEMMA JobReturned ==
  ASSUME JobsTyped, NEW k \in Keys, NEW w \in Workers,
         jobs' \in {Completed(k, w), Rescheduled(k, w), Failed(k, w)}
  PROVE  /\ JobsTyped' /\ JobsGrow
         /\ \A j \in Keys : jobs'[j].status # "NONE" => jobs[j].status # "NONE"
         /\ \A j \in Keys : jobs'[j].status = "SUCCEEDED" =>
               jobs[j].status = "SUCCEEDED" \/ (j = k /\ jobs' = Completed(k, w))
<1>1. /\ \A status \in {"SUCCEEDED", "PENDING", "DEAD"} : Row(status, 0) \in JobRow
      /\ Row("PENDING", jobs[k].attempts) \in JobRow
      /\ \A status, attempts : Row(status, attempts).status = status
  BY QueueAssumption DEF Row, JobRow, JobsTyped
<1>2. CASE jobs' = jobs
  BY <1>2 DEF JobsTyped, JobsGrow
<1>3. ASSUME NEW status \in {"SUCCEEDED", "PENDING", "DEAD"}, NEW attempts, Row(status, attempts) \in JobRow,
             jobs' = [jobs EXCEPT ![k] = Row(status, attempts)], Owns(w, k),
             status = "SUCCEEDED" => jobs' = Completed(k, w)
      PROVE  /\ JobsTyped' /\ JobsGrow
             /\ \A j \in Keys : jobs'[j].status # "NONE" => jobs[j].status # "NONE"
             /\ \A j \in Keys : jobs'[j].status = "SUCCEEDED" =>
                   jobs[j].status = "SUCCEEDED" \/ (j = k /\ jobs' = Completed(k, w))
  BY <1>1, <1>3 DEF JobsTyped, JobsGrow, Owns
<1>4. CASE ~(jobs' = jobs)
  <2>1. Owns(w, k)
    BY <1>4 DEF Completed, Rescheduled, Failed
  <2>2. CASE jobs' = Completed(k, w)
    BY <1>1, <1>3, <2>1, <2>2 DEF Completed
  <2>3. CASE jobs' = Rescheduled(k, w)
    BY <1>1, <1>3, <2>1, <2>3 DEF Rescheduled
  <2>4. CASE jobs' = Failed(k, w)
    <3>1. CASE jobs[k].attempts >= MaxAttempts
      <4>1. jobs' = [jobs EXCEPT ![k] = Row("DEAD", 0)]
        BY <2>1, <2>4, <3>1 DEF Failed
      <4> QED
        BY <1>1, <1>3, <2>1, <4>1
    <3>2. CASE ~(jobs[k].attempts >= MaxAttempts)
      <4>1. jobs' = [jobs EXCEPT ![k] = Row("PENDING", jobs[k].attempts)]
        BY <2>1, <2>4, <3>2 DEF Failed
      <4> QED
        BY <1>1, <1>3, <2>1, <4>1
    <3> QED
      BY <3>1, <3>2
  <2> QED
    BY <2>2, <2>3, <2>4
<1> QED
  BY <1>2, <1>4

\* The write of a claim's status.
LEMMA ClaimSet ==
  ASSUME ClaimsTyped, NEW cl \in Claims, NEW status \in ClaimStatuses, SetClaim(cl, status),
         claims[cl].status # "NONE", status \notin {"NONE", "AWAITING_PROOF"},
         claims[cl].status \in Ended => status \in Ended,
         claims[cl].status \in Settled \/ (claims[cl].status = "FAILED" /\ cl \notin OneClick) =>
            status = claims[cl].status
  PROVE  /\ ClaimsTyped' /\ ClaimsGrow
         /\ claims'[cl].status = status
         /\ \A c \in Claims : c # cl => claims'[c].status = claims[c].status
<1>1. claims' = [claims EXCEPT ![cl].status = status]
  BY DEF SetClaim
<1>2. claims[cl] \in ClaimRow /\ claims'[cl] = [claims[cl] EXCEPT !.status = status]
      /\ \A c \in Claims : c # cl => claims'[c] = claims[c]
  BY <1>1 DEF ClaimsTyped
<1>3. claims'[cl] \in ClaimRow /\ claims'[cl].status = status
      /\ claims'[cl].nonce = claims[cl].nonce /\ claims'[cl].deadline = claims[cl].deadline
  BY <1>2 DEF ClaimRow
<1>4. ClaimsTyped'
  BY <1>1, <1>2, <1>3 DEF ClaimsTyped
<1>5. ClaimsGrow
  BY <1>2, <1>3 DEF ClaimsGrow
<1> QED
  BY <1>2, <1>3, <1>4, <1>5

\* alignCampaignStatus either finds the target, then or now, or writes a row it has read.
LEMMA Aligns ==
  ASSUME LedgerInv, NEW w \in Workers, NEW r \in Run \ {None}, runs[w] = r,
         NEW target, AlignCampaignStatus(w, target)
  PROVE  \/ cstatus' = cstatus /\ (r.seen = target \/ cstatus = target)
         \/ cstatus \in Aligned /\ r.seen = cstatus /\ cstatus # target /\ cstatus' = target
<1>1. r.fresh => r.seen = cstatus
  BY DEF LedgerInv, RunsInv, RunOK
<1> QED
  BY <1>1 DEF AlignCampaignStatus, TransitionCampaign

LEMMA CampaignMoves ==
  ASSUME Lawful, order' = order,
         cstatus' # cstatus /\ cstatus' = "CLAIMED" => chain.status.state = "Claimed",
         cstatus' # cstatus /\ cstatus' = "REFUNDED" => chain.status.state = "Refunded"
  PROVE  CampaignOK'
<1>1. CampaignOK
  BY DEF Lawful, LedgerInv
<1>2. /\ chain.status.state \in {"Claimed", "Refunded"} => chain'.status = chain.status
      /\ cstatus = "REFUNDED" => cstatus' = "REFUNDED"
  BY DEF Lawful, Grows, EscrowGrows, CampaignGrows
<1> QED
  BY <1>1, <1>2 DEF CampaignOK

-----------------------------------------------------------------------------
(* Steps, put together.                                                     *)

\* A step of the ledger alone is lawful if its writes are.
LEMMA LawfulWrite ==
  ASSUME LedgerInv, UNCHANGED <<vars, provider>>, ClaimsGrow, CampaignGrows, JobsGrow
  PROVE  Lawful
<1>1. EscrowInv' /\ EscrowGrows
  BY EscrowIdle DEF LedgerInv
<1> QED
  BY <1>1, LedgerIdle DEF Lawful, Grows

LEMMA Assembled ==
  ASSUME Lawful, permits' = permits,
         JobsTyped', CampaignTyped', ClaimsTyped', RunsTyped', ProviderTyped',
         \A cl \in Claims : claims'[cl].status # claims[cl].status => ClaimOK(cl)',
         CampaignOK', JobsInv', RunsInv'
  PROVE  LedgerInv'
<1>1. TypeOK'
  BY DEF Lawful, EscrowInv
<1>2. LedgerTypeOK'
  BY <1>1 DEF LedgerTypeOK, JobsTyped, CampaignTyped, ClaimsTyped, RunsTyped, ProviderTyped
<1>3. \A cl \in Claims : ClaimOK(cl)'
  BY ClaimStaysOK
<1>4. PermitsInv'
  BY PermitsKept
<1> QED
  BY <1>2, <1>3, <1>4 DEF Lawful, LedgerInv

\* What the invariant says of a run.
LEMMA RunFacts ==
  ASSUME LedgerInv, NEW w \in Workers, runs[w] # None
  PROVE  \E r \in Run \ {None} :
            /\ runs[w] = r
            /\ RunOK(r) /\ r.job \in Keys /\ r.at \in Nat /\ r.at <= now
            /\ jobs[r.job].status # "NONE" /\ Started(r.job)
<1>1. PICK r \in Run \ {None} : runs[w] = r
  BY DEF LedgerInv, LedgerTypeOK
<1>2. RunOK(r) /\ r.job \in Keys /\ r.at \in Nat
  BY <1>1 DEF LedgerInv, RunsInv, Run
<1> QED
  BY <1>1, <1>2 DEF LedgerInv, JobsInv, JobOK, RunOK

\* The step of a worker that writes the campaign, or nothing.
LEMMA CampaignWritten ==
  ASSUME LedgerInv, NEW w \in Workers, NEW r \in Run \ {None}, runs[w] = r,
         UNCHANGED <<vars, jobs, order, claims, provider>>,
         cstatus' \in CampaignStatuses, CampaignGrows,
         cstatus' # cstatus /\ cstatus' = "CLAIMED" => chain.status.state = "Claimed",
         cstatus' # cstatus /\ cstatus' = "REFUNDED" => chain.status.state = "Refunded",
         NEW at \in Nat, at <= now, NEW stage \in Stages \ {"loaded", "expire"},
         GotoKeeping(w, stage, at),
         Lawful => AtStage(r.job, stage, "NONE")'
  PROVE  Lawful /\ LedgerInv'
<1>1. Lawful
  BY LawfulWrite, LedgerIdle
<1>2. JobsTyped' /\ JobsInv'
  BY <1>1, JobsUnmoved
<1>3. RunsTyped' /\ RunsInv'
  BY <1>1, ForgetsSafely
<1>4. CampaignTyped' /\ ClaimsTyped' /\ ProviderTyped' /\ permits' = permits
  BY Typed DEF LedgerInv, CampaignTyped, ClaimsTyped, ProviderTyped, vars
<1>5. CampaignOK'
  BY <1>1, CampaignMoves
<1> QED
  BY <1>1, <1>2, <1>3, <1>4, <1>5, Assembled

\* The step of a worker that writes nothing.
LEMMA NothingWritten ==
  ASSUME LedgerInv, NEW w \in Workers, NEW r \in Run \ {None}, runs[w] = r,
         UNCHANGED <<vars, jobs, ledger, provider>>,
         NEW stage \in Stages \ {"loaded", "expire"}, GotoForgetting(w, stage),
         Lawful => AtStage(r.job, stage, "NONE")'
  PROVE  Lawful /\ LedgerInv'
<1>1. CampaignGrows /\ cstatus' \in CampaignStatuses
  BY LedgerIdle DEF ledger, LedgerInv, LedgerTypeOK
<1>2. 0 \in Nat /\ 0 <= now
  BY ChainTyped DEF LedgerInv
<1> QED
  BY <1>1, <1>2, CampaignWritten DEF GotoForgetting, ledger

\* The step of a worker that writes the status of a claim.
LEMMA ClaimWritten ==
  ASSUME LedgerInv, NEW w \in Workers, NEW r \in Run \ {None}, runs[w] = r,
         UNCHANGED <<vars, jobs, cstatus, order, provider>>,
         NEW cl \in Claims, NEW status \in ClaimStatuses, SetClaim(cl, status),
         claims[cl].status # "NONE", status \notin {"NONE", "AWAITING_PROOF"},
         claims[cl].status \in Ended => status \in Ended,
         claims[cl].status \in Settled \/ (claims[cl].status = "FAILED" /\ cl \notin OneClick) =>
            status = claims[cl].status,
         Lawful /\ claims[cl].status # status => ClaimOK(cl)',
         Lawful => RunsTyped' /\ RunsInv'
  PROVE  Lawful /\ LedgerInv'
<1>1. /\ ClaimsTyped' /\ ClaimsGrow
      /\ claims'[cl].status = status
      /\ \A c \in Claims : c # cl => claims'[c].status = claims[c].status
  BY Typed, ClaimSet DEF LedgerInv
<1>2. Lawful
  BY <1>1, LawfulWrite, LedgerIdle
<1>3. JobsTyped' /\ JobsInv'
  BY <1>2, JobsUnmoved
<1>4. CampaignTyped' /\ ProviderTyped' /\ permits' = permits
  BY Typed DEF LedgerInv, CampaignTyped, ProviderTyped, vars
<1>5. CampaignOK'
  BY <1>2, CampaignMoves
<1> QED
  BY <1>1, <1>2, <1>3, <1>4, <1>5, Assembled

\* The step of a worker that enqueues a job and is done.
LEMMA JobWritten ==
  ASSUME LedgerInv, NEW w \in Workers, NEW r \in Run \ {None}, runs[w] = r,
         UNCHANGED <<vars, ledger, provider>>,
         NEW k \in Keys, jobs' = Enqueued(k, FALSE), Started(k), GotoForgetting(w, "done"),
         Lawful /\ jobs'[k].status # "NONE" => Done(r.job)'
  PROVE  Lawful /\ LedgerInv'
<1>1. /\ JobsTyped' /\ JobsGrow
      /\ jobs'[k].status # "NONE"
      /\ \A j \in Keys : /\ j # k => jobs'[j] = jobs[j]
                         /\ jobs'[j].status = "SUCCEEDED" => jobs[j].status = "SUCCEEDED"
  BY Typed, JobEnqueued DEF LedgerInv
<1>2. Lawful
  BY <1>1, LawfulWrite, LedgerIdle DEF ledger
<1>3. JobsInv'
  <2>1. Started(k)'
    BY <1>2, StartedStays
  <2> QED
    BY <1>1, <1>2, <2>1, JobsMove
<1>4. RunsTyped' /\ RunsInv'
  <2>1. AtStage(r.job, "done", "NONE")'
    BY <1>1, <1>2 DEF AtStage
  <2>2. 0 \in Nat /\ 0 <= now /\ "done" \in Stages \ {"loaded", "expire"}
    BY ChainTyped DEF LedgerInv, Stages
  <2> QED
    BY <1>2, <2>1, <2>2, ForgetsSafely DEF GotoForgetting
<1>5. CampaignTyped' /\ ClaimsTyped' /\ ProviderTyped' /\ permits' = permits /\ claims' = claims
  BY Typed DEF LedgerInv, CampaignTyped, ClaimsTyped, ProviderTyped, vars, ledger
<1>6. CampaignOK'
  BY <1>2, CampaignMoves DEF ledger
<1> QED
  BY <1>1, <1>2, <1>3, <1>4, <1>5, <1>6, Assembled

\* The step of a worker that goes on with a campaign row it has just loaded or written.
LEMMA GoesOnSafely ==
  ASSUME Lawful, NEW w \in Workers, NEW r \in Run \ {None}, runs[w] = r, RunOK(r),
         NEW s \in Run, runs' = [Others(w) EXCEPT ![w] = s],
         s.job = r.job, s.at = r.at, s.claim = r.claim, s.stage # "loaded",
         s.fresh => s.seen = cstatus',
         s.stage = "expire" => s.seen \notin Beyond,
         AtStage(r.job, s.stage, r.claim)'
  PROVE  RunsTyped' /\ RunsInv'
<1>1. OthersKept(w) /\ runs'[w] = s
  BY RunMoves DEF Lawful, LedgerInv
<1>2. RunOK(s)'
  <2>1. s.at <= now'
    BY ChainTyped, TypedNext DEF Run, RunOK, Lawful, LedgerInv, Grows, EscrowGrows
  <2>2. jobs'[s.job].status # "NONE"
    BY DEF Run, RunOK, Lawful, Grows, JobsGrow
  <2> QED
    BY <2>1, <2>2 DEF RunOK
<1> QED
  BY <1>1, <1>2, RunsKept DEF OthersKept, RunsTyped

-----------------------------------------------------------------------------
(* The claim's job.                                                         *)

\* A claim whose permit is named by the settled campaign has won.
LEMMA ClaimedByPermitWon ==
  ASSUME LedgerInv, NEW cl \in Claims, claims[cl].status # "NONE", ClaimedByPermit(cl)
  PROVE  Won(cl)
  BY ViewedStates DEF LedgerInv, EscrowInv, ClaimedByPermit, Won

\* A transfer or a promise to the winner of a claim was made by its permit.
LEMMA PaidByOwnPermit ==
  ASSUME LedgerInv, NEW cl \in Claims, NEW x \in payouts \cup disbursed,
         x.kind = "claim", x.to = Receiver[cl]
  PROVE  x.seq = claims[cl].nonce
<1>1. PICK p \in permits : p.receiver = x.to /\ p.nonce = x.seq
  BY DEF LedgerInv, EscrowInv, ReceiversRight, RightReceiver
<1>2. PICK c \in Claims : p = PermitOf(c)
  BY DEF LedgerInv, PermitsInv
<1>3. c = cl
  BY <1>1, <1>2, LedgerAssumption DEF PermitOf
<1> QED
  BY <1>1, <1>2, <1>3 DEF PermitOf

\* A promise to a winner is under way only while the campaign is in Claiming.
LEMMA NoPromise ==
  ASSUME EscrowInv, chain.status.state # "Claiming"
  PROVE  \A m \in payouts : m.kind # "claim"
  BY DEF EscrowInv, PayoutInv, OnePayoutInFlight, StaleClaim, chain

LEMMA LostRace ==
  ASSUME LedgerInv, NEW cl \in Claims, claims[cl].status # "NONE",
         ChainState = "Claimed", ~ClaimedByPermit(cl)
  PROVE  Lost(cl)
<1>1. chain.status.state = "Claimed"
  BY ViewedStates
<1>2. ASSUME NEW d \in disbursed, d.kind = "claim", d.to = Receiver[cl] PROVE FALSE
  <2>1. d.seq = claims[cl].nonce /\ d.id = Id /\ chain.status.seq = d.seq
    BY <1>2, PaidByOwnPermit DEF LedgerInv, EscrowInv
  <2> QED
    BY <1>2, <2>1 DEF ClaimedByPermit
<1>3. \A m \in payouts : m.kind # "claim"
  BY <1>1, NoPromise DEF LedgerInv
<1> QED
  BY <1>1, <1>2, <1>3 DEF Lost

LEMMA ConsumedLost ==
  ASSUME LedgerInv, NEW cl \in Claims, claims[cl].status # "NONE", ChainState = "Active",
         chain.claimNonce > claims[cl].nonce \/ now > claims[cl].deadline
  PROVE  Lost(cl)
<1>1. chain.status.state \notin {"Claiming", "Claimed"}
  BY ViewedStates DEF Open
<1> QED
  BY <1>1, NoPromise, NothingPaid DEF LedgerInv, Lost

LEMMA TransitionClaimSuccessKeeps ==
  ASSUME LedgerInv, NEW w \in Workers, TransitionClaimSuccess(w)
  PROVE  Lawful /\ LedgerInv'
<1>1. PICK r \in Run \ {None} : /\ runs[w] = r
                                /\ RunOK(r) /\ r.job \in Keys /\ r.at \in Nat /\ r.at <= now
                                /\ jobs[r.job].status # "NONE" /\ Started(r.job)
  BY RunFacts DEF TransitionClaimSuccess, At
<1> DEFINE cl == r.job[2]
<1>2. r.job[1] = "claim" /\ cl \in Claims /\ claims[cl].status \notin {"NONE", "AWAITING_PROOF"}
  BY <1>1, KindsOfKeys DEF TransitionClaimSuccess, Job, Started
<1>3. ClaimOf(w) = cl
  BY <1>1 DEF ClaimOf
<1>4. Won(cl)
  BY <1>2, <1>3, ClaimedByPermitWon DEF TransitionClaimSuccess
<1>5. UNCHANGED <<vars, jobs, cstatus, order, provider>>
  BY DEF TransitionClaimSuccess
<1>6. {"deposited", "paid", "done"} \subseteq Stages \ {"loaded", "expire"}
      /\ {"PAYING", "PAID", "FAILED"} \subseteq ClaimStatuses
      /\ 0 \in Nat /\ 0 <= now
  BY ChainTyped DEF Stages, ClaimStatuses, LedgerInv
<1>7. ASSUME cl \in OneClick, claims[cl].status \in {"PAID", "RECOVERED"},
             UNCHANGED claims, GotoForgetting(w, "done")
      PROVE  Lawful /\ LedgerInv'
  <2>1. Lawful => AtStage(r.job, "done", "NONE")'
    <3> SUFFICES ASSUME Lawful PROVE AtStage(r.job, "done", "NONE")'
      OBVIOUS
    <3>1. Done(r.job)
      BY <1>2, <1>7 DEF Done, Ended
    <3> QED
      BY <1>1, <3>1, DoneStays DEF AtStage
  <2> QED
    BY <1>1, <1>5, <1>6, <1>7, <2>1, NothingWritten DEF ledger
<1>8. ASSUME cl \in OneClick, claims[cl].status \in {"SUBMITTED", "PAYING", "FAILED"},
             NEW status \in {"PAYING", "FAILED"},
             status = IF claims[cl].status = "SUBMITTED" THEN "PAYING" ELSE claims[cl].status,
             SetClaim(cl, status), GotoForgetting(w, "deposited")
      PROVE  Lawful /\ LedgerInv'
  <2>1. Lawful => RunsTyped' /\ RunsInv'
    <3> SUFFICES ASSUME Lawful PROVE RunsTyped' /\ RunsInv'
      OBVIOUS
    <3>1. AtStage(r.job, "deposited", "NONE")'
      BY <1>2, <1>4, <1>8, WonStays DEF AtStage
    <3> QED
      BY <1>1, <1>6, <1>8, <3>1, ForgetsSafely DEF GotoForgetting
  <2>2. claims[cl].status # status => ClaimOK(cl)'
    <3> SUFFICES ASSUME claims[cl].status # status PROVE ClaimOK(cl)'
      OBVIOUS
    <3>1. status = "PAYING"
      BY <1>8
    <3>2. claims'[cl].status = "PAYING"
      BY <1>2, <1>8, <3>1, Typed DEF SetClaim, LedgerInv, ClaimsTyped, ClaimRow
    <3> QED
      BY <3>2 DEF ClaimOK, Settled
  <2>3. claims[cl].status \in Ended => status \in Ended
    BY <1>8 DEF Ended
  <2>4. claims[cl].status \notin Settled
    BY <1>8 DEF Settled
  <2> QED
    BY <1>1, <1>2, <1>5, <1>6, <1>8, <2>1, <2>2, <2>3, <2>4, ClaimWritten
<1>9. ASSUME cl \notin OneClick, claims[cl].status \in {"SUBMITTED", "PAYING", "PAID"},
             SetClaim(cl, "PAID"), GotoForgetting(w, "paid")
      PROVE  Lawful /\ LedgerInv'
  <2>1. claims'[cl].status = "PAID"
    BY <1>2, <1>9, Typed DEF SetClaim, LedgerInv, ClaimsTyped, ClaimRow
  <2>2. Lawful => RunsTyped' /\ RunsInv'
    <3> SUFFICES ASSUME Lawful PROVE RunsTyped' /\ RunsInv'
      OBVIOUS
    <3>1. AtStage(r.job, "paid", "NONE")'
      BY <1>2, <2>1 DEF AtStage
    <3> QED
      BY <1>1, <1>6, <1>9, <3>1, ForgetsSafely DEF GotoForgetting
  <2>3. Lawful => ClaimOK(cl)'
    BY <1>2, <1>4, <1>9, <2>1, WonStays DEF ClaimOK, Settled
  <2>4. "PAID" \in Ended /\ (claims[cl].status \in Settled \/ claims[cl].status = "FAILED" => claims[cl].status = "PAID")
    BY <1>9 DEF Ended, Settled
  <2> QED
    BY <1>1, <1>2, <1>5, <1>6, <1>9, <2>2, <2>3, <2>4, ClaimWritten
<1> QED
  <2>1. CASE cl \in OneClick
    BY <1>3, <1>7, <1>8, <2>1 DEF TransitionClaimSuccess
  <2>2. CASE cl \notin OneClick
    BY <1>3, <1>9, <2>2 DEF TransitionClaimSuccess
  <2> QED
    BY <2>1, <2>2

LEMMA CloseClaimedKeeps ==
  ASSUME LedgerInv, NEW w \in Workers, CloseClaimed(w)
  PROVE  Lawful /\ LedgerInv'
<1>1. PICK r \in Run \ {None} : runs[w] = r /\ RunOK(r) /\ r.job \in Keys
  BY RunFacts DEF CloseClaimed, At
<1> DEFINE cl == r.job[2]
<1>2. r.job[1] = "claim" /\ cl \in Claims /\ claims[cl].status = "PAID"
  BY <1>1, KindsOfKeys DEF CloseClaimed, At, RunOK, AtStage
<1>3. chain.status.state = "Claimed"
  BY <1>2 DEF LedgerInv, ClaimOK, Settled, Won
<1>4. cstatus' \in CampaignStatuses /\ CampaignGrows
  BY DEF CloseClaimed, CampaignGrows, CampaignStatuses, Beyond
<1>5. Lawful => AtStage(r.job, "done", "NONE")'
  BY <1>1, <1>2, DoneStays DEF AtStage, Done, Ended
<1>6. "done" \in Stages \ {"loaded", "expire"} /\ 0 \in Nat /\ 0 <= now
  BY ChainTyped DEF Stages, LedgerInv
<1> QED
  BY <1>1, <1>3, <1>4, <1>5, <1>6, CampaignWritten DEF CloseClaimed, GotoForgetting

LEMMA EnqueuePayoutKeeps ==
  ASSUME LedgerInv, NEW w \in Workers, EnqueuePayout(w)
  PROVE  Lawful /\ LedgerInv'
<1>1. PICK r \in Run \ {None} : runs[w] = r /\ RunOK(r) /\ r.job \in Keys
  BY RunFacts DEF EnqueuePayout, At
<1> DEFINE cl == r.job[2]
<1>2. r.job[1] = "claim" /\ cl \in OneClick /\ Won(cl)
  BY <1>1 DEF EnqueuePayout, At, RunOK, AtStage
<1>3. PayoutKey(cl) \in Keys /\ Started(PayoutKey(cl))
  BY <1>2, KeyFacts DEF Started
<1>4. jobs'[PayoutKey(cl)].status # "NONE" => Done(r.job)'
  BY <1>2 DEF Done
<1> QED
  BY <1>1, <1>3, <1>4, JobWritten DEF EnqueuePayout, ClaimOf

\* transitionConsumedClaimFailure: the claim has lost, or has ended already.
LEMMA FailClaimKeeps ==
  ASSUME LedgerInv, NEW w \in Workers, NEW r \in Run \ {None}, runs[w] = r, RunOK(r),
         r.job \in Keys, r.job[1] = "claim", Started(r.job), Lost(r.job[2]),
         NEW stage \in {"lost", "reopen"}, stage = "lost" => chain.status.state = "Claimed",
         FailClaim(w, stage)
  PROVE  Lawful /\ LedgerInv'
<1> DEFINE cl == r.job[2]
<1>1. cl \in Claims /\ claims[cl].status \in {"SUBMITTED", "PAYING", "FAILED"}
      /\ SetClaim(cl, "FAILED") /\ UNCHANGED <<vars, jobs, cstatus, order, provider>>
      /\ GotoWith(w, stage, cstatus)
  BY KindsOfKeys DEF FailClaim, ClaimOf
<1>2. claims'[cl].status = "FAILED"
  BY <1>1, Typed DEF SetClaim, LedgerInv, ClaimsTyped, ClaimRow
<1>3. Lawful => ClaimOK(cl)'
  BY <1>1, <1>2, LostStays DEF ClaimOK, Settled
<1>4. Lawful => RunsTyped' /\ RunsInv'
  <2> SUFFICES ASSUME Lawful PROVE RunsTyped' /\ RunsInv'
    OBVIOUS
  <2> DEFINE s == [r EXCEPT !.stage = stage, !.seen = cstatus, !.fresh = TRUE]
  <2>1. s \in Run /\ s.job = r.job /\ s.at = r.at /\ s.claim = r.claim /\ s.stage = stage /\ s.seen = cstatus
    BY DEF Run, Stages, LedgerInv, LedgerTypeOK
  <2>2. runs' = [Others(w) EXCEPT ![w] = s]
    BY <1>1, OthersSeen DEF GotoWith, LedgerInv
  <2>3. AtStage(r.job, stage, r.claim)'
    BY <1>2 DEF AtStage, Ended, Lawful, Grows, EscrowGrows
  <2>4. cstatus' = cstatus
    BY <1>1
  <2> HIDE DEF s
  <2> QED
    BY <2>1, <2>2, <2>3, <2>4, GoesOnSafely
<1>5. "FAILED" \in ClaimStatuses /\ "FAILED" \in Ended /\ claims[cl].status \notin Settled
  BY <1>1 DEF ClaimStatuses, Ended, Settled
<1> QED
  BY <1>1, <1>3, <1>4, <1>5, ClaimWritten

LEMMA LoseRaceKeeps ==
  ASSUME LedgerInv, NEW w \in Workers, LoseRace(w)
  PROVE  Lawful /\ LedgerInv'
<1>1. PICK r \in Run \ {None} : runs[w] = r /\ RunOK(r) /\ r.job \in Keys /\ Started(r.job)
  BY RunFacts DEF LoseRace, At
<1>2. r.job[1] = "claim" /\ r.job[2] \in Claims /\ claims[r.job[2]].status # "NONE"
  BY <1>1, KindsOfKeys DEF LoseRace, Job, Started
<1>3. Lost(r.job[2]) /\ chain.status.state = "Claimed"
  BY <1>1, <1>2, LostRace, ViewedStates DEF LoseRace, ClaimOf
<1> QED
  BY <1>1, <1>2, <1>3, FailClaimKeeps DEF LoseRace

LEMMA RecoverConsumedKeeps ==
  ASSUME LedgerInv, NEW w \in Workers, RecoverConsumed(w)
  PROVE  Lawful /\ LedgerInv'
<1>1. PICK r \in Run \ {None} : runs[w] = r /\ RunOK(r) /\ r.job \in Keys /\ Started(r.job)
  BY RunFacts DEF RecoverConsumed, At
<1>2. r.job[1] = "claim" /\ Lost(r.job[2])
  BY <1>1 DEF RecoverConsumed, At, RunOK, AtStage
<1> QED
  BY <1>1, <1>2, FailClaimKeeps DEF RecoverConsumed

LEMMA FindConsumedKeeps ==
  ASSUME LedgerInv, NEW w \in Workers, FindConsumed(w)
  PROVE  Lawful /\ LedgerInv'
<1>1. PICK r \in Run \ {None} : /\ runs[w] = r /\ r.job \in Keys /\ r.at \in Nat /\ r.at <= now
                                /\ Started(r.job)
  BY RunFacts DEF FindConsumed, At
<1> DEFINE cl == r.job[2]
<1>2. r.job[1] = "claim" /\ cl \in Claims /\ claims[cl].status # "NONE"
  BY <1>1, KindsOfKeys DEF FindConsumed, Job, Started
<1>3. claims[cl].deadline \in Nat /\ now \in Nat
  BY <1>2, Typed, ChainTyped DEF LedgerInv, ClaimsTyped, ClaimRow
<1>4. chain.claimNonce > claims[cl].nonce \/ now > claims[cl].deadline
  BY <1>1, <1>3 DEF FindConsumed, ClaimOf
<1>5. Lost(cl)
  BY <1>2, <1>4, ConsumedLost DEF FindConsumed, Idle
<1>6. Lawful => AtStage(r.job, "consumed", "NONE")'
  BY <1>2, <1>5, LostStays DEF AtStage
<1>7. "consumed" \in Stages \ {"loaded", "expire"}
  BY DEF Stages
<1> QED
  BY <1>1, <1>6, <1>7, NothingWritten DEF FindConsumed

LEMMA ReleaseCampaignKeeps ==
  ASSUME LedgerInv, NEW w \in Workers, ReleaseCampaign(w)
  PROVE  Lawful /\ LedgerInv'
<1>1. PICK r \in Run \ {None} : runs[w] = r /\ RunOK(r) /\ r.job \in Keys
  BY RunFacts DEF ReleaseCampaign, At
<1>2. /\ r.stage \in {"lost", "reopen"} /\ r.job[1] = "claim" /\ claims[r.job[2]].status \in Ended
      /\ r.stage = "lost" => chain.status.state = "Claimed"
  BY <1>1 DEF ReleaseCampaign, At, RunOK, AtStage
<1>3. \/ cstatus' = cstatus
      \/ /\ cstatus = "CLAIMING"
         /\ cstatus' = IF r.stage = "lost" THEN "CLAIMED" ELSE "ACTIVE"
  BY <1>1 DEF ReleaseCampaign, TransitionCampaign
<1>4. cstatus' \in CampaignStatuses /\ CampaignGrows
  BY <1>3 DEF CampaignGrows, CampaignStatuses, Beyond, LedgerInv, LedgerTypeOK
<1>5. Lawful => AtStage(r.job, "done", "NONE")'
  BY <1>1, <1>2, DoneStays DEF AtStage, Done
<1>6. "done" \in Stages \ {"loaded", "expire"} /\ 0 \in Nat /\ 0 <= now
  BY ChainTyped DEF Stages, LedgerInv
<1>7. /\ cstatus' # cstatus /\ cstatus' = "CLAIMED" => chain.status.state = "Claimed"
      /\ cstatus' # cstatus => cstatus' # "REFUNDED"
  BY <1>2, <1>3
<1> QED
  BY <1>1, <1>4, <1>5, <1>6, <1>7, CampaignWritten DEF ReleaseCampaign, GotoForgetting

LEMMA StartPayingKeeps ==
  ASSUME LedgerInv, NEW w \in Workers, StartPaying(w)
  PROVE  Lawful /\ LedgerInv'
<1>1. PICK r \in Run \ {None} : runs[w] = r /\ RunOK(r) /\ r.job \in Keys
  BY RunFacts DEF StartPaying, At
<1> DEFINE cl == r.job[2]
<1>2. r.job[1] = "claim" /\ cl \in Claims /\ ClaimOf(w) = cl
  BY <1>1, KindsOfKeys DEF StartPaying, Job, ClaimOf
<1>3. Lawful => AtStage(r.job, "submit", "NONE")'
  BY <1>2 DEF AtStage
<1>4. "submit" \in Stages \ {"loaded", "expire"} /\ "PAYING" \in ClaimStatuses /\ 0 \in Nat /\ 0 <= now
  BY ChainTyped DEF Stages, ClaimStatuses, LedgerInv
<1>5. CASE UNCHANGED claims
  BY <1>1, <1>3, <1>4, <1>5, NothingWritten DEF StartPaying, ledger
<1>6. ASSUME claims[cl].status = "SUBMITTED", SetClaim(cl, "PAYING")
      PROVE  Lawful /\ LedgerInv'
  <2>1. claims'[cl].status = "PAYING"
    BY <1>2, <1>6, Typed DEF SetClaim, LedgerInv, ClaimsTyped, ClaimRow
  <2>2. ClaimOK(cl)'
    BY <2>1 DEF ClaimOK, Settled
  <2>3. Lawful => RunsTyped' /\ RunsInv'
    BY <1>1, <1>3, <1>4, ForgetsSafely DEF StartPaying, GotoForgetting
  <2>4. claims[cl].status \notin Ended /\ claims[cl].status \notin Settled
    BY <1>6 DEF Ended, Settled
  <2> QED
    BY <1>1, <1>2, <1>4, <1>6, <2>2, <2>3, <2>4, ClaimWritten DEF StartPaying
<1> QED
  BY <1>2, <1>5, <1>6 DEF StartPaying

-----------------------------------------------------------------------------
(* The job of a routed payout.                                              *)

LEMMA SettleOneClickPayoutKeeps ==
  ASSUME LedgerInv, NEW w \in Workers, SettleOneClickPayout(w)
  PROVE  Lawful /\ LedgerInv'
<1>1. PICK r \in Run \ {None} : runs[w] = r /\ RunOK(r) /\ r.job \in Keys /\ Started(r.job)
  BY RunFacts DEF SettleOneClickPayout, At
<1> DEFINE cl == r.job[2]
<1>2. /\ r.job[1] = "payout" /\ cl \in OneClick /\ cl \in Claims /\ ClaimOf(w) = cl
      /\ r.stage = "loaded"
  BY <1>1, KindsOfKeys DEF SettleOneClickPayout, Job, ClaimOf, At
<1>3. Won(cl) /\ chain.status.state = "Claimed"
  BY <1>1, <1>2 DEF Started, Won
<1>4. PICK target \in {"PAID", "RECOVERED"} :
         /\ FinalizeOneClickPayout(cl, target)
         /\ \/ claims[cl].status = target
            \/ provider[cl] = IF target = "PAID" THEN "settled" ELSE "refunded"
  <2>1. CASE r.claim \in {"PAID", "RECOVERED"} /\ FinalizeOneClickPayout(cl, r.claim)
    <3>1. claims[cl].status = r.claim
      BY <1>1, <1>2, <2>1 DEF RunOK, AtStage, Settled
    <3> QED
      BY <2>1, <3>1
  <2>2. CASE \/ provider[cl] = "settled" /\ FinalizeOneClickPayout(cl, "PAID")
             \/ provider[cl] = "refunded" /\ FinalizeOneClickPayout(cl, "RECOVERED")
    BY <2>2
  <2> QED
    BY <1>1, <1>2, <2>1, <2>2 DEF SettleOneClickPayout
<1>5. /\ claims[cl].status \in {"PAYING", "FAILED", target} /\ SetClaim(cl, target)
      /\ cstatus' = "CLAIMED" /\ cstatus \in {"CLAIMING", "CLAIMED"}
      /\ UNCHANGED <<vars, jobs, order, provider>> /\ GotoForgetting(w, "done")
  BY <1>4 DEF FinalizeOneClickPayout, SettleOneClickPayout
<1>6. target \in ClaimStatuses /\ target \in Settled /\ target \in Ended /\ claims[cl].status # "NONE"
      /\ target \notin {"NONE", "AWAITING_PROOF"}
  BY <1>5 DEF ClaimStatuses, Settled, Ended
<1>7. claims[cl].status \in Settled \/ (claims[cl].status = "FAILED" /\ cl \notin OneClick) =>
         target = claims[cl].status
  BY <1>2, <1>5 DEF Settled
<1>8. /\ ClaimsTyped' /\ ClaimsGrow
      /\ claims'[cl].status = target
      /\ \A c \in Claims : c # cl => claims'[c].status = claims[c].status
  BY <1>2, <1>5, <1>6, <1>7, Typed, ClaimSet DEF LedgerInv
<1>9. CampaignGrows
  BY <1>5 DEF CampaignGrows, Beyond
<1>10. Lawful
  BY <1>5, <1>8, <1>9, LawfulWrite, LedgerIdle
<1>11. ClaimOK(cl)'
  <2>1. Won(cl)'
    BY <1>2, <1>3, <1>10, WonStays
  <2>2. provider'[cl] = IF target = "PAID" THEN "settled" ELSE "refunded"
    <3>1. claims[cl].status = target => provider[cl] = IF target = "PAID" THEN "settled" ELSE "refunded"
      BY <1>2, <1>6 DEF LedgerInv, ClaimOK
    <3> QED
      BY <1>4, <1>5, <3>1
  <2> QED
    BY <1>5, <1>8, <2>1, <2>2 DEF ClaimOK, Settled
<1>12. JobsTyped' /\ JobsInv'
  BY <1>5, <1>10, JobsUnmoved
<1>13. RunsTyped' /\ RunsInv'
  <2>1. AtStage(r.job, "done", "NONE")'
    BY <1>2, <1>6, <1>8 DEF AtStage, Done
  <2>2. "done" \in Stages \ {"loaded", "expire"} /\ 0 \in Nat /\ 0 <= now
    BY ChainTyped DEF Stages, LedgerInv
  <2> QED
    BY <1>1, <1>5, <1>10, <2>1, <2>2, ForgetsSafely DEF GotoForgetting
<1>14. CampaignTyped' /\ ProviderTyped' /\ permits' = permits
  BY <1>5, Typed DEF LedgerInv, CampaignTyped, ProviderTyped, CampaignStatuses, vars
<1>15. CampaignOK'
  BY <1>3, <1>5, <1>10, CampaignMoves
<1> QED
  BY <1>8, <1>10, <1>11, <1>12, <1>13, <1>14, <1>15, Assembled

LEMMA ObserveOneClickPayoutKeeps ==
  ASSUME LedgerInv, NEW w \in Workers, ObserveOneClickPayout(w)
  PROVE  Lawful /\ LedgerInv'
<1>1. PICK r \in Run \ {None} : runs[w] = r /\ RunOK(r) /\ r.job \in Keys
  BY RunFacts DEF ObserveOneClickPayout, At
<1> DEFINE cl == r.job[2]
<1>2. r.job[1] = "payout" /\ cl \in OneClick /\ cl \in Claims /\ ClaimOf(w) = cl
  BY <1>1, KindsOfKeys DEF ObserveOneClickPayout, Job, ClaimOf
<1>3. AtStage(r.job, "again", "NONE")'
  BY NothingReliedOn
<1>4. "again" \in Stages \ {"loaded", "expire"} /\ "FAILED" \in ClaimStatuses /\ 0 \in Nat /\ 0 <= now
  BY ChainTyped DEF Stages, ClaimStatuses, LedgerInv
<1>5. CASE UNCHANGED claims
  BY <1>1, <1>3, <1>4, <1>5, NothingWritten DEF ObserveOneClickPayout, ledger
<1>6. ASSUME provider[cl] = "failed", claims[cl].status \in {"PAYING", "FAILED"}, SetClaim(cl, "FAILED")
      PROVE  Lawful /\ LedgerInv'
  <2>1. claims'[cl].status = "FAILED"
    BY <1>2, <1>6, Typed DEF SetClaim, LedgerInv, ClaimsTyped, ClaimRow
  <2>2. ClaimOK(cl)'
    BY <1>2, <1>6, <2>1 DEF ClaimOK, Settled, ObserveOneClickPayout
  <2>3. Lawful => RunsTyped' /\ RunsInv'
    BY <1>1, <1>3, <1>4, ForgetsSafely DEF ObserveOneClickPayout, GotoForgetting
  <2>4. "FAILED" \in Ended /\ claims[cl].status \notin Settled
    BY <1>6 DEF Ended, Settled
  <2> QED
    BY <1>1, <1>2, <1>4, <1>6, <2>2, <2>3, <2>4, ClaimWritten DEF ObserveOneClickPayout
<1> QED
  BY <1>2, <1>5, <1>6 DEF ObserveOneClickPayout

-----------------------------------------------------------------------------
(* The jobs of the lifecycle and of a refund.                               *)

LEMMA FinalizeRefundKeeps ==
  ASSUME LedgerInv, NEW w \in Workers, FinalizeRefund(w)
  PROVE  Lawful /\ LedgerInv'
<1>1. PICK r \in Run \ {None} : runs[w] = r /\ r.job \in Keys
  BY RunFacts DEF FinalizeRefund, At
<1>2. r.job[1] \in {"lifecycle", "refund"} /\ chain.status.state = "Refunded"
      /\ cstatus \in {"SCHEDULED", "ACTIVE", "REFUNDING", "REFUNDED"} /\ cstatus' = "REFUNDED"
  BY <1>1, ViewedStates DEF FinalizeRefund, Job, Refunded
<1>3. cstatus' \in CampaignStatuses /\ CampaignGrows
  BY <1>2 DEF CampaignGrows, CampaignStatuses, Beyond
<1>4. AtStage(r.job, "order", "NONE")'
  BY <1>2 DEF AtStage
<1>5. "order" \in Stages \ {"loaded", "expire"} /\ 0 \in Nat /\ 0 <= now
  BY ChainTyped DEF Stages, LedgerInv
<1> QED
  BY <1>1, <1>2, <1>3, <1>4, <1>5, CampaignWritten DEF FinalizeRefund, GotoForgetting

LEMMA CloseOrderKeeps ==
  ASSUME LedgerInv, NEW w \in Workers, CloseOrder(w)
  PROVE  Lawful /\ LedgerInv'
<1>1. PICK r \in Run \ {None} : runs[w] = r /\ RunOK(r) /\ r.job \in Keys
  BY RunFacts DEF CloseOrder, At
<1>2. r.job[1] \in {"lifecycle", "refund"} /\ cstatus = "REFUNDED"
  BY <1>1 DEF CloseOrder, At, RunOK, AtStage
<1>3. /\ UNCHANGED <<vars, jobs, cstatus, claims, provider>> /\ order' = "REFUNDED"
      /\ GotoForgetting(w, "done")
  BY DEF CloseOrder
<1>4. Lawful
  BY <1>3, LawfulWrite, LedgerIdle
<1>5. RunsTyped' /\ RunsInv'
  <2>1. AtStage(r.job, "done", "NONE")'
    BY <1>2, <1>3 DEF AtStage, Done, Beyond
  <2>2. "done" \in Stages \ {"loaded", "expire"} /\ 0 \in Nat /\ 0 <= now
    BY ChainTyped DEF Stages, LedgerInv
  <2> QED
    BY <1>1, <1>3, <1>4, <2>1, <2>2, ForgetsSafely DEF GotoForgetting
<1>6. CampaignOK'
  <2>1. chain'.status.state = "Refunded"
    BY <1>2, <1>4 DEF Lawful, LedgerInv, CampaignOK, Grows, EscrowGrows
  <2> QED
    BY <1>2, <1>3, <2>1 DEF CampaignOK
<1>7. CampaignTyped' /\ ClaimsTyped' /\ ProviderTyped' /\ permits' = permits
  BY <1>3, Typed DEF LedgerInv, CampaignTyped, ClaimsTyped, ProviderTyped, vars
<1>8. JobsTyped' /\ JobsInv'
  BY <1>3, <1>4, JobsUnmoved
<1> QED
  BY <1>3, <1>4, <1>5, <1>6, <1>7, <1>8, Assembled

\* A step that aligns the campaign with what the chain says.
LEMMA AlignedWritten ==
  ASSUME LedgerInv, NEW w \in Workers, NEW r \in Run \ {None}, runs[w] = r,
         NEW target \in Aligned \cup {"CLAIMED"}, AlignCampaignStatus(w, target),
         UNCHANGED <<vars, jobs, order, claims, provider>>,
         target \in Beyond \/ r.seen # "REFUNDING" \/ Cancelled,
         target = "CLAIMED" => chain.status.state = "Claimed",
         NEW at \in Nat, at <= now, NEW stage \in Stages \ {"loaded", "expire"},
         GotoKeeping(w, stage, at),
         Lawful => AtStage(r.job, stage, "NONE")'
  PROVE  Lawful /\ LedgerInv'
<1>1. \/ cstatus' = cstatus
      \/ cstatus \in Aligned /\ r.seen = cstatus /\ cstatus # target /\ cstatus' = target
  BY Aligns
<1>2. cstatus' \in CampaignStatuses /\ CampaignGrows
  BY <1>1 DEF CampaignGrows, CampaignStatuses, Beyond, Aligned, LedgerInv, LedgerTypeOK
<1>3. /\ cstatus' # cstatus /\ cstatus' = "CLAIMED" => chain.status.state = "Claimed"
      /\ cstatus' # cstatus => cstatus' # "REFUNDED"
  BY <1>1 DEF Aligned
<1> QED
  BY <1>2, <1>3, CampaignWritten

\* A lifecycle run that aligned the campaign with a state beyond solvers is done well.
LEMMA AlignedBeyond ==
  ASSUME LedgerInv, NEW w \in Workers, NEW r \in Run \ {None}, runs[w] = r, RunOK(r),
         r.stage \in {"loaded", "expire"}, NEW target \in {"CLAIMED", "REFUNDING"},
         AlignCampaignStatus(w, target), Lawful
  PROVE  Cancelled' \/ cstatus' \in Beyond
<1>1. \/ cstatus' = cstatus /\ (r.seen = target \/ cstatus = target)
      \/ cstatus' = target
  BY Aligns
<1>2. target \in Beyond
  BY DEF Beyond
<1>3. CASE cstatus' = target
  BY <1>2, <1>3
<1>4. CASE cstatus' = cstatus /\ (r.seen = target \/ cstatus = target)
  BY <1>2, <1>4, CancelledStays DEF RunOK
<1> QED
  BY <1>1, <1>3, <1>4

LEMMA FollowClaimedKeeps ==
  ASSUME LedgerInv, NEW w \in Workers, FollowClaimed(w)
  PROVE  Lawful /\ LedgerInv'
<1>1. PICK r \in Run \ {None} : runs[w] = r /\ RunOK(r) /\ r.job \in Keys
  BY RunFacts DEF FollowClaimed, InLifecycle, At
<1>2. r.job[1] = "lifecycle" /\ r.stage = "loaded" /\ chain.status.state = "Claimed"
  BY <1>1, ViewedStates DEF FollowClaimed, InLifecycle, At, Job
<1>3. {"again", "done"} \subseteq Stages \ {"loaded", "expire"} /\ 0 \in Nat /\ 0 <= now
  BY ChainTyped DEF Stages, LedgerInv
<1>4. CASE UNCHANGED cstatus /\ GotoForgetting(w, "again")
  BY <1>1, <1>3, <1>4, NothingReliedOn, NothingWritten DEF FollowClaimed, ledger
<1>5. CASE AlignCampaignStatus(w, "CLAIMED") /\ GotoForgetting(w, "done")
  <2>1. Lawful => AtStage(r.job, "done", "NONE")'
    BY <1>1, <1>2, <1>5, AlignedBeyond DEF AtStage, Done
  <2>2. "CLAIMED" \in Beyond /\ "CLAIMED" \in Aligned \cup {"CLAIMED"}
    BY DEF Beyond
  <2> QED
    BY <1>1, <1>2, <1>3, <1>5, <2>1, <2>2, AlignedWritten DEF FollowClaimed, GotoForgetting
<1> QED
  BY <1>4, <1>5 DEF FollowClaimed

\* The lifecycle puts the campaign to REFUNDING and hands it over.
LEMMA HandsOver ==
  ASSUME LedgerInv, NEW w \in Workers, NEW r \in Run \ {None}, runs[w] = r, RunOK(r),
         r.job \in Keys, r.job[1] = "lifecycle", r.stage \in {"loaded", "expire"},
         AlignCampaignStatus(w, "REFUNDING"), UNCHANGED <<vars, jobs, order, claims, provider>>,
         GotoKeeping(w, "hand over", r.at)
  PROVE  Lawful /\ LedgerInv'
<1>1. r.at \in Nat /\ r.at <= now
  BY DEF Run, RunOK
<1>2. Lawful => AtStage(r.job, "hand over", "NONE")'
  BY AlignedBeyond DEF AtStage, Done
<1>3. /\ "hand over" \in Stages \ {"loaded", "expire"}
      /\ "REFUNDING" \in Beyond /\ "REFUNDING" \in Aligned \cup {"CLAIMED"}
  BY DEF Stages, Beyond, Aligned
<1> QED
  BY <1>1, <1>2, <1>3, AlignedWritten

LEMMA FollowRefundingKeeps ==
  ASSUME LedgerInv, NEW w \in Workers, FollowRefunding(w)
  PROVE  Lawful /\ LedgerInv'
<1>1. PICK r \in Run \ {None} : runs[w] = r /\ RunOK(r) /\ r.job \in Keys
  BY RunFacts DEF FollowRefunding, InLifecycle, At
<1>2. r.job[1] = "lifecycle" /\ r.stage = "loaded"
  BY <1>1 DEF FollowRefunding, InLifecycle, At, Job
<1> QED
  BY <1>1, <1>2, HandsOver DEF FollowRefunding

LEMMA FollowExpiredKeeps ==
  ASSUME LedgerInv, NEW w \in Workers, FollowExpired(w)
  PROVE  Lawful /\ LedgerInv'
<1>1. PICK r \in Run \ {None} : runs[w] = r /\ RunOK(r) /\ r.job \in Keys
  BY RunFacts DEF FollowExpired, At
<1>2. r.job[1] = "lifecycle" /\ r.stage = "expire"
  BY <1>1 DEF FollowExpired, At, RunOK, AtStage
<1> QED
  BY <1>1, <1>2, HandsOver DEF FollowExpired

LEMMA FollowOpenKeeps ==
  ASSUME LedgerInv, NEW w \in Workers, FollowOpen(w)
  PROVE  Lawful /\ LedgerInv'
<1>1. PICK r \in Run \ {None} : runs[w] = r /\ RunOK(r) /\ r.job \in Keys
  BY RunFacts DEF FollowOpen, InLifecycle, At
<1>2. r.job[1] = "lifecycle" /\ r.seen # "REFUNDING"
      /\ UNCHANGED <<vars, jobs, order, claims, provider>>
  BY <1>1 DEF FollowOpen, InLifecycle, Job, Refunding
<1>3. {"CLAIMING", "SCHEDULED", "ACTIVE"} \subseteq Aligned
      /\ "again" \in Stages \ {"loaded", "expire"} /\ 0 \in Nat /\ 0 <= now
  BY ChainTyped DEF Stages, Aligned, LedgerInv
<1>4. ASSUME NEW target \in {"CLAIMING", "SCHEDULED", "ACTIVE"},
             AlignCampaignStatus(w, target), GotoForgetting(w, "again")
      PROVE  Lawful /\ LedgerInv'
  <2>1. target \in Aligned \cup {"CLAIMED"} /\ target # "CLAIMED"
    BY <1>3
  <2> QED
    BY <1>1, <1>2, <1>3, <1>4, <2>1, NothingReliedOn, AlignedWritten DEF GotoForgetting
<1>5. ASSUME AlignCampaignStatus(w, "ACTIVE"),
             IF r.seen = "ACTIVE" THEN Goto(w, "expire") ELSE GotoWith(w, "expire", "ACTIVE")
      PROVE  Lawful /\ LedgerInv'
  <2> DEFINE s == [r EXCEPT !.stage = "expire", !.seen = "ACTIVE", !.fresh = IF r.seen = "ACTIVE" THEN @ ELSE TRUE]
  <2>1. \/ cstatus' = cstatus /\ (r.seen = "ACTIVE" \/ cstatus = "ACTIVE")
        \/ cstatus \in Aligned /\ r.seen = cstatus /\ cstatus # "ACTIVE" /\ cstatus' = "ACTIVE"
    BY <1>1, <1>5, Aligns
  <2>2. cstatus' \in CampaignStatuses /\ CampaignGrows
    BY <1>2, <2>1 DEF CampaignGrows, CampaignStatuses, Beyond, Aligned, LedgerInv, LedgerTypeOK
  <2>3. Lawful
    BY <1>2, <2>2, LawfulWrite, LedgerIdle
  <2>4. /\ s \in Run /\ s.job = r.job /\ s.at = r.at /\ s.claim = r.claim /\ s.stage = "expire"
        /\ s.seen = "ACTIVE" /\ (r.seen = "ACTIVE" => s.fresh = r.fresh)
    BY DEF Run, Stages, CampaignStatuses
  <2>5. runs' = [Others(w) EXCEPT ![w] = s]
    <3>1. CASE r.seen = "ACTIVE"
      <4>1. s = [r EXCEPT !.stage = "expire"]
        BY <3>1 DEF Run
      <4>2. Others(w) \in [Workers -> Run \cup {None}] /\ Others(w)[w] = r
        BY <1>1, OthersSeen DEF LedgerInv
      <4> HIDE DEF s
      <4> QED
        BY <1>5, <3>1, <4>1, <4>2 DEF Goto
    <3>2. CASE r.seen # "ACTIVE"
      <4>1. s = [r EXCEPT !.stage = "expire", !.seen = "ACTIVE", !.fresh = TRUE]
        BY <3>2 DEF Run
      <4>2. Others(w) \in [Workers -> Run \cup {None}] /\ Others(w)[w] = r
        BY <1>1, OthersSeen DEF LedgerInv
      <4>3. r \in Run
        OBVIOUS
      <4> HIDE DEF s
      <4>4. runs' = [Others(w) EXCEPT ![w] = [r EXCEPT !.stage = "expire", !.seen = "ACTIVE", !.fresh = TRUE]]
        BY <1>5, <3>2, <4>2, <4>3 DEF GotoWith
      <4> QED
        BY <4>1, <4>4
    <3> QED
      BY <3>1, <3>2
  <2>6. s.fresh => s.seen = cstatus'
    BY <1>1, <2>1, <2>4 DEF RunOK
  <2>7. AtStage(r.job, "expire", r.claim)'
    BY <1>2 DEF AtStage
  <2>8. RunsTyped' /\ RunsInv'
    <3>1. s.seen \notin Beyond
      BY <2>4 DEF Beyond
    <3> HIDE DEF s
    <3> QED
      BY <1>1, <2>3, <2>4, <2>5, <2>6, <2>7, <3>1, GoesOnSafely
  <2>9. CampaignTyped' /\ ClaimsTyped' /\ ProviderTyped' /\ permits' = permits
    BY <1>2, <2>2, Typed DEF LedgerInv, CampaignTyped, ClaimsTyped, ProviderTyped, vars
  <2>10. CampaignOK'
    BY <1>2, <2>1, <2>3, CampaignMoves
  <2>11. JobsTyped' /\ JobsInv'
    BY <1>2, <2>3, JobsUnmoved
  <2> QED
    BY <1>2, <2>3, <2>8, <2>9, <2>10, <2>11, Assembled
<1> QED
  BY <1>1, <1>4, <1>5 DEF FollowOpen

LEMMA EnqueueRefundKeeps ==
  ASSUME LedgerInv, NEW w \in Workers, EnqueueRefund(w)
  PROVE  Lawful /\ LedgerInv'
<1>1. PICK r \in Run \ {None} : runs[w] = r /\ RunOK(r) /\ r.job \in Keys
  BY RunFacts DEF EnqueueRefund, At
<1>2. Done(r.job)
  BY <1>1 DEF EnqueueRefund, At, RunOK, AtStage
<1>3. PICK k \in Keys : k[1] = "refund" /\ jobs' = Enqueued(k, FALSE)
  BY KeyFacts DEF EnqueueRefund, Reasons
<1>4. Started(k)
  BY <1>3 DEF Started
<1> QED
  BY <1>1, <1>2, <1>3, <1>4, DoneStays, JobWritten DEF EnqueueRefund

LEMMA AwaitRefundKeeps ==
  ASSUME LedgerInv, NEW w \in Workers, AwaitRefund(w)
  PROVE  Lawful /\ LedgerInv'
<1>1. PICK r \in Run \ {None} : runs[w] = r
  BY RunFacts DEF AwaitRefund, InRefund, At
<1>2. "again" \in Stages \ {"loaded", "expire"}
  BY DEF Stages
<1> QED
  BY <1>1, <1>2, NothingReliedOn, NothingWritten DEF AwaitRefund

LEMMA ConcedeRefundKeeps ==
  ASSUME LedgerInv, NEW w \in Workers, ConcedeRefund(w)
  PROVE  Lawful /\ LedgerInv'
<1>1. PICK r \in Run \ {None} : runs[w] = r
  BY RunFacts DEF ConcedeRefund, InRefund, At
<1>2. r.job[1] = "refund" /\ chain.status.state = "Claimed"
  BY <1>1, ViewedStates DEF ConcedeRefund, InRefund, Job
<1>3. AtStage(r.job, "done", "NONE")'
  BY <1>2 DEF AtStage, Done
<1>4. "done" \in Stages \ {"loaded", "expire"} /\ "CLAIMED" \in Beyond /\ 0 \in Nat /\ 0 <= now
  BY ChainTyped DEF Stages, Beyond, LedgerInv
<1> QED
  BY <1>1, <1>2, <1>3, <1>4, AlignedWritten DEF ConcedeRefund, GotoForgetting

LEMMA MissCancellationKeeps ==
  ASSUME LedgerInv, NEW w \in Workers, MissCancellation(w)
  PROVE  Lawful /\ LedgerInv'
<1>1. PICK r \in Run \ {None} : runs[w] = r /\ r.job \in Keys /\ jobs[r.job].status # "NONE"
  BY RunFacts DEF MissCancellation, InRefund, At
<1>2. r.job[1] = "refund" /\ r.job[2] = "CREATOR_CANCEL"
  BY <1>1 DEF MissCancellation, InRefund, Job, Reason
<1>3. r.job = RefundKey("CREATOR_CANCEL")
  BY <1>1, <1>2, KeysAssumption DEF ClaimKey, PayoutKey, RefundKey, LifecycleKey
<1>4. Cancelled
  BY <1>1, <1>3 DEF Cancelled
<1>5. AtStage(r.job, "restart", "NONE")'
  BY <1>2 DEF AtStage
<1>6. "restart" \in Stages \ {"loaded", "expire"} /\ "ACTIVE" \in Aligned /\ 0 \in Nat /\ 0 <= now
  BY ChainTyped DEF Stages, Aligned, LedgerInv
<1> QED
  BY <1>1, <1>4, <1>5, <1>6, AlignedWritten DEF MissCancellation, GotoForgetting

LEMMA RestartLifecycleKeeps ==
  ASSUME LedgerInv, NEW w \in Workers, RestartLifecycle(w)
  PROVE  Lawful /\ LedgerInv'
<1>1. PICK r \in Run \ {None} : runs[w] = r /\ RunOK(r)
  BY RunFacts DEF RestartLifecycle, At
<1>2. r.job[1] = "refund"
  BY <1>1 DEF RestartLifecycle, At, RunOK, AtStage
<1>3. Done(r.job)' /\ LifecycleKey \in Keys /\ Started(LifecycleKey)
  BY <1>2, KeyFacts DEF Done, Started
<1> QED
  BY <1>1, <1>3, JobWritten DEF RestartLifecycle

LEMMA VerifyRefundingKeeps ==
  ASSUME LedgerInv, NEW w \in Workers, VerifyRefunding(w)
  PROVE  Lawful /\ LedgerInv'
<1>1. PICK r \in Run \ {None} : runs[w] = r
  BY RunFacts DEF VerifyRefunding, At
<1>2. /\ "again" \in Stages \ {"loaded", "expire"} /\ 0 \in Nat /\ 0 <= now
      /\ "REFUNDING" \in Beyond /\ "REFUNDING" \in Aligned
  BY ChainTyped DEF Stages, Beyond, Aligned, LedgerInv
<1> QED
  BY <1>1, <1>2, NothingReliedOn, AlignedWritten DEF VerifyRefunding, GotoForgetting

-----------------------------------------------------------------------------
(* Steps of the chain: the workers' transactions, and everybody's.           *)

\* A step of the escrow, and of no row.
LEMMA ChainStepKeeps ==
  ASSUME LedgerInv, EscrowStep, UNCHANGED <<jobs, ledger, provider>>, permits' = permits,
         Lawful => RunsTyped' /\ RunsInv'
  PROVE  Lawful /\ LedgerInv'
<1>1. cstatus' = cstatus /\ order' = order /\ claims' = claims /\ jobs' = jobs /\ provider' = provider
  BY DEF ledger
<1>2. Lawful
  BY <1>1, EscrowMoves, LedgerIdle DEF LedgerInv, Lawful, Grows
<1>3. JobsTyped' /\ JobsInv'
  BY <1>1, <1>2, JobsUnmoved
<1>4. CampaignTyped' /\ ClaimsTyped' /\ ProviderTyped'
  BY <1>1, Typed DEF LedgerInv, CampaignTyped, ClaimsTyped, ProviderTyped
<1>5. CampaignOK'
  BY <1>1, <1>2, CampaignMoves
<1> QED
  BY <1>1, <1>2, <1>3, <1>4, <1>5, Assembled

\* A worker's transaction: it goes on to verify it.
LEMMA TransactionKeeps ==
  ASSUME LedgerInv, NEW w \in Workers, NEW r \in Run \ {None}, runs[w] = r, RunOK(r),
         EscrowStep, UNCHANGED <<jobs, ledger, provider>>, permits' = permits, Goto(w, "verify")
  PROVE  Lawful /\ LedgerInv'
<1> DEFINE s == [r EXCEPT !.stage = "verify"]
<1>1. /\ s \in Run /\ s.job = r.job /\ s.at = r.at /\ s.claim = r.claim /\ s.stage = "verify"
      /\ s.seen = r.seen /\ s.fresh = r.fresh
  BY DEF Run, Stages
<1>2. runs' = [Others(w) EXCEPT ![w] = s]
  BY OthersSeen DEF Goto, LedgerInv
<1>3. s.fresh => s.seen = cstatus'
  BY <1>1 DEF RunOK, ledger
<1>4. AtStage(r.job, s.stage, r.claim)'
  BY <1>1 DEF AtStage
<1> HIDE DEF s
<1>5. Lawful => RunsTyped' /\ RunsInv'
  BY <1>1, <1>2, <1>3, <1>4, GoesOnSafely
<1> QED
  BY <1>5, ChainStepKeeps

LEMMA SubmitContractClaimKeeps ==
  ASSUME LedgerInv, NEW w \in Workers, SubmitContractClaim(w)
  PROVE  Lawful /\ LedgerInv'
<1>1. PICK r \in Run \ {None} : runs[w] = r /\ RunOK(r)
  BY RunFacts DEF SubmitContractClaim, At
<1>2. EscrowStep /\ permits' = permits
  BY DEF SubmitContractClaim, Claim, EscrowStep
<1> QED
  BY <1>1, <1>2, TransactionKeeps DEF SubmitContractClaim

LEMMA SubmitRefundKeeps ==
  ASSUME LedgerInv, NEW w \in Workers, SubmitRefund(w)
  PROVE  Lawful /\ LedgerInv'
<1>1. PICK r \in Run \ {None} : runs[w] = r /\ RunOK(r)
  BY RunFacts DEF SubmitRefund, InRefund, At
<1>2. RetryRefund(Id) \/ CancelBeforeOpen(Operator, Id) \/ ExpireAndRefund(Id)
  BY DEF SubmitRefund
<1>3. EscrowStep /\ permits' = permits
  BY <1>2 DEF EscrowStep, Callers, RetryRefund, CancelBeforeOpen, ExpireAndRefund, StartRefund
<1> QED
  BY <1>1, <1>3, TransactionKeeps DEF SubmitRefund

LEMMA ChainMovesKeep ==
  ASSUME LedgerInv, ChainMoves
  PROVE  Lawful /\ LedgerInv'
<1>1. chain.spec.creator \in Callers
  BY ChainTyped DEF LedgerInv, Spec0, Callers
<1>2. EscrowStep
  BY <1>1 DEF ChainMoves, EscrowStep
<1>3. permits' = permits
  BY DEF ChainMoves, Tick, Claim, CancelBeforeOpen, ExpireAndRefund, StartRefund, RetryRefund,
     FtTransferOk, FtTransferFail, OnClaimTransfer, OnRefundTransfer
<1>4. UNCHANGED <<jobs, ledger, runs, provider>>
  BY DEF ChainMoves
<1>5. Lawful => RunsTyped' /\ RunsInv'
  <2> SUFFICES ASSUME Lawful PROVE RunsTyped' /\ RunsInv'
    OBVIOUS
  <2>1. OthersKept(NoWorker) /\ NoWorker \notin Workers
    BY <1>4, AllKept, QueueAssumption DEF LedgerInv, ledger
  <2> QED
    BY <2>1, RunsKept DEF OthersKept, RunsTyped
<1> QED
  BY <1>2, <1>3, <1>4, <1>5, ChainStepKeeps

-----------------------------------------------------------------------------
(* Steps of One Click and of the services.                                  *)

LEMMA ProviderMovesKeep ==
  ASSUME LedgerInv, NEW cl \in OneClick, ProviderMoves(cl)
  PROVE  Lawful /\ LedgerInv'
<1>1. UNCHANGED <<vars, jobs, ledger, runs>> /\ permits' = permits
  BY DEF ProviderMoves, vars
<1>2. cstatus' = cstatus /\ order' = order /\ claims' = claims /\ jobs' = jobs /\ runs' = runs
  BY <1>1 DEF ledger
<1>3. ProviderTyped' /\ ProviderGrows
  BY Typed DEF LedgerInv, ProviderTyped, ProviderMoves, ProviderGrows
<1>4. EscrowInv' /\ EscrowGrows
  BY <1>1, EscrowIdle DEF LedgerInv
<1>5. Lawful
  BY <1>2, <1>3, <1>4, LedgerIdle DEF Lawful, Grows
<1>6. RunsTyped' /\ RunsInv'
  <2>1. OthersKept(NoWorker) /\ NoWorker \notin Workers
    BY <1>2, AllKept, QueueAssumption DEF LedgerInv
  <2> QED
    BY <1>5, <2>1, RunsKept DEF OthersKept, RunsTyped
<1>7. CampaignTyped' /\ ClaimsTyped'
  BY <1>2, Typed DEF LedgerInv, CampaignTyped, ClaimsTyped
<1>8. JobsTyped' /\ JobsInv' /\ CampaignOK'
  BY <1>2, <1>5, JobsUnmoved, CampaignMoves
<1> QED
  BY <1>1, <1>2, <1>3, <1>5, <1>6, <1>7, <1>8, Assembled

\* Nobody's run moves, and no row.
LEMMA RunsUnmoved ==
  ASSUME Lawful, runs' = Others(NoWorker) \/ (runs' = runs /\ cstatus' = cstatus)
  PROVE  RunsTyped' /\ RunsInv'
<1>1. OthersKept(NoWorker) /\ NoWorker \notin Workers
  BY AllKept, QueueAssumption DEF Lawful, LedgerInv
<1> QED
  BY <1>1, RunsKept DEF OthersKept, RunsTyped

LEMMA EnqueueRequestedKeeps ==
  ASSUME LedgerInv, NEW k \in Keys, EnqueueRequested(k)
  PROVE  Lawful /\ LedgerInv'
<1>1. /\ UNCHANGED <<vars, provider>> /\ permits' = permits /\ jobs' = Enqueued(k, TRUE)
      /\ cstatus' = cstatus /\ order' = order /\ claims' = claims /\ runs' = runs /\ provider' = provider
  BY DEF EnqueueRequested, ledger, vars
<1>2. Started(k)
  BY DEF EnqueueRequested, Started
<1>3. /\ JobsTyped' /\ JobsGrow
      /\ \A j \in Keys : /\ j # k => jobs'[j] = jobs[j]
                         /\ jobs'[j].status = "SUCCEEDED" => jobs[j].status = "SUCCEEDED"
  BY <1>1, Typed, JobEnqueued DEF LedgerInv
<1>4. Lawful
  BY <1>1, <1>3, LawfulWrite, LedgerIdle
<1>5. JobsInv'
  <2>1. Started(k)'
    BY <1>2, <1>4, StartedStays
  <2> QED
    BY <1>3, <1>4, <2>1, JobsMove
<1>6. CampaignTyped' /\ ClaimsTyped' /\ ProviderTyped' /\ CampaignOK'
  BY <1>1, <1>4, Typed, CampaignMoves DEF LedgerInv, CampaignTyped, ClaimsTyped, ProviderTyped
<1>7. RunsTyped' /\ RunsInv'
  BY <1>1, <1>4, RunsUnmoved
<1> QED
  BY <1>1, <1>3, <1>4, <1>5, <1>6, <1>7, Assembled

LEMMA RequestCampaignRefundKeeps ==
  ASSUME LedgerInv, NEW reason, RequestCampaignRefund(reason)
  PROVE  Lawful /\ LedgerInv'
<1>1. /\ UNCHANGED <<vars, provider>> /\ permits' = permits /\ runs' = Others(NoWorker)
      /\ jobs' = jobs /\ order' = order /\ claims' = claims /\ provider' = provider
      /\ cstatus \in {"SCHEDULED", "ACTIVE"} /\ cstatus' = "REFUNDING"
  BY DEF RequestCampaignRefund, vars
<1>2. CampaignGrows
  BY <1>1 DEF CampaignGrows, Beyond
<1>3. Lawful
  BY <1>1, <1>2, LawfulWrite, LedgerIdle
<1>4. JobsTyped' /\ JobsInv' /\ CampaignOK'
  BY <1>1, <1>3, JobsUnmoved, CampaignMoves
<1>5. CampaignTyped' /\ ClaimsTyped' /\ ProviderTyped'
  BY <1>1, Typed DEF LedgerInv, CampaignTyped, ClaimsTyped, ProviderTyped, CampaignStatuses
<1>6. RunsTyped' /\ RunsInv'
  BY <1>1, <1>3, RunsUnmoved
<1> QED
  BY <1>1, <1>3, <1>4, <1>5, <1>6, Assembled

LEMMA SubmitClaimKeeps ==
  ASSUME LedgerInv, NEW cl \in Claims, SubmitClaim(cl)
  PROVE  Lawful /\ LedgerInv'
<1>1. /\ UNCHANGED <<vars, provider>> /\ permits' = permits /\ runs' = Others(NoWorker)
      /\ jobs' = jobs /\ order' = order /\ provider' = provider
      /\ cstatus = "ACTIVE" /\ cstatus' = "CLAIMING"
      /\ claims[cl].status = "AWAITING_PROOF" /\ SetClaim(cl, "SUBMITTED")
  BY DEF SubmitClaim, vars
<1>2. CampaignGrows
  BY <1>1 DEF CampaignGrows, Beyond
<1>3. /\ ClaimsTyped' /\ ClaimsGrow
      /\ claims'[cl].status = "SUBMITTED"
      /\ \A c \in Claims : c # cl => claims'[c].status = claims[c].status
  <2>1. "SUBMITTED" \in ClaimStatuses /\ ClaimsTyped
    BY Typed DEF ClaimStatuses, LedgerInv
  <2> QED
    BY <1>1, <2>1, ClaimSet DEF Ended, Settled
<1>4. Lawful
  BY <1>1, <1>2, <1>3, LawfulWrite, LedgerIdle
<1>5. JobsTyped' /\ JobsInv' /\ CampaignOK'
  BY <1>1, <1>4, JobsUnmoved, CampaignMoves
<1>6. CampaignTyped' /\ ProviderTyped'
  BY <1>1, Typed DEF LedgerInv, CampaignTyped, ProviderTyped, CampaignStatuses
<1>7. RunsTyped' /\ RunsInv'
  BY <1>1, <1>4, RunsUnmoved
<1>8. ClaimOK(cl)'
  BY <1>3 DEF ClaimOK, Settled
<1> QED
  BY <1>1, <1>3, <1>4, <1>5, <1>6, <1>7, <1>8, Assembled

\* A quote: the solver's permit is the claim's.
LEMMA CreateClaimQuoteKeeps ==
  ASSUME LedgerInv, NEW cl \in Claims, NEW deadline \in Deadlines, CreateClaimQuote(cl, deadline)
  PROVE  Lawful /\ LedgerInv'
<1> DEFINE row == [status |-> "AWAITING_PROOF", nonce |-> chain.claimNonce, deadline |-> deadline]
           permit == [id |-> Id, receiver |-> Receiver[cl], nonce |-> chain.claimNonce, deadline |-> deadline]
<1>1. /\ claims[cl].status = "NONE" /\ claims' = [claims EXCEPT ![cl] = row]
      /\ permits' = permits \cup {permit} /\ UNCHANGED <<now, escrow, token>>
      /\ jobs' = jobs /\ cstatus' = cstatus /\ order' = order /\ runs' = runs /\ provider' = provider
  BY DEF CreateClaimQuote, SignPermit
<1>2. chain.claimNonce \in Nat /\ deadline \in Nat /\ now \in Nat
  BY ChainTyped, SpecsAssumption DEF LedgerInv
<1>3. row \in ClaimRow /\ permit \in Permit
  BY <1>2, LedgerAssumption DEF ClaimRow, ClaimStatuses, Permit
<1>4. /\ claims'[cl] = row /\ PermitOf(cl)' = permit
      /\ \A c \in Claims : c # cl => claims'[c] = claims[c] /\ PermitOf(c)' = PermitOf(c)
  BY <1>1 DEF LedgerInv, LedgerTypeOK, PermitOf
<1>5. EscrowInv' /\ EscrowGrows
  <2>1. /\ UNCHANGED <<campaigns, payouts, disbursed, authorizations, pending>> /\ now <= now'
        /\ permits \subseteq permits' /\ \A p \in permits' \ permits : p.id = Id
    BY <1>1, <1>2 DEF escrow, token
  <2>2. TypeOK'
    BY <1>1, <1>3 DEF LedgerInv, EscrowInv, TypeOK, escrow, token
  <2>3. PayoutInv'
    BY <2>1, PayoutInvUnchanged DEF LedgerInv, EscrowInv
  <2>4. ReceiversRight'
    BY <2>1 DEF LedgerInv, EscrowInv, ReceiversRight, RightReceiver
  <2> QED
    BY <2>1, <2>2, <2>3, <2>4, EscrowQuiet DEF LedgerInv
<1>6. PermitsInv'
  <2>1. ASSUME NEW p \in permits'
        PROVE  \E c \in Claims : claims'[c].status # "NONE" /\ p = PermitOf(c)'
    <3>1. CASE p = permit
      BY <1>4, <3>1
    <3>2. CASE p \in permits
      <4>1. PICK c \in Claims : claims[c].status # "NONE" /\ p = PermitOf(c)
        BY <3>2 DEF LedgerInv, PermitsInv
      <4> QED
        BY <1>1, <1>4, <4>1
    <3> QED
      BY <1>1, <3>1, <3>2
  <2> QED
    BY <2>1 DEF PermitsInv
<1>7. ClaimsTyped' /\ ClaimsGrow
  <2>1. ClaimsTyped'
    BY <1>1, <1>3, Typed DEF LedgerInv, ClaimsTyped
  <2> QED
    BY <1>1, <1>4, <2>1 DEF ClaimsGrow, Ended, Settled
<1>8. Lawful
  BY <1>1, <1>5, <1>7, LedgerIdle DEF Lawful, Grows
<1>9. \A c \in Claims : ClaimOK(c)'
  <2>1. ClaimOK(cl)'
    BY <1>4 DEF ClaimOK, Settled
  <2> QED
    BY <1>4, <1>8, <2>1, ClaimStaysOK
<1>10. JobsTyped' /\ JobsInv' /\ CampaignOK'
  BY <1>1, <1>8, JobsUnmoved, CampaignMoves
<1>11. RunsTyped' /\ RunsInv'
  BY <1>1, <1>8, RunsUnmoved
<1>12. LedgerTypeOK'
  BY <1>1, <1>5, <1>7, <1>10, <1>11
     DEF LedgerInv, LedgerTypeOK, EscrowInv, JobsTyped, ClaimsTyped, RunsTyped
<1> QED
  BY <1>5, <1>6, <1>8, <1>9, <1>10, <1>11, <1>12 DEF LedgerInv

-----------------------------------------------------------------------------
(* Workers come and go.                                                     *)

\* A worker takes its run up, or drops it; no row has changed.
LEMMA RunReplaced ==
  ASSUME LedgerTypeOK, NEW w \in Workers, NEW s \in Run \cup {None},
         runs' = [runs EXCEPT ![w] = s], cstatus' = cstatus
  PROVE  OthersKept(w) /\ runs'[w] = s
<1>1. runs' \in [Workers -> Run \cup {None}] /\ runs'[w] = s
  BY DEF LedgerTypeOK
<1>2. \A v \in Workers \ {w} : runs'[v] = runs[v]
  BY DEF LedgerTypeOK
<1> QED
  BY <1>1, <1>2 DEF OthersKept

\* Such a step is safe if the job it writes, and the run it starts, are.
LEMMA TakenUp ==
  ASSUME LedgerInv, UNCHANGED <<vars, ledger, provider>>, JobsTyped', JobsGrow,
         NEW w \in Workers, NEW s \in Run \cup {None}, runs' = [runs EXCEPT ![w] = s],
         Lawful => JobsInv' /\ (s # None => RunOK(s)')
  PROVE  Lawful /\ LedgerInv'
<1>1. cstatus' = cstatus /\ order' = order /\ claims' = claims /\ provider' = provider /\ permits' = permits
  BY DEF ledger, vars
<1>2. Lawful
  BY <1>1, LawfulWrite, LedgerIdle
<1>3. RunsTyped' /\ RunsInv'
  <2>1. OthersKept(w) /\ runs'[w] = s
    BY <1>1, RunReplaced DEF LedgerInv
  <2> QED
    BY <1>2, <2>1, RunsKept DEF OthersKept, RunsTyped
<1>4. CampaignTyped' /\ ClaimsTyped' /\ ProviderTyped' /\ CampaignOK'
  BY <1>1, <1>2, Typed, CampaignMoves DEF LedgerInv, CampaignTyped, ClaimsTyped, ProviderTyped
<1> QED
  BY <1>1, <1>2, <1>3, <1>4, Assembled

LEMMA LeaseJobKeeps ==
  ASSUME LedgerInv, NEW w \in Workers, NEW k \in Keys, LeaseJob(w, k)
  PROVE  Lawful /\ LedgerInv'
<1>1. now \in Nat
  BY ChainTyped DEF LedgerInv
<1>2. PICK s \in Run : s = Fresh(k, now, "leased")
  BY <1>1 DEF Run, Fresh, Stages, ClaimStatuses
<1>3. /\ JobsTyped' /\ JobsGrow
      /\ \A j \in Keys : j # k => jobs'[j] = jobs[j]
      /\ jobs[k].status # "NONE" /\ jobs'[k].status = "RUNNING"
  BY Typed, JobLeased DEF LeaseJob, LedgerInv
<1>4. Lawful => JobsInv'
  BY <1>3, JobsMove
<1>5. RunOK(s)'
  <2>1. s.job = k /\ s.at = now /\ s.stage = "leased" /\ s.fresh = FALSE /\ s.claim = "NONE"
    BY <1>2 DEF Fresh
  <2>2. AtStage(k, "leased", "NONE")'
    BY NothingReliedOn
  <2>3. now' = now
    BY DEF LeaseJob, vars
  <2> QED
    BY <1>1, <1>3, <2>1, <2>2, <2>3 DEF RunOK
<1>6. UNCHANGED <<vars, ledger, provider>> /\ runs' = [runs EXCEPT ![w] = s]
  BY <1>2 DEF LeaseJob
<1> QED
  BY <1>2, <1>3, <1>4, <1>5, <1>6, TakenUp

LEMMA LoadKeeps ==
  ASSUME LedgerInv, NEW w \in Workers, Load(w)
  PROVE  Lawful /\ LedgerInv'
<1>1. PICK r \in Run \ {None} : runs[w] = r /\ RunOK(r) /\ r.job \in Keys
  BY RunFacts DEF Load, At
<1>2. PICK status : status = IF r.job[1] \in {"claim", "payout"} THEN claims[r.job[2]].status ELSE "NONE"
  OBVIOUS
<1>3. status \in ClaimStatuses /\ (r.job[1] = "payout" => claims[r.job[2]].status = status)
  BY <1>2, <1>1, KindsOfKeys DEF LedgerInv, LedgerTypeOK, ClaimRow, ClaimStatuses
<1>4. PICK s \in Run :
         /\ s = [r EXCEPT !.stage = "loaded", !.seen = cstatus, !.fresh = TRUE, !.claim = status]
         /\ s.job = r.job /\ s.at = r.at /\ s.stage = "loaded" /\ s.seen = cstatus
         /\ s.fresh = TRUE /\ s.claim = status
  <2>1. cstatus \in CampaignStatuses
    BY DEF LedgerInv, LedgerTypeOK
  <2> DEFINE s == [r EXCEPT !.stage = "loaded", !.seen = cstatus, !.fresh = TRUE, !.claim = status]
  <2>2. /\ s \in Run /\ s.job = r.job /\ s.at = r.at /\ s.stage = "loaded" /\ s.seen = cstatus
        /\ s.fresh = TRUE /\ s.claim = status
    BY <1>3, <2>1 DEF Run, Stages
  <2> QED
    BY <2>2
<1>5. /\ UNCHANGED <<vars, jobs, ledger, provider>>
      /\ runs' = [runs EXCEPT ![w] = s]
  <2>1. runs \in [Workers -> Run \cup {None}]
    BY DEF LedgerInv, LedgerTypeOK
  <2> QED
    BY <1>2, <1>1, <1>4, <2>1 DEF Load, ClaimOf
<1>6. jobs' = jobs /\ cstatus' = cstatus /\ claims' = claims /\ now' = now
  BY <1>5 DEF ledger, vars
<1>7. RunOK(s)'
  <2>1. AtStage(r.job, "loaded", status)'
    BY <1>3, <1>6 DEF AtStage
  <2> QED
    BY <1>1, <1>4, <1>6, <2>1 DEF RunOK
<1>8. JobsTyped' /\ JobsGrow /\ (Lawful => JobsInv')
  BY <1>6, Typed, JobsUnmoved, LedgerIdle DEF LedgerInv, JobsTyped
<1> QED
  BY <1>5, <1>4, <1>7, <1>8, TakenUp

\* The run ends, and writes its job, if it still owns it.
LEMMA RunEnds ==
  ASSUME LedgerInv, NEW w \in Workers, NEW r \in Run \ {None}, runs[w] = r, r.job \in Keys,
         UNCHANGED <<vars, ledger, provider>>, runs' = [runs EXCEPT ![w] = None],
         jobs' \in {Completed(r.job, w), Rescheduled(r.job, w), Failed(r.job, w)},
         Lawful /\ jobs' = Completed(r.job, w) => jobs' = jobs \/ Done(r.job)'
  PROVE  Lawful /\ LedgerInv'
<1>1. /\ JobsTyped' /\ JobsGrow
      /\ \A j \in Keys : jobs'[j].status # "NONE" => jobs[j].status # "NONE"
      /\ \A j \in Keys : jobs'[j].status = "SUCCEEDED" =>
            jobs[j].status = "SUCCEEDED" \/ (j = r.job /\ jobs' = Completed(r.job, w))
  BY Typed, JobReturned DEF LedgerInv
<1>2. Lawful => JobsInv'
  BY <1>1, JobsMove
<1> QED
  BY <1>1, <1>2, TakenUp

LEMMA FinishKeeps ==
  ASSUME LedgerInv, NEW w \in Workers, Finish(w)
  PROVE  Lawful /\ LedgerInv'
<1>1. PICK r \in Run \ {None} : runs[w] = r /\ RunOK(r) /\ r.job \in Keys
  BY RunFacts DEF Finish, At
<1>2. /\ UNCHANGED <<vars, ledger, provider>> /\ runs' = [runs EXCEPT ![w] = None]
      /\ jobs' = IF r.stage = "done" THEN Completed(r.job, w) ELSE Rescheduled(r.job, w)
  BY <1>1 DEF Finish
<1>3. CASE r.stage = "done"
  <2>1. Done(r.job)
    BY <1>1, <1>3 DEF RunOK, AtStage
  <2> QED
    BY <1>1, <1>2, <1>3, <2>1, DoneStays, RunEnds
<1>4. CASE r.stage # "done"
  <2>1. jobs' = Rescheduled(r.job, w)
    BY <1>2, <1>4
  <2>2. jobs' = Completed(r.job, w) => jobs' = jobs
    <3>1. Row("SUCCEEDED", 0).status # Row("PENDING", 0).status
      BY DEF Row
    <3>2. jobs \in [Keys -> JobRow]
      BY DEF LedgerInv, LedgerTypeOK
    <3> QED
      BY <1>1, <2>1, <3>1, <3>2 DEF Rescheduled, Completed
  <2> QED
    BY <1>1, <1>2, <2>1, <2>2, RunEnds
<1> QED
  BY <1>3, <1>4

LEMMA ThrowKeeps ==
  ASSUME LedgerInv, NEW w \in Workers, Throw(w)
  PROVE  Lawful /\ LedgerInv'
<1>1. PICK r \in Run \ {None} : runs[w] = r /\ r.job \in Keys
  BY RunFacts DEF Throw
<1>2. /\ UNCHANGED <<vars, ledger, provider>> /\ runs' = [runs EXCEPT ![w] = None]
      /\ jobs' = Failed(r.job, w)
  BY <1>1 DEF Throw
<1>3. jobs' = Completed(r.job, w) => jobs' = jobs
  <2>1. \A attempts : Row("SUCCEEDED", 0).status # Row("PENDING", attempts).status
                      /\ Row("SUCCEEDED", 0).status # Row("DEAD", 0).status
    BY DEF Row
  <2>2. jobs \in [Keys -> JobRow]
    BY DEF LedgerInv, LedgerTypeOK
  <2>3. CASE Owns(w, r.job)
    <3>1. PICK row : jobs' = [jobs EXCEPT ![r.job] = row] /\ row.status # Row("SUCCEEDED", 0).status
      <4> DEFINE row == IF jobs[r.job].attempts >= MaxAttempts THEN Row("DEAD", 0)
                        ELSE Row("PENDING", jobs[r.job].attempts)
      <4>1. jobs' = [jobs EXCEPT ![r.job] = row]
        BY <1>2, <2>3 DEF Failed
      <4>2. row.status # Row("SUCCEEDED", 0).status
        BY <2>1
      <4> QED
        BY <4>1, <4>2
    <3>2. jobs'[r.job].status # Row("SUCCEEDED", 0).status
      BY <1>1, <2>2, <3>1
    <3>3. Completed(r.job, w)[r.job] = Row("SUCCEEDED", 0)
      BY <1>1, <2>2, <2>3 DEF Completed
    <3> QED
      BY <3>2, <3>3
  <2>4. CASE ~Owns(w, r.job)
    BY <1>2, <2>4 DEF Failed
  <2> QED
    BY <2>3, <2>4
<1> QED
  BY <1>1, <1>2, <1>3, RunEnds

LEMMA DieKeeps ==
  ASSUME LedgerInv, NEW w \in Workers, Die(w)
  PROVE  Lawful /\ LedgerInv'
<1>1. UNCHANGED <<vars, jobs, ledger, provider>> /\ runs' = [runs EXCEPT ![w] = None]
  BY DEF Die
<1>2. JobsTyped' /\ JobsGrow /\ (Lawful => JobsInv')
  BY <1>1, Typed, JobsUnmoved, LedgerIdle DEF LedgerInv, JobsTyped
<1> QED
  BY <1>1, <1>2, TakenUp

-----------------------------------------------------------------------------
(* Every step, and the theorems.                                            *)

LEMMA WorkerKeeps ==
  ASSUME LedgerInv, NEW w \in Workers, Worker(w)
  PROVE  Lawful /\ LedgerInv'
<1>1. CASE ProcessClaim(w)
  BY <1>1, StartPayingKeeps, SubmitContractClaimKeeps, TransitionClaimSuccessKeeps, CloseClaimedKeeps,
     EnqueuePayoutKeeps, LoseRaceKeeps, FindConsumedKeeps, RecoverConsumedKeeps, ReleaseCampaignKeeps
     DEF ProcessClaim
<1>2. CASE ProcessPayout(w)
  BY <1>2, SettleOneClickPayoutKeeps, ObserveOneClickPayoutKeeps DEF ProcessPayout
<1>3. CASE ProcessLifecycle(w)
  BY <1>3, FollowClaimedKeeps, FollowRefundingKeeps, FollowOpenKeeps, FollowExpiredKeeps,
     EnqueueRefundKeeps DEF ProcessLifecycle
<1>4. CASE ProcessRefund(w)
  BY <1>4, SubmitRefundKeeps, AwaitRefundKeeps, ConcedeRefundKeeps, MissCancellationKeeps,
     RestartLifecycleKeeps, VerifyRefundingKeeps DEF ProcessRefund
<1>5. CASE FinalizeRefund(w) \/ CloseOrder(w)
  BY <1>5, FinalizeRefundKeeps, CloseOrderKeeps
<1>6. CASE (\E k \in Keys : LeaseJob(w, k)) \/ Load(w) \/ Finish(w) \/ Throw(w) \/ Die(w)
  BY <1>6, LeaseJobKeeps, LoadKeeps, FinishKeeps, ThrowKeeps, DieKeeps
<1> QED
  BY <1>1, <1>2, <1>3, <1>4, <1>5, <1>6 DEF Worker

LEMMA LedgerNextKeeps ==
  ASSUME LedgerInv, [LedgerNext]_ledgerVars
  PROVE  Lawful /\ LedgerInv'
<1>1. CASE UNCHANGED ledgerVars
  <2>1. /\ UNCHANGED <<vars, provider>> /\ permits' = permits /\ jobs' = jobs /\ runs' = runs
        /\ cstatus' = cstatus /\ order' = order /\ claims' = claims /\ provider' = provider
    BY <1>1 DEF ledgerVars, ledger, vars
  <2>2. Lawful
    BY <2>1, LawfulWrite, LedgerIdle
  <2>3. JobsTyped' /\ JobsInv' /\ CampaignOK' /\ RunsTyped' /\ RunsInv'
    BY <2>1, <2>2, JobsUnmoved, CampaignMoves, RunsUnmoved
  <2>4. CampaignTyped' /\ ClaimsTyped' /\ ProviderTyped'
    BY <2>1, Typed DEF LedgerInv, CampaignTyped, ClaimsTyped, ProviderTyped
  <2> QED
    BY <2>1, <2>2, <2>3, <2>4, Assembled
<1>2. CASE ChainMoves
  BY <1>2, ChainMovesKeep
<1>3. CASE Services
  BY <1>3, CreateClaimQuoteKeeps, SubmitClaimKeeps, RequestCampaignRefundKeeps, EnqueueRequestedKeeps
     DEF Services
<1>4. CASE \E cl \in OneClick : ProviderMoves(cl)
  BY <1>4, ProviderMovesKeep
<1>5. CASE \E w \in Workers : Worker(w)
  BY <1>5, WorkerKeeps
<1> QED
  BY <1>1, <1>2, <1>3, <1>4, <1>5 DEF LedgerNext

LEMMA LedgerInvariant == LedgerSpec => []LedgerInv
<1>1. LedgerInv /\ [LedgerNext]_ledgerVars => LedgerInv'
  BY LedgerNextKeeps
<1> QED
  BY <1>1, LedgerInitInv, PTL DEF LedgerSpec

\* The ledger never says more than the escrow did (services.ts, worker.ts): a paid claim
\* got the prize by its own permit, a failed one never will, the campaign and the order are
\* closed only as the chain closed them, and no open claim is left without the job that
\* carries it on, however workers overtake each other, die, or are retried.
THEOREM LedgerIsSafe == LedgerSpec => []LedgerSafe
<1>1. LedgerInv => LedgerSafe
  BY LedgerInvSafe
<1> QED
  BY <1>1, LedgerInvariant, PTL

\* What the ledger has settled stays (transitionCampaign and transitionClaim of worker.ts,
\* finalizeOneClickPayoutAtomically): no run, with whatever it has loaded, reopens a claimed or
\* refunded campaign, or takes a settled claim back.
THEOREM SettledForGood == LedgerSpec => SettledStays
<1>1. LedgerInv /\ [LedgerNext]_ledgerVars =>
        /\ cstatus \in {"CLAIMED", "REFUNDED"} => cstatus' = cstatus
        /\ \A cl \in Claims :
              claims[cl].status \in {"PAID", "RECOVERED"}
                \/ (claims[cl].status = "FAILED" /\ cl \notin OneClick) =>
                   claims'[cl].status = claims[cl].status
  BY LedgerNextKeeps DEF Lawful, Grows, CampaignGrows, ClaimsGrow, Settled
<1> QED
  BY <1>1, LedgerInvariant, PTL DEF LedgerSpec, SettledStays
===============================================================================
