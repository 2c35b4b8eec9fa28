------------------------------ MODULE LedgerRows ------------------------------
(***************************************************************************)
(* The rows of the v2 ledger and the calls of its interface, from            *)
(* src/server/v2/types.ts and repository.ts, shared by the two repositories   *)
(* that implement it.  A row is named by the key the interface finds it by:   *)
(* a funding order, a claim and a job by their idempotency or deduplication   *)
(* key.  A row keeps what a call decides on; amounts, quotes, texts and       *)
(* timestamps are left out.  Whether a lease or a record has run out is a     *)
(* flag of the row, which time may raise.                                    *)
(***************************************************************************)
EXTENDS Naturals, Sequences, FiniteSets

CONSTANTS
    Callers,      \* the requests and workers that use the repository
    Calls,        \* the calls they may make: records with the operation in field op
    Campaigns,    \* campaign ids, drawn at random when a campaign is created
    Slugs,
    Creators,
    OrderKeys,    \* (creator, idempotency key) of a funding order
    ClaimKeys,    \* (claimant, idempotency key) of a claim
    RecordKeys,   \* (scope, actor, key) of an idempotency record
    PaidKeys,     \* those of the scope AI_GENERATE_X402_V2, the payment identifiers
    Requests,     \* a request hash with the authorization digest that goes with it
    JobKeys,      \* deduplication keys
    EventKeys,    \* (aggregate, event type, idempotency key) of an event
    Actors,       \* processing owners, lease owners of jobs and writers of events
    MaxAttempts,  \* maxAttempts of a job
    None          \* NULL, and the absence of a row

ASSUME RowsAssumption ==
    PaidKeys \subseteq RecordKeys /\ MaxAttempts \in Nat \ {0} /\ IsFiniteSet(Campaigns)

CampaignStatus == {"DRAFT", "FUNDING", "SCHEDULED", "ACTIVE", "CLAIMING", "CLAIMED",
                   "REFUNDING", "REFUNDED", "CANCELLED"}

FundingOrderStatus ==
    {"QUOTED", "AWAITING_DEPOSIT", "DEPOSIT_DETECTED", "PROCESSING", "SETTLED",
     "ALLOCATING", "ALLOCATED", "INCOMPLETE", "REFUNDED", "FAILED", "EXPIRED"}

\* An order in another status is open.
ClosedOrders == {"FAILED", "REFUNDED", "EXPIRED"}

ClaimStatus == {"QUOTED", "AWAITING_PROOF", "SUBMITTED", "PAYING", "PAID", "RECOVERED",
                "FAILED", "EXPIRED"}

\* A claim in one of these has won the prize of its campaign, or is about to.
WinningStatus == {"SUBMITTED", "PAYING", "PAID", "RECOVERED"}

JobStatus == {"PENDING", "RUNNING", "SUCCEEDED", "DEAD"}

Stages == {"AUTHORIZED", "GENERATED", "SETTLING", "SETTLED", "SETTLEMENT_UNKNOWN"}

\* payment is the paid generation that the campaign is linked to, or None.
Campaign == [slug : Slugs, creator : Creators, payment : PaidKeys \cup {None},
             status : CampaignStatus, version : Nat \ {0}]

FundingOrder == [campaign : Campaigns, status : FundingOrderStatus, version : Nat \ {0}]

\* settled: the claim has a settlementTxHash; deposited: its evidence says that the
\* contract has sent the prize to the deposit address of the route.
Claim == [campaign : Campaigns, payout : {"DIRECT_NEAR", "ONE_CLICK"},
          status : ClaimStatus, settled : BOOLEAN, deposited : BOOLEAN,
          version : Nat \ {0}]

\* authorized: authorizationDigest is not null; it is then the one of the request.
IdempotencyRecord ==
    [request : Requests, state : {"PROCESSING", "COMPLETED", "FAILED"},
     authorized : BOOLEAN, stage : Stages \cup {None}, owner : Actors \cup {None},
     lapsed : BOOLEAN, version : Nat, expired : BOOLEAN]

Job == [status : JobStatus, attempts : 0 .. MaxAttempts, owner : Actors \cup {None},
        lapsed : BOOLEAN]

OperationEvent == [key : EventKeys \cup {None}, actor : Actors]

NewCampaign(call) ==
    [slug |-> call.slug, creator |-> call.creator, payment |-> call.payment,
     status |-> "DRAFT", version |-> 1]

NewOrder(call) == [campaign |-> call.campaign, status |-> "AWAITING_DEPOSIT", version |-> 1]

NewClaim(call) ==
    [campaign |-> call.campaign, payout |-> call.payout, status |-> "QUOTED",
     settled |-> FALSE, deposited |-> FALSE, version |-> 1]

NewRecord(call) ==
    [request |-> call.request, state |-> "PROCESSING", authorized |-> call.processing,
     stage |-> IF call.processing THEN "AUTHORIZED" ELSE None, owner |-> None,
     lapsed |-> FALSE, version |-> 0, expired |-> FALSE]

NewJob == [status |-> "PENDING", attempts |-> 0, owner |-> None, lapsed |-> FALSE]

\* NULL is no value of a column, and the absence of a row no row.
ASSUME AbsenceAssumption ==
    None \notin Campaign \cup FundingOrder \cup Claim \cup IdempotencyRecord \cup Job \cup Nat

\* The row with a new status, as every transition writes it.
Moved(row, to) == [row EXCEPT !.status = to, !.version = @ + 1]

\* A claim with a new status and what the patch of the call adds.
Patched(row, call, to) ==
    [Moved(row, to) EXCEPT !.settled = @ \/ call.settles, !.deposited = @ \/ call.deposits]

\* The keys of a table that have a row.
Stored(table) == {k \in DOMAIN table : table[k] # None}

-----------------------------------------------------------------------------
(* The calls of the interface, with the arguments that decide anything.       *)

\* A list without a status filter asks for every status.  An empty filter, which the two
\* repositories understand differently, is a call that no caller makes.
CampaignCall ==
    [op : {"createCampaign"}, id : Campaigns, slug : Slugs, creator : Creators,
     payment : PaidKeys \cup {None}]
    \cup [op : {"getCampaign"}, name : Campaigns \cup Slugs]
    \cup [op : {"listCampaigns"}, statuses : (SUBSET CampaignStatus) \ {{}},
          creator : Creators \cup {None}, limit : Nat]
    \cup [op : {"updateCampaignDraft"}, id : Campaigns, creator : Creators, version : Nat,
          patch : Slugs \cup {"text", "empty"}]
    \cup [op : {"transitionCampaign"}, id : Campaigns, from : SUBSET CampaignStatus,
          to : CampaignStatus, version : Nat]

FundingOrderCall ==
    [op : {"createFundingOrderIdempotent"}, key : OrderKeys, campaign : Campaigns]
    \cup [op : {"createFundingOrderAndFreezeCampaign"}, key : OrderKeys, campaign : Campaigns,
          creator : Creators, version : Nat]
    \cup [op : {"transitionFundingOrder"}, key : OrderKeys, from : SUBSET FundingOrderStatus,
          to : FundingOrderStatus, version : Nat]
    \cup [op : {"getFundingOrder"}, key : OrderKeys]
    \cup [op : {"getFundingOrderForCampaign"}, campaign : Campaigns]

ClaimCall ==
    [op : {"createClaimIdempotent"}, key : ClaimKeys, campaign : Campaigns,
     payout : {"DIRECT_NEAR", "ONE_CLICK"}]
    \cup [op : {"submitClaimAtomically"}, key : ClaimKeys, version : Nat, campaignVersion : Nat]
    \cup [op : {"transitionClaim"}, key : ClaimKeys, from : SUBSET ClaimStatus,
          to : ClaimStatus, version : Nat, settles : BOOLEAN, deposits : BOOLEAN]
    \cup [op : {"finalizeOneClickPayoutAtomically"}, key : ClaimKeys, campaign : Campaigns,
          target : {"PAID", "RECOVERED"}, settles : BOOLEAN, deposits : BOOLEAN]
    \cup [op : {"getClaim"}, key : ClaimKeys]
    \cup [op : {"getLiveLiabilities"}]

IdempotencyCall ==
    [op : {"reserveIdempotency"}, key : RecordKeys, request : Requests, processing : BOOLEAN]
    \cup [op : {"getIdempotency"}, key : RecordKeys]
    \cup [op : {"acquireIdempotencyProcessingLease"}, key : RecordKeys, request : Requests,
          actor : Actors]
    \cup [op : {"advanceIdempotencyProcessing"}, key : RecordKeys, request : Requests,
          actor : Actors, version : Nat, stage : Stages, to : Stages, renews : BOOLEAN]
    \cup [op : {"finishOwnedIdempotency"}, key : RecordKeys, actor : Actors, version : Nat,
          stage : Stages, result : {"COMPLETED", "FAILED"}]
    \cup [op : {"finishIdempotency"}, key : RecordKeys, result : {"COMPLETED", "FAILED"}]

JobCall ==
    [op : {"enqueueJob"}, key : JobKeys, reactivateDead : BOOLEAN]
    \cup [op : {"leaseJobs"}, actor : Actors, limit : Nat]
    \cup [op : {"endJob"}, key : JobKeys, actor : Actors,
          how : {"complete", "reschedule", "fail"}]

EventCall ==
    [op : {"appendEvent"}, key : EventKeys \cup {None}, actor : Actors]
    \cup [op : {"listEvents"}]

ASSUME CallsAssumption ==
    Calls \subseteq CampaignCall \cup FundingOrderCall \cup ClaimCall \cup IdempotencyCall
                      \cup JobCall \cup EventCall
===============================================================================
