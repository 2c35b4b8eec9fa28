-------------------------- MODULE PostgresRepository --------------------------
(***************************************************************************)
(* src/server/v2/postgres-repository.ts over the tables of                   *)
(* migrations/v2/001 to 008: a call is a sequence of SQL statements, and the   *)
(* statements of several calls interleave.  A statement is one step, at READ   *)
(* COMMITTED: it sees what is committed, and waits for the rows and the unique *)
(* keys that another transaction has written or locked.  A statement on its    *)
(* own commits at once; a transaction holds its locks until COMMIT, and what    *)
(* it has written is seen only then, or never.  A connection may fail at any    *)
(* moment: before COMMIT the transaction is rolled back.                        *)
(***************************************************************************)
EXTENDS LedgerRows

CONSTANTS
    Workloads,    \* names of the situations that are explored
    Start,        \* workload -> the rows that it starts with
    Asked,        \* workload -> the calls that its callers make
    MaxVersion,   \* bound: a processing lease runs out only below this version
    MaxEvents     \* bound: no event without a key is added beyond this number

VARIABLES
    campaigns, fundingOrders, claims, idempotency, jobs, events,   \* what is committed
    calls,        \* caller -> the call it makes, with the locks of its transaction
    workload

tables == <<campaigns, fundingOrders, claims, idempotency, jobs, events>>

vars == <<tables, calls, workload>>

\* A campaign has one open order and one winning claim, and a slug and a paid generation
\* name one campaign.
UniqueRows(db) ==
    /\ \A k, l \in Stored(db.fundingOrders) :
          /\ db.fundingOrders[k].status \notin ClosedOrders
          /\ db.fundingOrders[l].status \notin ClosedOrders
          /\ db.fundingOrders[k].campaign = db.fundingOrders[l].campaign
          => k = l
    /\ \A k, l \in Stored(db.claims) :
          /\ db.claims[k].status \in WinningStatus /\ db.claims[l].status \in WinningStatus
          /\ db.claims[k].campaign = db.claims[l].campaign
          => k = l
    /\ \A x, y \in Stored(db.campaigns) :
          \/ db.campaigns[x].slug = db.campaigns[y].slug
          \/ db.campaigns[x].payment # None /\ db.campaigns[x].payment = db.campaigns[y].payment
          => x = y

ASSUME WorkloadsAssumption ==
    \A w \in Workloads :
       /\ Asked[w] \subseteq Calls
       /\ Start[w].campaigns \in [Campaigns -> Campaign \cup {None}]
       /\ Start[w].fundingOrders \in [OrderKeys -> FundingOrder \cup {None}]
       /\ Start[w].claims \in [ClaimKeys -> Claim \cup {None}]
       /\ Start[w].idempotency \in [RecordKeys -> IdempotencyRecord \cup {None}]
       /\ Start[w].jobs \in [JobKeys -> Job \cup {None}]
       /\ UniqueRows(Start[w])

Idle == [at |-> "idle", call |-> None, answer |-> None, met |-> FALSE, total |-> None,
         held |-> {}]

\* What is locked: the row of a table, the key of a campaign row that rows of other
\* tables refer to (FOR UPDATE locks it, UPDATE does not), or a value of a unique index.
Lock(kind, name) == <<kind, name>>

CampaignRow(x) == {Lock("campaign", x)}
NoLock(x) == {}
ForUpdate(x) == {Lock("campaign", x), Lock("reference", x)}
References(x) == {Lock("reference", x)}
OrderRow(k) == {Lock("order", k)}
OpenOrder(x) == {Lock("open", x)}
ClaimRow(k) == {Lock("claim", k)}
RecordRow(k) == {Lock("record", k)}
JobRow(k) == {Lock("job", k)}
SlugValue(s) == {Lock("slug", s)}
PaymentValue(p) == {Lock("payment", p)}

\* No other transaction holds any of the locks.
Free(c, locks) == \A d \in Callers \ {c} : calls[d].held \cap locks = {}

Init ==
    /\ workload \in Workloads
    /\ campaigns = Start[workload].campaigns
    /\ fundingOrders = Start[workload].fundingOrders
    /\ claims = Start[workload].claims
    /\ idempotency = Start[workload].idempotency
    /\ jobs = Start[workload].jobs
    /\ events = <<>>
    /\ calls = [c \in Callers |-> Idle]

\* What a call leaves alone that writes one table only.
allButCampaigns == <<fundingOrders, claims, idempotency, jobs, events, workload>>
allButOrders == <<campaigns, claims, idempotency, jobs, events, workload>>
allButClaims == <<campaigns, fundingOrders, idempotency, jobs, events, workload>>
allButRecords == <<campaigns, fundingOrders, claims, jobs, events, workload>>
allButJobs == <<campaigns, fundingOrders, claims, idempotency, events, workload>>

\* A campaign that is created gets a new id.
Fresh(call) ==
    call.op = "createCampaign" =>
        /\ campaigns[call.id] = None
        /\ ~\E d \in Callers : /\ calls[d].at # "idle" /\ calls[d].call.op = "createCampaign"
                               /\ calls[d].call.id = call.id

\* The lease of a record is asked for by who has found the record.
Found(call) == call.op = "acquireIdempotencyProcessingLease" => idempotency[call.key] # None

Bounded(call) == call.op = "appendEvent" /\ call.key = None => Len(events) < MaxEvents

Invoke(c) ==
    /\ calls[c].at = "idle"
    /\ \E call \in Asked[workload] :
          /\ Fresh(call) /\ Found(call) /\ Bounded(call)
          /\ calls' = [calls EXCEPT ![c].at = "called", ![c].call = call]
    /\ UNCHANGED <<tables, workload>>

\* The statement that call op of caller c comes to next is the one named at.
At(c, op, at) == calls[c].at = at /\ calls[c].call.op = op

\* The statement ends the call: an autocommit, a COMMIT, or a ROLLBACK.
Answer(c, answer) ==
    calls' = [calls EXCEPT ![c].at = "answered", ![c].answer = answer, ![c].held = {}]

Only(c, answer) == Answer(c, answer) /\ UNCHANGED <<tables, workload>>

\* The transaction goes on to the statement named at, with more locks.
Proceed(c, at, locks) ==
    /\ calls' = [calls EXCEPT ![c].at = at, ![c].held = @ \cup locks]
    /\ UNCHANGED <<tables, workload>>

\* The answer is decided; a SELECT reads the row that goes with it.
Decide(c, answer) ==
    /\ calls' = [calls EXCEPT ![c].at = "reading", ![c].answer = answer, ![c].held = {}]
    /\ UNCHANGED <<tables, workload>>

ReadDecided(c) ==
    /\ calls[c].at = "reading"
    /\ Only(c, calls[c].answer)

Return(c) ==
    /\ calls[c].at = "answered"
    /\ calls' = [calls EXCEPT ![c] = Idle]
    /\ UNCHANGED <<tables, workload>>

\* A statement fails or the connection is lost, before the COMMIT or after it.
Throw(c) ==
    /\ calls[c].at # "idle" /\ calls[c].answer # <<"thrown">>
    /\ Only(c, <<"thrown">>)

-----------------------------------------------------------------------------
\* verifyAiGenerationReceipt accepts the stored record.
Verified(p) == idempotency[p] # None /\ idempotency[p].state = "COMPLETED"

\* v2_campaigns_slug_unique, v2_campaigns_ai_payment_identifier_unique
SlugTaken(id, slug) == \E x \in Stored(campaigns) \ {id} : campaigns[x].slug = slug

PaymentLinked(p) == \E x \in Stored(campaigns) : campaigns[x].payment = p

\* createCampaign without a receipt is one INSERT.
InsertCampaign(c) ==
    LET call == calls[c].call
    IN  /\ At(c, "createCampaign", "called") /\ call.payment = None
        /\ Free(c, SlugValue(call.slug))
        /\ \/ SlugTaken(call.id, call.slug) /\ Only(c, <<"refused">>)
           \/ /\ ~SlugTaken(call.id, call.slug)
              /\ campaigns' = [campaigns EXCEPT ![call.id] = NewCampaign(call)]
              /\ Answer(c, <<"created">>)
              /\ UNCHANGED allButCampaigns

\* With a receipt: SELECT ... FOR UPDATE of its record,
LockReceipt(c) ==
    LET call == calls[c].call
    IN  /\ At(c, "createCampaign", "called") /\ call.payment # None
        /\ idempotency[call.payment] # None => Free(c, RecordRow(call.payment))
        /\ \/ ~Verified(call.payment) /\ Only(c, <<"refused">>)
           \/ Verified(call.payment) /\ Proceed(c, "verified", RecordRow(call.payment))

\* the INSERT,
InsertLinkedCampaign(c) ==
    LET call == calls[c].call
        taken == SlugTaken(call.id, call.slug) \/ PaymentLinked(call.payment)
        values == SlugValue(call.slug) \cup PaymentValue(call.payment)
    IN  /\ At(c, "createCampaign", "verified")
        /\ Free(c, values)
        /\ \/ taken /\ Only(c, <<"refused">>)
           \/ ~taken /\ Proceed(c, "inserted", values)

\* and COMMIT.
CommitCampaign(c) ==
    LET call == calls[c].call
    IN  /\ At(c, "createCampaign", "inserted")
        /\ campaigns' = [campaigns EXCEPT ![call.id] = NewCampaign(call)]
        /\ Answer(c, <<"created">>)
        /\ UNCHANGED allButCampaigns

\* An UPDATE of the draft; an empty patch only reads the campaign.
UpdateCampaignDraft(c) ==
    LET call == calls[c].call
        row == campaigns[call.id]
        slugs == call.patch \in Slugs
        matches == /\ row # None /\ row.creator = call.creator
                   /\ row.status = "DRAFT" /\ row.version = call.version
        taken == slugs /\ SlugTaken(call.id, call.patch)
    IN  /\ At(c, "updateCampaignDraft", "called")
        /\ \/ call.patch = "empty" /\ Only(c, <<"done", row>>)
           \/ /\ call.patch # "empty" /\ Free(c, CampaignRow(call.id))
              /\ \/ ~matches /\ Only(c, <<"null">>)
                 \/ /\ matches
                    /\ slugs => Free(c, SlugValue(call.patch))
                    /\ \/ taken /\ Only(c, <<"refused">>)
                       \/ /\ ~taken
                          /\ campaigns' =
                                [campaigns EXCEPT ![call.id].version = @ + 1,
                                   ![call.id].slug = IF slugs THEN call.patch ELSE @]
                          /\ Answer(c, <<"done", campaigns'[call.id]>>)
                          /\ UNCHANGED allButCampaigns

\* UPDATE ... WHERE status = ANY(from) AND version = expected
Matches(row, call) == row # None /\ row.status \in call.from /\ row.version = call.version

TransitionCampaign(c) ==
    LET call == calls[c].call
        row == campaigns[call.id]
    IN  /\ At(c, "transitionCampaign", "called") /\ Free(c, CampaignRow(call.id))
        /\ \/ ~Matches(row, call) /\ Only(c, <<"null">>)
           \/ /\ Matches(row, call)
              /\ campaigns' = [campaigns EXCEPT ![call.id] = Moved(row, call.to)]
              /\ Answer(c, <<"done", campaigns'[call.id]>>)
              /\ UNCHANGED allButCampaigns

-----------------------------------------------------------------------------
OpenTakenByAwaiting(k, x) ==
    \E o \in Stored(fundingOrders) \ {k} :
        fundingOrders[o].campaign = x /\ fundingOrders[o].status = "AWAITING_DEPOSIT"

\* v2_funding_orders_open_campaign: order k cannot be the open order of campaign x.
OpenTaken(k, x) ==
    \E o \in Stored(fundingOrders) \ {k} :
        fundingOrders[o].campaign = x /\ fundingOrders[o].status \notin ClosedOrders

\* INSERT ... ON CONFLICT (creator_id, idempotency_key) DO NOTHING.  The other unique
\* index makes it fail.
CreateFundingOrderIdempotent(c) ==
    LET call == calls[c].call
        exists == fundingOrders[call.key] # None
    IN  /\ At(c, "createFundingOrderIdempotent", "called")
        /\ Free(c, OrderRow(call.key))
        /\ \/ exists /\ Decide(c, <<"existing">>)
           \/ /\ ~exists /\ Free(c, OpenOrder(call.campaign) \cup References(call.campaign))
              /\ \/ OpenTaken(call.key, call.campaign) /\ Decide(c, <<"refused">>)
                 \/ /\ ~OpenTaken(call.key, call.campaign)
                    /\ fundingOrders' = [fundingOrders EXCEPT ![call.key] = NewOrder(call)]
                    /\ Answer(c, <<"created">>)
                    /\ UNCHANGED allButOrders

\* createFundingOrderAndFreezeCampaign: the SELECT of the order with the key,
FreezeLookup(c) ==
    LET call == calls[c].call
    IN  /\ At(c, "createFundingOrderAndFreezeCampaign", "called")
        /\ \/ fundingOrders[call.key] # None /\ Decide(c, <<"existing">>)
           \/ fundingOrders[call.key] = None /\ Proceed(c, "looked up", {})

\* SELECT ... FOR UPDATE of the campaign,
FreezeLock(c) ==
    LET call == calls[c].call
        row == campaigns[call.campaign]
        draft == /\ row # None /\ row.creator = call.creator
                 /\ row.status = "DRAFT" /\ row.version = call.version
    IN  /\ At(c, "createFundingOrderAndFreezeCampaign", "looked up")
        /\ Free(c, ForUpdate(call.campaign))
        /\ \/ ~draft /\ Only(c, <<"null">>)
           \/ draft /\ Proceed(c, "locked", ForUpdate(call.campaign))

\* the INSERT, which fails when the key is used or an order is open,
FreezeInsert(c) ==
    LET call == calls[c].call
        entries == OrderRow(call.key) \cup OpenOrder(call.campaign)
        open == OpenTaken(call.key, call.campaign)
        violated == fundingOrders[call.key] # None \/ open
    IN  /\ At(c, "createFundingOrderAndFreezeCampaign", "locked")
        /\ Free(c, entries)
        /\ \/ ~violated /\ Proceed(c, "inserted", entries)
           \/ /\ violated
              /\ calls' = [calls EXCEPT ![c].at = "violated", ![c].met = open, ![c].held = {}]
              /\ UNCHANGED <<tables, workload>>

\* the UPDATE of the campaign, which looks at its version again, and COMMIT,
FreezeCommit(c) ==
    LET call == calls[c].call
        row == campaigns[call.campaign]
        frozen == row.status = "DRAFT" /\ row.version = call.version
    IN  /\ At(c, "createFundingOrderAndFreezeCampaign", "inserted")
        /\ IF frozen
           THEN /\ fundingOrders' = [fundingOrders EXCEPT ![call.key] = NewOrder(call)]
                /\ campaigns' = [campaigns EXCEPT ![call.campaign] = Moved(@, "FUNDING")]
                /\ Answer(c, <<"created">>)
                /\ UNCHANGED <<claims, idempotency, jobs, events, workload>>
           ELSE Only(c, <<"null">>)

FreezeRefuse(c) ==
    /\ At(c, "createFundingOrderAndFreezeCampaign", "violated")
    /\ Decide(c, <<"refused">>)

\* or, after the violation and ROLLBACK, a second SELECT of the order with the key.
FreezeLookAgain(c) ==
    LET call == calls[c].call
    IN  /\ At(c, "createFundingOrderAndFreezeCampaign", "violated")
        /\ Decide(c, IF fundingOrders[call.key] # None THEN <<"existing">> ELSE <<"refused">>)

TransitionFundingOrder(c) ==
    LET call == calls[c].call
        row == fundingOrders[call.key]
        opens == call.to \notin ClosedOrders
    IN  /\ At(c, "transitionFundingOrder", "called") /\ Free(c, OrderRow(call.key))
        /\ \/ ~Matches(row, call) /\ Only(c, <<"null">>)
           \/ /\ Matches(row, call)
              /\ opens => Free(c, OpenOrder(row.campaign))
              /\ \/ opens /\ OpenTaken(call.key, row.campaign) /\ Only(c, <<"refused">>)
                 \/ /\ ~(opens /\ OpenTaken(call.key, row.campaign))
                    /\ fundingOrders' = [fundingOrders EXCEPT ![call.key] = Moved(row, call.to)]
                    /\ Answer(c, <<"done", fundingOrders'[call.key]>>)
                    /\ UNCHANGED allButOrders

-----------------------------------------------------------------------------
PayingStatus == {"PAYING", "PAID", "RECOVERED"}

\* v2_claims_winner: claim k cannot be the winner of its campaign.
WonStatus == {"SUBMITTED", "PAYING", "PAID", "RECOVERED"}

WinnerTaken(k) ==
    \E o \in Stored(claims) \ {k} :
        claims[o].campaign = claims[k].campaign /\ claims[o].status \in WonStatus

\* INSERT ... ON CONFLICT (claimant_id, idempotency_key) DO NOTHING
CreateClaimIdempotent(c) ==
    LET call == calls[c].call
    IN  /\ At(c, "createClaimIdempotent", "called")
        /\ \/ claims[call.key] # None /\ Decide(c, <<"existing">>)
           \/ /\ claims[call.key] = None /\ Free(c, References(call.campaign))
              /\ claims' = [claims EXCEPT ![call.key] = NewClaim(call)]
              /\ Answer(c, <<"created">>)
              /\ UNCHANGED allButClaims

SubmitLook(c) ==
    LET call == calls[c].call
        row == claims[call.key]
        open == /\ row # None /\ row.status \in {"QUOTED", "AWAITING_PROOF"}
                /\ row.version = call.version
    IN  /\ At(c, "submitClaimAtomically", "called")
        /\ \/ ~open /\ Only(c, <<"null">>)
           \/ open /\ Proceed(c, "locked", {})

\* submitClaimAtomically: SELECT ... FOR UPDATE of the claim,
SubmitLock(c) ==
    LET call == calls[c].call
        row == claims[call.key]
        open == /\ row # None /\ row.status \in {"QUOTED", "AWAITING_PROOF"}
                /\ row.version = call.version
    IN  /\ At(c, "submitClaimAtomically", "called") /\ Free(c, ClaimRow(call.key))
        /\ \/ ~open /\ Only(c, <<"null">>)
           \/ open /\ Proceed(c, "locked", ClaimRow(call.key))

\* the UPDATE of the active campaign,
SubmitCampaign(c) ==
    LET call == calls[c].call
        id == claims[call.key].campaign
        active == /\ campaigns[id] # None /\ campaigns[id].status = "ACTIVE"
                  /\ campaigns[id].version = call.campaignVersion
    IN  /\ At(c, "submitClaimAtomically", "locked") /\ Free(c, CampaignRow(id))
        /\ \/ ~active /\ Only(c, <<"null">>)
           \/ active /\ Proceed(c, "claiming", CampaignRow(id))

\* the UPDATE of the claim, which looks at its version again, and COMMIT.
SubmitCommit(c) ==
    LET call == calls[c].call
        claim == claims[call.key]
    IN  /\ At(c, "submitClaimAtomically", "claiming") /\ Free(c, ClaimRow(call.key))
        /\ IF claim.version # call.version THEN Only(c, <<"null">>)
           ELSE \/ WinnerTaken(call.key) /\ Only(c, <<"refused">>)
                \/ /\ ~WinnerTaken(call.key)
                   /\ campaigns' = [campaigns EXCEPT ![claim.campaign] = Moved(@, "CLAIMING")]
                   /\ claims' = [claims EXCEPT ![call.key] = Moved(@, "SUBMITTED")]
                   /\ Answer(c, <<"done", claims'[call.key], campaigns'[claim.campaign]>>)
                   /\ UNCHANGED <<fundingOrders, idempotency, jobs, events, workload>>

TransitionClaim(c) ==
    LET call == calls[c].call
        row == claims[call.key]
        barred == call.to \in WonStatus /\ WinnerTaken(call.key)
    IN  /\ At(c, "transitionClaim", "called") /\ Free(c, ClaimRow(call.key))
        /\ \/ ~Matches(row, call) /\ Only(c, <<"null">>)
           \/ Matches(row, call) /\ barred /\ Only(c, <<"refused">>)
           \/ /\ Matches(row, call) /\ ~barred
              /\ claims' = [claims EXCEPT ![call.key] = Patched(row, call, call.to)]
              /\ Answer(c, <<"done", claims'[call.key]>>)
              /\ UNCHANGED allButClaims

\* finalizeOneClickPayoutAtomically: SELECT ... FOR UPDATE of the claim,
FinalizeLockClaim(c) ==
    LET call == calls[c].call
    IN  /\ At(c, "finalizeOneClickPayoutAtomically", "called")
        /\ Free(c, ClaimRow(call.key))
        /\ \/ claims[call.key] = None /\ Only(c, <<"null">>)
           \/ claims[call.key] # None /\ Proceed(c, "claim locked", ClaimRow(call.key))

\* and of the campaign, with the checks on both,
FinalizeLockCampaign(c) ==
    LET call == calls[c].call
        claim == claims[call.key]
        row == campaigns[call.campaign]
        payable == /\ claim.campaign = call.campaign /\ claim.payout = "ONE_CLICK"
                   /\ claim.status \in {"PAYING", "FAILED", call.target}
                   /\ row.status \in {"CLAIMING", "CLAIMED"}
        receipt == IF claim.status = call.target THEN claim.settled
                   ELSE call.settles \/ claim.settled
        ready == row # None /\ payable /\ receipt
    IN  /\ At(c, "finalizeOneClickPayoutAtomically", "claim locked")
        /\ Free(c, ForUpdate(call.campaign))
        /\ \/ ~ready /\ Only(c, <<"null">>)
           \/ ready /\ Proceed(c, "both locked", ForUpdate(call.campaign))

\* the UPDATEs of those that are not at their end yet, and COMMIT.
FinalizeCommit(c) ==
    LET call == calls[c].call
        claim == claims[call.key]
        row == campaigns[call.campaign]
        barred == claim.status # call.target /\ WinnerTaken(call.key)
    IN  /\ At(c, "finalizeOneClickPayoutAtomically", "both locked")
        /\ \/ barred /\ Only(c, <<"refused">>)
           \/ /\ ~barred
              /\ claims' = IF claim.status = call.target THEN claims
                           ELSE [claims EXCEPT ![call.key] = Patched(claim, call, call.target)]
              /\ campaigns' = IF row.status = "CLAIMED" THEN campaigns
                              ELSE [campaigns EXCEPT ![call.campaign] = Moved(row, "CLAIMED")]
              /\ Answer(c, <<"done", claims'[call.key], campaigns'[call.campaign]>>)
              /\ UNCHANGED <<fundingOrders, idempotency, jobs, events, workload>>

\* The columns of the query of getLiveLiabilities, for campaign x.
RoutingInFlight(x) ==
    \E k \in Stored(claims) :
        LET cl == claims[k]
        IN  /\ cl.campaign = x /\ campaigns[x].status = "CLAIMING" /\ cl.payout = "ONE_CLICK"
            /\ cl.status \in {"PAYING", "FAILED"} /\ cl.deposited

ReleasedUnlessFailed(x) ==
    \E k \in Stored(claims) :
        LET cl == claims[k]
        IN  /\ cl.campaign = x /\ campaigns[x].status = "CLAIMING" /\ cl.payout = "ONE_CLICK"
            /\ \/ cl.status \in {"PAID", "RECOVERED"} /\ cl.settled
               \/ cl.status = "PAYING" /\ cl.deposited

ReleasedFromEscrow(x) ==
    \E k \in Stored(claims) :
        LET cl == claims[k]
        IN  /\ cl.campaign = x /\ campaigns[x].status = "CLAIMING" /\ cl.payout = "ONE_CLICK"
            /\ \/ cl.status \in {"PAID", "RECOVERED"} /\ cl.settled
               \/ cl.status \in {"PAYING", "FAILED"} /\ cl.deposited

GetLiveLiabilities(c) ==
    LET liabilities == {x \in Stored(campaigns) : campaigns[x].status \in
                            {"SCHEDULED", "ACTIVE", "CLAIMING", "REFUNDING"}}
    IN  /\ At(c, "getLiveLiabilities", "called")
        /\ Only(c, <<"done", {x \in liabilities : ~ReleasedFromEscrow(x)},
                             {x \in liabilities : RoutingInFlight(x)}>>)

-----------------------------------------------------------------------------
\* The DELETE of reserveIdempotency leaves these, and getIdempotency finds them.
Kept(k) ==
    \/ ~idempotency[k].expired
    \/ k \in PaidKeys
    \/ idempotency[k].state = "PROCESSING" /\ idempotency[k].authorized

\* reserveIdempotency: the DELETE of an expired record,
ReserveDelete(c) ==
    LET k == calls[c].call.key
    IN  /\ At(c, "reserveIdempotency", "called")
        /\ IF idempotency[k] # None /\ ~Kept(k)
           THEN Free(c, RecordRow(k)) /\ Proceed(c, "deleted", RecordRow(k))
           ELSE Proceed(c, "deleted", {})

ReserveInsertAtOnce(c) ==
    LET k == calls[c].call.key
        absent == idempotency[k] = None \/ RecordRow(k) \subseteq calls[c].held
    IN  /\ At(c, "reserveIdempotency", "deleted")
        /\ Proceed(c, IF absent THEN "inserted" ELSE "conflict",
                      IF absent THEN RecordRow(k) ELSE {})

\* the INSERT ... ON CONFLICT DO NOTHING, which waits for whoever deletes or inserts
\* the same key,
ReserveInsert(c) ==
    LET k == calls[c].call.key
        absent == idempotency[k] = None \/ RecordRow(k) \subseteq calls[c].held
    IN  /\ At(c, "reserveIdempotency", "deleted") /\ Free(c, RecordRow(k))
        /\ Proceed(c, IF absent THEN "inserted" ELSE "conflict",
                      IF absent THEN RecordRow(k) ELSE {})

\* COMMIT,
ReserveCommit(c) ==
    LET call == calls[c].call
    IN  /\ At(c, "reserveIdempotency", "inserted")
        /\ idempotency' = [idempotency EXCEPT ![call.key] = NewRecord(call)]
        /\ Answer(c, <<"created">>)
        /\ UNCHANGED allButRecords

\* or a SELECT of the record that was there, and COMMIT.
ReserveSelect(c) ==
    /\ At(c, "reserveIdempotency", "conflict")
    /\ Only(c, <<"existing", idempotency[calls[c].call.key].request>>)

GetIdempotency(c) ==
    LET k == calls[c].call.key
        found == idempotency[k] # None /\ Kept(k)
    IN  /\ At(c, "getIdempotency", "called")
        /\ Only(c, IF found THEN <<"done", idempotency[k]>> ELSE <<"null">>)

\* processing_owner IS NULL OR processing_lease_expires_at <= now
Unowned(row) == row.owner = None \/ row.lapsed

\* acquireIdempotencyProcessingLease: the UPDATE, with a SELECT when it finds nothing,
AcquireUpdate(c) ==
    LET call == calls[c].call
        row == idempotency[call.key]
        found == /\ row.state = "PROCESSING" /\ row.request = call.request
                 /\ row.authorized /\ Unowned(row)
    IN  /\ At(c, "acquireIdempotencyProcessingLease", "called") /\ Free(c, RecordRow(call.key))
        /\ \/ found /\ Proceed(c, "updated", RecordRow(call.key))
           \/ ~found /\ Decide(c, <<"null">>)

\* The UPDATE commits.
UpdateRecord(c, row) ==
    /\ idempotency' = [idempotency EXCEPT ![calls[c].call.key] = row]
    /\ Answer(c, <<"done", row>>)
    /\ UNCHANGED allButRecords

\* and COMMIT.
AcquireCommit(c) ==
    LET call == calls[c].call
        row == idempotency[call.key]
    IN  /\ At(c, "acquireIdempotencyProcessingLease", "updated")
        /\ UpdateRecord(c, [row EXCEPT !.owner = call.actor, !.lapsed = FALSE, !.version = @ + 1])

\* ... AND processing_owner = $ AND processing_version = $ AND processing_stage = $
OwnedAt(row, call) ==
    /\ row # None /\ row.state = "PROCESSING"
    /\ row.owner = call.actor /\ row.version = call.version /\ row.stage = call.stage

StageFollows(from, to) ==
    \/ from = "AUTHORIZED" /\ to = "GENERATED"
    \/ from = "GENERATED" /\ to = "SETTLING"
    \/ from = "SETTLING" /\ to \in {"SETTLED", "SETTLEMENT_UNKNOWN"}
    \/ from = "SETTLEMENT_UNKNOWN" /\ to = "SETTLING"

AdvanceIdempotencyProcessing(c) ==
    LET call == calls[c].call
        row == idempotency[call.key]
        unknown == call.to = "SETTLEMENT_UNKNOWN"
        found == /\ OwnedAt(row, call) /\ row.request = call.request /\ row.authorized
                 /\ StageFollows(call.stage, call.to)
                 /\ call.renews = ~unknown
    IN  /\ At(c, "advanceIdempotencyProcessing", "called") /\ Free(c, RecordRow(call.key))
        /\ \/ ~found /\ Only(c, <<"null">>)
           \/ /\ found
              /\ UpdateRecord(c, [row EXCEPT !.stage = call.to, !.lapsed = FALSE,
                                           !.owner = IF unknown THEN None ELSE call.actor,
                                           !.version = @ + 1])

\* The record with its result, and nobody's any more.
Finished(row, result) ==
    [row EXCEPT !.state = result, !.stage = None, !.owner = None, !.lapsed = FALSE,
                !.version = @ + 1]

FinishOwnedIdempotency(c) ==
    LET call == calls[c].call
        row == idempotency[call.key]
    IN  /\ At(c, "finishOwnedIdempotency", "called") /\ Free(c, RecordRow(call.key))
        /\ \/ ~OwnedAt(row, call) /\ Only(c, <<"null">>)
           \/ OwnedAt(row, call) /\ UpdateRecord(c, Finished(row, call.result))

\* completeIdempotency and failIdempotency: ... AND processing_owner IS NULL
FinishIdempotency(c) ==
    LET call == calls[c].call
        row == idempotency[call.key]
        found == row # None /\ row.state = "PROCESSING" /\ row.owner = None
    IN  /\ At(c, "finishIdempotency", "called") /\ Free(c, RecordRow(call.key))
        /\ \/ ~found /\ Only(c, <<"refused">>)
           \/ found /\ UpdateRecord(c, Finished(row, call.result))

-----------------------------------------------------------------------------
\* enqueueJob: INSERT ... ON CONFLICT (deduplication_key) DO NOTHING,
EnqueueInsert(c) ==
    LET call == calls[c].call
    IN  /\ At(c, "enqueueJob", "called")
        /\ \/ /\ jobs[call.key] = None
              /\ jobs' = [jobs EXCEPT ![call.key] = NewJob]
              /\ Answer(c, <<"created">>)
              /\ UNCHANGED allButJobs
           \/ /\ jobs[call.key] # None
              /\ IF call.reactivateDead THEN Proceed(c, "conflict", {})
                                        ELSE Decide(c, <<"existing">>)

\* and the UPDATE that revives a dead job.
EnqueueRevive(c) ==
    LET call == calls[c].call
    IN  /\ At(c, "enqueueJob", "conflict") /\ Free(c, JobRow(call.key))
        /\ \/ jobs[call.key].status # "DEAD" /\ Decide(c, <<"existing">>)
           \/ /\ jobs[call.key].status = "DEAD"
              /\ jobs' = [jobs EXCEPT ![call.key] = NewJob]
              /\ Answer(c, <<"existing">>)
              /\ UNCHANGED allButJobs

Leasable(k) ==
    /\ jobs[k] # None /\ jobs[k].attempts < MaxAttempts
    /\ \/ jobs[k].status = "PENDING"
       \/ jobs[k].status = "RUNNING" /\ jobs[k].lapsed

LockedToo(c, k) == TRUE

\* FOR UPDATE SKIP LOCKED
Unlocked(c, k) == Free(c, JobRow(k))

\* leaseJobs: one statement selects, locks and updates candidates; any of them may be
\* the ones that are due,
LeaseUpdate(c) ==
    /\ At(c, "leaseJobs", "called")
    /\ \E taken \in SUBSET {k \in JobKeys : Leasable(k) /\ Unlocked(c, k)} :
          /\ Cardinality(taken) <= calls[c].call.limit
          /\ Proceed(c, "updated", UNION {JobRow(k) : k \in taken})

\* and COMMIT.
LeaseCommit(c) ==
    LET taken == {k \in JobKeys : JobRow(k) \subseteq calls[c].held}
    IN  /\ At(c, "leaseJobs", "updated")
        /\ jobs' = [k \in JobKeys |->
                      IF k \notin taken THEN jobs[k]
                      ELSE [status |-> "RUNNING", attempts |-> jobs[k].attempts + 1,
                            owner |-> calls[c].call.actor, lapsed |-> FALSE]]
        /\ Answer(c, <<"done", taken>>)
        /\ UNCHANGED allButJobs

\* WHERE id = $ AND status = 'RUNNING' AND lease_owner = $
Owns(call) ==
    /\ jobs[call.key] # None /\ jobs[call.key].status = "RUNNING"
    /\ jobs[call.key].owner = call.actor

\* completeJob
Completed(row) == [row EXCEPT !.status = "SUCCEEDED", !.owner = None, !.lapsed = FALSE]

\* rescheduleJob
Rescheduled(row) ==
    [row EXCEPT !.status = "PENDING", !.attempts = 0, !.owner = None, !.lapsed = FALSE]

\* failJob
Failed(row) ==
    [row EXCEPT !.status = IF row.attempts >= MaxAttempts THEN "DEAD" ELSE "PENDING",
                !.owner = None, !.lapsed = FALSE]

\* The owner ends its attempt with one UPDATE.
EndJob(c) ==
    LET call == calls[c].call
        row == jobs[call.key]
    IN  /\ At(c, "endJob", "called") /\ Free(c, JobRow(call.key))
        /\ \/ ~Owns(call) /\ Only(c, <<"null">>)
           \/ /\ Owns(call)
              /\ jobs' = [jobs EXCEPT ![call.key] =
                            CASE call.how = "complete" -> Completed(row)
                              [] call.how = "reschedule" -> Rescheduled(row)
                              [] call.how = "fail" -> Failed(row)]
              /\ Answer(c, <<"done", jobs'[call.key]>>)
              /\ UNCHANGED allButJobs

\* v2_operation_events_idempotent_transition
Recorded(key) == key # None /\ \E i \in DOMAIN events : events[i].key = key

\* INSERT ... ON CONFLICT DO NOTHING, with a SELECT of the event that was there.
AppendEvent(c) ==
    LET call == calls[c].call
        event == [key |-> call.key, actor |-> call.actor]
    IN  /\ At(c, "appendEvent", "called")
        /\ \/ /\ ~Recorded(call.key)
              /\ events' = Append(events, event)
              /\ Answer(c, <<"done", event>>)
              /\ UNCHANGED <<campaigns, fundingOrders, claims, idempotency, jobs, workload>>
           \/ /\ Recorded(call.key)
              /\ \E i \in DOMAIN events :
                    events[i].key = call.key /\ Decide(c, <<"done", events[i]>>)

-----------------------------------------------------------------------------
(* Reads of the tables: a SELECT waits for nobody.                           *)

\* The row that a SELECT finds, or none.
Selected(table, key) == IF table[key] = None THEN <<"null">> ELSE <<"done", table[key]>>

\* WHERE id = $1 OR slug = $1 LIMIT 1
GetCampaign(c) ==
    LET name == calls[c].call.name
        found == {x \in Stored(campaigns) : x = name \/ campaigns[x].slug = name}
    IN  /\ At(c, "getCampaign", "called")
        /\ \/ found = {} /\ Only(c, <<"null">>)
           \/ \E x \in found : Only(c, <<"done", x, campaigns[x]>>)

\* The conditions of the query: an empty list of statuses is none.
Where(call) ==
    {x \in Stored(campaigns) :
        /\ call.statuses = {} \/ campaigns[x].status \in call.statuses
        /\ call.creator = None \/ campaigns[x].creator = call.creator}

\* listCampaigns: SELECT COUNT(*),
CountCampaigns(c) ==
    /\ At(c, "listCampaigns", "called")
    /\ calls' = [calls EXCEPT ![c].at = "counted",
                             ![c].total = Cardinality(Where(calls[c].call))]
    /\ UNCHANGED <<tables, workload>>

\* and a SELECT with a LIMIT.
ListCampaigns(c) ==
    LET call == calls[c].call
        rows == Where(call)
    IN  /\ At(c, "listCampaigns", "counted")
        /\ \E page \in SUBSET rows :
              /\ \/ page = rows /\ Cardinality(rows) <= call.limit
                 \/ Cardinality(page) = call.limit
              /\ Only(c, <<"done", {<<x, campaigns[x]>> : x \in page}, calls[c].total>>)

\* getFundingOrder and getFundingOrderByIdempotency
GetFundingOrder(c) ==
    /\ At(c, "getFundingOrder", "called")
    /\ Only(c, Selected(fundingOrders, calls[c].call.key))

\* ORDER BY created_at DESC LIMIT 1: the time at which a transaction started orders
\* nothing that the callers know of.
GetFundingOrderForCampaign(c) ==
    LET of == {k \in Stored(fundingOrders) : fundingOrders[k].campaign = calls[c].call.campaign}
    IN  /\ At(c, "getFundingOrderForCampaign", "called")
        /\ \/ of = {} /\ Only(c, <<"null">>)
           \/ \E k \in of : Only(c, <<"done", k, fundingOrders[k]>>)

\* getClaim and getClaimByIdempotency
GetClaim(c) ==
    /\ At(c, "getClaim", "called")
    /\ Only(c, Selected(claims, calls[c].call.key))

ListEvents(c) ==
    /\ At(c, "listEvents", "called")
    /\ Only(c, <<"done", events>>)

-----------------------------------------------------------------------------
\* Time passes: records expire, leases run out.
Elapse ==
    /\ \/ \E k \in Stored(idempotency) :
             /\ \/ idempotency' = [idempotency EXCEPT ![k].expired = TRUE]
                \/ /\ idempotency[k].owner # None /\ idempotency[k].version < MaxVersion
                   /\ idempotency' = [idempotency EXCEPT ![k].lapsed = TRUE]
             /\ UNCHANGED jobs
       \/ \E k \in Stored(jobs) :
             /\ jobs[k].status = "RUNNING"
             /\ jobs' = [jobs EXCEPT ![k].lapsed = TRUE]
             /\ UNCHANGED idempotency
    /\ UNCHANGED <<campaigns, fundingOrders, claims, events, calls, workload>>

Ledger(c) ==
    \/ InsertCampaign(c) \/ LockReceipt(c) \/ InsertLinkedCampaign(c) \/ CommitCampaign(c)
    \/ UpdateCampaignDraft(c) \/ TransitionCampaign(c)
    \/ CreateFundingOrderIdempotent(c) \/ FreezeLookup(c) \/ FreezeLock(c) \/ FreezeInsert(c)
    \/ FreezeCommit(c) \/ FreezeLookAgain(c) \/ TransitionFundingOrder(c)
    \/ CreateClaimIdempotent(c) \/ SubmitLock(c) \/ SubmitCampaign(c) \/ SubmitCommit(c)
    \/ TransitionClaim(c) \/ FinalizeLockClaim(c) \/ FinalizeLockCampaign(c)
    \/ FinalizeCommit(c)

Operations(c) ==
    \/ ReserveDelete(c) \/ ReserveInsert(c) \/ ReserveCommit(c) \/ ReserveSelect(c)
    \/ AcquireUpdate(c) \/ AcquireCommit(c)
    \/ AdvanceIdempotencyProcessing(c) \/ FinishOwnedIdempotency(c) \/ FinishIdempotency(c)
    \/ EnqueueInsert(c) \/ EnqueueRevive(c) \/ LeaseUpdate(c) \/ LeaseCommit(c) \/ EndJob(c)
    \/ AppendEvent(c)

Reads(c) ==
    \/ GetCampaign(c) \/ CountCampaigns(c) \/ ListCampaigns(c) \/ GetFundingOrder(c)
    \/ GetFundingOrderForCampaign(c) \/ GetClaim(c) \/ GetLiveLiabilities(c)
    \/ GetIdempotency(c) \/ ListEvents(c)

Statement(c) == Ledger(c) \/ Operations(c) \/ Reads(c) \/ ReadDecided(c)

Next ==
    \/ Elapse
    \/ \E c \in Callers : Invoke(c) \/ Statement(c) \/ Throw(c) \/ Return(c)

Spec == Init /\ [][Next]_vars

-----------------------------------------------------------------------------
\* A call of the interface is answered once its answer is decided: in which statement
\* it then is, and what its transaction locks, nobody sees.
SeenCalls ==
    [c \in Callers |->
        [at |-> IF calls[c].at \in {"reading", "answered"} THEN "answered"
                ELSE IF calls[c].at = "idle" THEN "idle" ELSE "called",
         call |-> calls[c].call, answer |-> calls[c].answer, met |-> calls[c].met, total |-> calls[c].total]]

Interface == INSTANCE Repository WITH calls <- SeenCalls

\* However the statements of the calls interleave, and wherever a connection fails, each
\* call has the effect and the answer that it has at one moment in a repository whose
\* calls never overlap: the one in memory, which the tests of the services run on.
ImplementsRepository == Interface!Spec

\* One key, one holder.
LocksExclusive ==
    \A c, d \in Callers : c # d => calls[c].held \cap calls[d].held = {}

\* What the unique indexes are for, whatever transitions the callers ask for.
RowsUnique == UniqueRows([campaigns |-> campaigns, fundingOrders |-> fundingOrders, claims |-> claims])

\* What a transaction that holds locks waits for before its next statement.
Awaited(c) ==
    LET call == calls[c].call
    IN  CASE At(c, "createCampaign", "verified") -> SlugValue(call.slug) \cup PaymentValue(call.payment)
          [] At(c, "createFundingOrderAndFreezeCampaign", "locked") ->
                OrderRow(call.key) \cup OpenOrder(call.campaign)
          [] At(c, "submitClaimAtomically", "locked") -> CampaignRow(claims[call.key].campaign)
          [] At(c, "submitClaimAtomically", "claiming") -> ClaimRow(call.key)
          [] At(c, "finalizeOneClickPayoutAtomically", "claim locked") -> ForUpdate(call.campaign)
          [] At(c, "reserveIdempotency", "deleted") -> RecordRow(call.key)
          [] OTHER -> {}

Holders == {c \in Callers : calls[c].held # {}}

\* No transactions wait for each other in a circle: of those that hold locks, one waits
\* for nobody.
NoCircle == Holders # {} => \E c \in Holders : Free(c, Awaited(c))

RepositorySafe == Interface!TypeOK /\ LocksExclusive /\ RowsUnique /\ NoCircle

\* Nor is there anything else that they could wait for: of the transactions that hold
\* locks, one can carry out its next statement.
NobodyStuck == Holders # {} => \E c \in Holders : ENABLED Statement(c)
===============================================================================
