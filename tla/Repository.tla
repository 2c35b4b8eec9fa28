------------------------------ MODULE Repository ------------------------------
(***************************************************************************)
(* What the callers of the v2 ledger may rely on: every call takes effect and *)
(* is answered at one moment between its start and its end.  That is the      *)
(* repository in memory, src/server/v2/memory-repository.ts, whose methods run *)
(* without an await.  Where the repository in Postgres promises less, so does  *)
(* this one: a call may throw, before or after it has taken effect; a status  *)
(* that a unique index of the migrations reserves for one row may be refused  *)
(* to another; a creation or a freeze may be refused for what held at some    *)
(* moment of the call; an empty patch may be answered without a comparison;   *)
(* a list is counted before it is read; and time that passes during a call    *)
(* may be seen or not.  Of the order of rows by their time of creation        *)
(* nothing is promised, as clocks decide it.                                  *)
(***************************************************************************)
EXTENDS LedgerRows

VARIABLES
    campaigns, fundingOrders, claims, idempotency, jobs,   \* key -> row or None
    events,     \* operation events, in the order they were appended
    calls       \* caller -> what it has asked and been answered

tables == <<campaigns, fundingOrders, claims, idempotency, jobs, events>>

vars == <<tables, calls>>

\* met: an open order of the campaign has been seen since the call started; total: what
\* a list of campaigns has been counted to.
Idle == [at |-> "idle", call |-> None, answer |-> None, met |-> FALSE, total |-> None]

TypeOK ==
    /\ campaigns \in [Campaigns -> Campaign \cup {None}]
    /\ fundingOrders \in [OrderKeys -> FundingOrder \cup {None}]
    /\ claims \in [ClaimKeys -> Claim \cup {None}]
    /\ idempotency \in [RecordKeys -> IdempotencyRecord \cup {None}]
    /\ jobs \in [JobKeys -> Job \cup {None}]
    /\ \A i \in DOMAIN events : events[i] \in OperationEvent
    /\ \A c \in Callers : calls[c].at \in {"idle", "called", "answered"}

Init == TypeOK /\ calls = [c \in Callers |-> Idle]

Invoke(c) ==
    /\ calls[c].at = "idle"
    /\ \E call \in Calls : calls' = [calls EXCEPT ![c].at = "called", ![c].call = call]
    /\ UNCHANGED tables

\* Caller c has asked for operation op.
Asks(c, op) == calls[c].at = "called" /\ calls[c].call.op = op

Answer(c, answer) ==
    calls' = [calls EXCEPT ![c].at = "answered", ![c].answer = answer]

\* The call takes no effect.
Only(c, answer) == Answer(c, answer) /\ UNCHANGED tables

Return(c) ==
    /\ calls[c].at = "answered"
    /\ calls' = [calls EXCEPT ![c] = Idle]
    /\ UNCHANGED tables

\* The call throws, or its answer is lost.
Throw(c) ==
    /\ calls[c].at # "idle" /\ calls[c].answer # <<"thrown">>
    /\ Only(c, <<"thrown">>)

-----------------------------------------------------------------------------
\* A paid generation may be linked to a campaign once it is completed
\* (verifyAiGenerationReceipt).
Linkable(p) == idempotency[p] # None /\ idempotency[p].state = "COMPLETED"

SlugTaken(id, slug) == \E x \in Stored(campaigns) \ {id} : campaigns[x].slug = slug

PaymentLinked(p) == \E x \in Stored(campaigns) : campaigns[x].payment = p

CreateCampaign(c) ==
    LET call == calls[c].call
        refused == \/ SlugTaken(call.id, call.slug)
                   \/ /\ call.payment # None
                      /\ ~Linkable(call.payment) \/ PaymentLinked(call.payment)
    IN  /\ Asks(c, "createCampaign")
        /\ \/ refused /\ Only(c, <<"refused">>)
           \/ /\ ~refused
              /\ campaigns' = [campaigns EXCEPT ![call.id] = NewCampaign(call)]
              /\ Answer(c, <<"created">>)
              /\ UNCHANGED <<fundingOrders, claims, idempotency, jobs, events>>

\* A patch is a new slug, or a change of other fields ("text").  An empty patch may be
\* answered with the campaign as it is.
UpdateCampaignDraft(c) ==
    LET call == calls[c].call
        row == campaigns[call.id]
        current == /\ row # None /\ row.creator = call.creator
                   /\ row.status = "DRAFT" /\ row.version = call.version
        taken == call.patch \in Slugs /\ SlugTaken(call.id, call.patch)
    IN  /\ Asks(c, "updateCampaignDraft")
        /\ \/ ~current /\ Only(c, <<"null">>)
           \/ current /\ taken /\ Only(c, <<"refused">>)
           \/ /\ current /\ ~taken
              /\ campaigns' = [campaigns EXCEPT ![call.id].version = @ + 1,
                                  ![call.id].slug = IF call.patch \in Slugs THEN call.patch ELSE @]
              /\ Answer(c, <<"done", campaigns'[call.id]>>)
              /\ UNCHANGED <<fundingOrders, claims, idempotency, jobs, events>>
           \/ call.patch = "empty" /\ Only(c, <<"done", row>>)

TransitionCampaign(c) ==
    LET call == calls[c].call
        row == campaigns[call.id]
        current == row # None /\ row.status \in call.from /\ row.version = call.version
    IN  /\ Asks(c, "transitionCampaign")
        /\ \/ ~current /\ Only(c, <<"null">>)
           \/ /\ current
              /\ campaigns' = [campaigns EXCEPT ![call.id] = Moved(@, call.to)]
              /\ Answer(c, <<"done", campaigns'[call.id]>>)
              /\ UNCHANGED <<fundingOrders, claims, idempotency, jobs, events>>

-----------------------------------------------------------------------------
OpenOrders(x) ==
    {k \in Stored(fundingOrders) :
        fundingOrders[k].campaign = x /\ fundingOrders[k].status \notin ClosedOrders}

CreateFundingOrderIdempotent(c) ==
    LET call == calls[c].call
        exists == fundingOrders[call.key] # None
        open == OpenOrders(call.campaign) # {}
    IN  /\ Asks(c, "createFundingOrderIdempotent")
        /\ \/ exists /\ Only(c, <<"existing">>)
           \/ ~exists /\ open /\ Only(c, <<"refused">>)
           \/ /\ ~exists /\ ~open
              /\ fundingOrders' = [fundingOrders EXCEPT ![call.key] = NewOrder(call)]
              /\ Answer(c, <<"created">>)
              /\ UNCHANGED <<campaigns, claims, idempotency, jobs, events>>

\* The call sees an open order of its campaign.
Meet(c) ==
    /\ Asks(c, "createFundingOrderAndFreezeCampaign")
    /\ OpenOrders(calls[c].call.campaign) # {}
    /\ calls' = [calls EXCEPT ![c].met = TRUE]
    /\ UNCHANGED tables

\* A caller whose key is used by another call meanwhile may be told that the campaign
\* is no longer the draft it knew.
CreateFundingOrderAndFreezeCampaign(c) ==
    LET call == calls[c].call
        exists == fundingOrders[call.key] # None
        row == campaigns[call.campaign]
        draft == /\ row # None /\ row.creator = call.creator
                 /\ row.status = "DRAFT" /\ row.version = call.version
        open == OpenOrders(call.campaign) # {}
    IN  /\ Asks(c, "createFundingOrderAndFreezeCampaign")
        /\ \/ exists /\ Only(c, <<"existing">>)
           \/ ~draft /\ Only(c, <<"null">>)
           \/ ~exists /\ (open \/ calls[c].met) /\ Only(c, <<"refused">>)
           \/ /\ ~exists /\ draft /\ ~open
              /\ fundingOrders' = [fundingOrders EXCEPT ![call.key] = NewOrder(call)]
              /\ campaigns' = [campaigns EXCEPT ![call.campaign] = Moved(@, "FUNDING")]
              /\ Answer(c, <<"created">>)
              /\ UNCHANGED <<claims, idempotency, jobs, events>>

TransitionFundingOrder(c) ==
    LET call == calls[c].call
        row == fundingOrders[call.key]
        current == row # None /\ row.status \in call.from /\ row.version = call.version
        reserved == call.to \notin ClosedOrders /\ OpenOrders(row.campaign) \ {call.key} # {}
    IN  /\ Asks(c, "transitionFundingOrder")
        /\ \/ ~current /\ Only(c, <<"null">>)
           \/ current /\ reserved /\ Only(c, <<"refused">>)
           \/ /\ current
              /\ fundingOrders' = [fundingOrders EXCEPT ![call.key] = Moved(@, call.to)]
              /\ Answer(c, <<"done", fundingOrders'[call.key]>>)
              /\ UNCHANGED <<campaigns, claims, idempotency, jobs, events>>

-----------------------------------------------------------------------------
\* The claims of campaign x that have won its prize, or are about to.
Winners(x) ==
    {k \in Stored(claims) : claims[k].campaign = x /\ claims[k].status \in WinningStatus}

OthersWon(k) == Winners(claims[k].campaign) \ {k} # {}

CreateClaimIdempotent(c) ==
    LET call == calls[c].call
    IN  /\ Asks(c, "createClaimIdempotent")
        /\ \/ claims[call.key] # None /\ Only(c, <<"existing">>)
           \/ /\ claims[call.key] = None
              /\ claims' = [claims EXCEPT ![call.key] = NewClaim(call)]
              /\ Answer(c, <<"created">>)
              /\ UNCHANGED <<campaigns, fundingOrders, idempotency, jobs, events>>

SubmitClaimAtomically(c) ==
    LET call == calls[c].call
        claim == claims[call.key]
        row == campaigns[claim.campaign]
        current == /\ claim # None /\ claim.status \in {"QUOTED", "AWAITING_PROOF"}
                   /\ claim.version = call.version
                   /\ row # None /\ row.status = "ACTIVE" /\ row.version = call.campaignVersion
    IN  /\ Asks(c, "submitClaimAtomically")
        /\ \/ ~current /\ Only(c, <<"null">>)
           \/ current /\ OthersWon(call.key) /\ Only(c, <<"refused">>)
           \/ /\ current
              /\ campaigns' = [campaigns EXCEPT ![claim.campaign] = Moved(@, "CLAIMING")]
              /\ claims' = [claims EXCEPT ![call.key] = Moved(@, "SUBMITTED")]
              /\ Answer(c, <<"done", claims'[call.key], campaigns'[claim.campaign]>>)
              /\ UNCHANGED <<fundingOrders, idempotency, jobs, events>>

TransitionClaim(c) ==
    LET call == calls[c].call
        row == claims[call.key]
        current == row # None /\ row.status \in call.from /\ row.version = call.version
    IN  /\ Asks(c, "transitionClaim")
        /\ \/ ~current /\ Only(c, <<"null">>)
           \/ current /\ OthersWon(call.key) /\ Only(c, <<"refused">>)
           \/ /\ current
              /\ claims' = [claims EXCEPT ![call.key] = Patched(@, call, call.to)]
              /\ Answer(c, <<"done", claims'[call.key]>>)
              /\ UNCHANGED <<campaigns, fundingOrders, idempotency, jobs, events>>

\* A claim that has its end is not written again, but its campaign is ended with it.
FinalizeOneClickPayoutAtomically(c) ==
    LET call == calls[c].call
        claim == claims[call.key]
        row == campaigns[call.campaign]
        ended == claim.status = call.target
        current ==
            /\ claim # None /\ row # None
            /\ claim.campaign = call.campaign /\ claim.payout = "ONE_CLICK"
            /\ claim.status \in {"PAYING", "FAILED", call.target}
            /\ row.status \in {"CLAIMING", "CLAIMED"}
            /\ claim.settled \/ (~ended /\ call.settles)
    IN  /\ Asks(c, "finalizeOneClickPayoutAtomically")
        /\ \/ ~current /\ Only(c, <<"null">>)
           \/ current /\ OthersWon(call.key) /\ Only(c, <<"refused">>)
           \/ /\ current
              /\ claims' = IF ended THEN claims
                           ELSE [claims EXCEPT ![call.key] = Patched(@, call, call.target)]
              /\ campaigns' = IF row.status = "CLAIMED" THEN campaigns
                              ELSE [campaigns EXCEPT ![call.campaign] = Moved(@, "CLAIMED")]
              /\ Answer(c, <<"done", claims'[call.key], campaigns'[call.campaign]>>)
              /\ UNCHANGED <<fundingOrders, idempotency, jobs, events>>

\* Routed claims of x that have left the escrow: on their way, or at their end.
Deposited(x) ==
    {k \in Stored(claims) :
        /\ claims[k].campaign = x /\ claims[k].payout = "ONE_CLICK"
        /\ claims[k].status \in {"PAYING", "FAILED"} /\ claims[k].deposited}

Terminal(x) ==
    {k \in Stored(claims) :
        /\ claims[k].campaign = x /\ claims[k].payout = "ONE_CLICK"
        /\ claims[k].status \in {"PAID", "RECOVERED"} /\ claims[k].settled}

Live == {x \in Stored(campaigns) :
            campaigns[x].status \in {"SCHEDULED", "ACTIVE", "CLAIMING", "REFUNDING"}}

Claiming == {x \in Live : campaigns[x].status = "CLAIMING"}

RoutingCampaigns == {x \in Claiming : Deposited(x) # {}}

EscrowCampaigns == Live \ {x \in Claiming : Deposited(x) \cup Terminal(x) # {}}

\* Every campaign of the model has a token prize; its amount is left out.
GetLiveLiabilities(c) ==
    /\ Asks(c, "getLiveLiabilities")
    /\ Only(c, <<"done", EscrowCampaigns, RoutingCampaigns>>)

-----------------------------------------------------------------------------
(* Reads.                                                                   *)

\* The row of a table as an answer.
RowAnswer(table, key) == IF table[key] # None THEN <<"done", table[key]>> ELSE <<"null">>

\* A campaign is found by its id or by its slug.
GetCampaign(c) ==
    LET name == calls[c].call.name
        found == {x \in Stored(campaigns) : name \in {x, campaigns[x].slug}}
    IN  /\ Asks(c, "getCampaign")
        /\ IF found = {} THEN Only(c, <<"null">>)
           ELSE \E x \in found : Only(c, <<"done", x, campaigns[x]>>)

Listed(call) ==
    {x \in Stored(campaigns) :
        /\ campaigns[x].status \in call.statuses
        /\ call.creator \in {None, campaigns[x].creator}}

\* The total of a list is counted before its rows are read.
CountCampaigns(c) ==
    /\ Asks(c, "listCampaigns")
    /\ calls' = [calls EXCEPT ![c].total = Cardinality(Listed(calls[c].call))]
    /\ UNCHANGED tables

ListCampaigns(c) ==
    LET call == calls[c].call
        listed == Listed(call)
    IN  /\ Asks(c, "listCampaigns") /\ calls[c].total # None
        /\ \E page \in SUBSET listed :
              /\ Cardinality(page) = IF Cardinality(listed) < call.limit
                                     THEN Cardinality(listed) ELSE call.limit
              /\ Only(c, <<"done", {<<x, campaigns[x]>> : x \in page}, calls[c].total>>)

\* getFundingOrder and getFundingOrderByIdempotency
GetFundingOrder(c) ==
    /\ Asks(c, "getFundingOrder")
    /\ Only(c, RowAnswer(fundingOrders, calls[c].call.key))

\* One of the orders of the campaign, the newest one by the clock.
GetFundingOrderForCampaign(c) ==
    LET x == calls[c].call.campaign
        of == {k \in Stored(fundingOrders) : fundingOrders[k].campaign = x}
    IN  /\ Asks(c, "getFundingOrderForCampaign")
        /\ IF of = {} THEN Only(c, <<"null">>)
           ELSE \E k \in of : Only(c, <<"done", k, fundingOrders[k]>>)

\* getClaim and getClaimByIdempotency
GetClaim(c) ==
    /\ Asks(c, "getClaim")
    /\ Only(c, RowAnswer(claims, calls[c].call.key))

ListEvents(c) ==
    /\ Asks(c, "listEvents")
    /\ Only(c, <<"done", events>>)

-----------------------------------------------------------------------------
\* A record that is kept: its time is not up, or it stands for money.
Kept(k) ==
    \/ k \in PaidKeys
    \/ idempotency[k].state = "PROCESSING" /\ idempotency[k].authorized
    \/ ~idempotency[k].expired

ReserveIdempotency(c) ==
    LET call == calls[c].call
        row == idempotency[call.key]
    IN  /\ Asks(c, "reserveIdempotency")
        /\ \/ row # None /\ Only(c, <<"existing", row.request>>)
           \/ /\ row = None \/ ~Kept(call.key)
              /\ idempotency' = [idempotency EXCEPT ![call.key] = NewRecord(call)]
              /\ Answer(c, <<"created">>)
              /\ UNCHANGED <<campaigns, fundingOrders, claims, jobs, events>>

GetIdempotency(c) ==
    LET k == calls[c].call.key
        found == idempotency[k] # None /\ Kept(k)
    IN  /\ Asks(c, "getIdempotency")
        /\ Only(c, IF found THEN <<"done", idempotency[k]>> ELSE <<"null">>)

\* The call writes the record.
WriteRecord(c, row) ==
    LET k == calls[c].call.key
    IN  /\ idempotency' = [idempotency EXCEPT ![k] = row]
        /\ Answer(c, <<"done", row>>)
        /\ UNCHANGED <<campaigns, fundingOrders, claims, jobs, events>>

\* Callers ask for the lease of a record that they have found.
AcquireIdempotencyProcessingLease(c) ==
    LET call == calls[c].call
        row == idempotency[call.key]
        free == /\ row.state = "PROCESSING" /\ row.request = call.request /\ row.authorized
                /\ row.owner = None \/ row.lapsed
    IN  /\ Asks(c, "acquireIdempotencyProcessingLease")
        /\ \/ row = None /\ Only(c, <<"refused">>)
           \/ row # None /\ ~free /\ Only(c, <<"null">>)
           \/ /\ row # None /\ free
              /\ WriteRecord(c, [row EXCEPT !.owner = call.actor, !.lapsed = FALSE,
                                           !.version = @ + 1])

Owned(row, call) ==
    /\ row # None /\ row.state = "PROCESSING"
    /\ row.owner = call.actor /\ row.version = call.version /\ row.stage = call.stage

Follows == {<<"AUTHORIZED", "GENERATED">>, <<"GENERATED", "SETTLING">>,
            <<"SETTLING", "SETTLED">>, <<"SETTLING", "SETTLEMENT_UNKNOWN">>,
            <<"SETTLEMENT_UNKNOWN", "SETTLING">>}

AdvanceIdempotencyProcessing(c) ==
    LET call == calls[c].call
        row == idempotency[call.key]
        release == call.to = "SETTLEMENT_UNKNOWN"
        current == /\ Owned(row, call) /\ row.request = call.request /\ row.authorized
                   /\ <<call.stage, call.to>> \in Follows /\ call.renews = ~release
    IN  /\ Asks(c, "advanceIdempotencyProcessing")
        /\ \/ ~current /\ Only(c, <<"null">>)
           \/ /\ current
              /\ WriteRecord(c, [row EXCEPT !.stage = call.to, !.lapsed = FALSE,
                                           !.owner = IF release THEN None ELSE @,
                                           !.version = @ + 1])

\* The record with its result.
Concluded(row, result) ==
    [row EXCEPT !.state = result, !.stage = None, !.owner = None, !.lapsed = FALSE,
                !.version = @ + 1]

FinishOwnedIdempotency(c) ==
    LET call == calls[c].call
        row == idempotency[call.key]
    IN  /\ Asks(c, "finishOwnedIdempotency")
        /\ \/ ~Owned(row, call) /\ Only(c, <<"null">>)
           \/ Owned(row, call) /\ WriteRecord(c, Concluded(row, call.result))

\* completeIdempotency and failIdempotency
FinishIdempotency(c) ==
    LET call == calls[c].call
        row == idempotency[call.key]
        unowned == row # None /\ row.state = "PROCESSING" /\ row.owner = None
    IN  /\ Asks(c, "finishIdempotency")
        /\ \/ ~unowned /\ Only(c, <<"refused">>)
           \/ unowned /\ WriteRecord(c, Concluded(row, call.result))

-----------------------------------------------------------------------------
EnqueueJob(c) ==
    LET call == calls[c].call
        row == jobs[call.key]
        new == row = None \/ (call.reactivateDead /\ row.status = "DEAD")
    IN  /\ Asks(c, "enqueueJob")
        /\ jobs' = IF new THEN [jobs EXCEPT ![call.key] = NewJob] ELSE jobs
        /\ Answer(c, IF row = None THEN <<"created">> ELSE <<"existing">>)
        /\ UNCHANGED <<campaigns, fundingOrders, claims, idempotency, events>>

Leasable(k) ==
    /\ jobs[k] # None /\ jobs[k].attempts < MaxAttempts
    /\ jobs[k].status = "PENDING" \/ (jobs[k].status = "RUNNING" /\ jobs[k].lapsed)

\* Which of the jobs are due is left out, and a job that another worker is taking may
\* be skipped: the answer is any of those that can be leased, up to the limit.
LeaseJobs(c) ==
    LET call == calls[c].call
    IN  /\ Asks(c, "leaseJobs")
        /\ \E taken \in SUBSET {k \in JobKeys : Leasable(k)} :
              /\ Cardinality(taken) <= call.limit
              /\ jobs' = [k \in JobKeys |->
                            IF k \notin taken THEN jobs[k]
                            ELSE [status |-> "RUNNING", attempts |-> jobs[k].attempts + 1,
                                  owner |-> call.actor, lapsed |-> FALSE]]
              /\ Answer(c, <<"done", taken>>)
        /\ UNCHANGED <<campaigns, fundingOrders, claims, idempotency, events>>

\* What completeJob, rescheduleJob and failJob leave of the job of its owner.
EndedJob(row, how) ==
    CASE how = "complete" -> [row EXCEPT !.status = "SUCCEEDED", !.owner = None, !.lapsed = FALSE]
      [] how = "reschedule" -> NewJob
      [] how = "fail" -> [row EXCEPT !.status = IF row.attempts >= MaxAttempts THEN "DEAD"
                                                ELSE "PENDING",
                                     !.owner = None, !.lapsed = FALSE]

EndJob(c) ==
    LET call == calls[c].call
        row == jobs[call.key]
        owned == row # None /\ row.status = "RUNNING" /\ row.owner = call.actor
    IN  /\ Asks(c, "endJob")
        /\ \/ ~owned /\ Only(c, <<"null">>)
           \/ /\ owned
              /\ jobs' = [jobs EXCEPT ![call.key] = EndedJob(row, call.how)]
              /\ Answer(c, <<"done", jobs'[call.key]>>)
              /\ UNCHANGED <<campaigns, fundingOrders, claims, idempotency, events>>

Recorded(key) == key # None /\ \E i \in DOMAIN events : events[i].key = key

\* An event with a key is there once; one without is added by every call.
AppendEvent(c) ==
    LET call == calls[c].call
        event == [key |-> call.key, actor |-> call.actor]
    IN  /\ Asks(c, "appendEvent")
        /\ \/ /\ Recorded(call.key)
              /\ \E i \in DOMAIN events : events[i].key = call.key /\ Only(c, <<"done", events[i]>>)
           \/ /\ ~Recorded(call.key)
              /\ events' = Append(events, event)
              /\ Answer(c, <<"done", event>>)
              /\ UNCHANGED <<campaigns, fundingOrders, claims, idempotency, jobs>>

Read(c) ==
    \/ GetCampaign(c) \/ CountCampaigns(c) \/ ListCampaigns(c) \/ GetFundingOrder(c)
    \/ GetFundingOrderForCampaign(c) \/ GetClaim(c) \/ GetLiveLiabilities(c)
    \/ GetIdempotency(c) \/ ListEvents(c)

-----------------------------------------------------------------------------
\* Time passes: a lease runs out, a record expires.
Elapse ==
    /\ \/ \E k \in Stored(idempotency) :
             /\ \/ idempotency' = [idempotency EXCEPT ![k].expired = TRUE]
                \/ /\ idempotency[k].owner # None
                   /\ idempotency' = [idempotency EXCEPT ![k].lapsed = TRUE]
             /\ UNCHANGED jobs
       \/ \E k \in Stored(jobs) :
             /\ jobs[k].status = "RUNNING"
             /\ jobs' = [jobs EXCEPT ![k].lapsed = TRUE]
             /\ UNCHANGED idempotency
    /\ UNCHANGED <<campaigns, fundingOrders, claims, events, calls>>

Perform(c) ==
    \/ CreateCampaign(c) \/ UpdateCampaignDraft(c) \/ TransitionCampaign(c)
    \/ CreateFundingOrderIdempotent(c) \/ Meet(c) \/ CreateFundingOrderAndFreezeCampaign(c)
    \/ TransitionFundingOrder(c) \/ CreateClaimIdempotent(c) \/ SubmitClaimAtomically(c)
    \/ TransitionClaim(c) \/ FinalizeOneClickPayoutAtomically(c)
    \/ ReserveIdempotency(c) \/ AcquireIdempotencyProcessingLease(c)
    \/ AdvanceIdempotencyProcessing(c) \/ FinishOwnedIdempotency(c) \/ FinishIdempotency(c)
    \/ EnqueueJob(c) \/ LeaseJobs(c) \/ EndJob(c) \/ AppendEvent(c)
    \/ Read(c)

Next == Elapse \/ \E c \in Callers : Invoke(c) \/ Perform(c) \/ Throw(c) \/ Return(c)

Spec == Init /\ [][Next]_vars
===============================================================================
