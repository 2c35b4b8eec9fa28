----------------------------- MODULE FundingLedger -----------------------------
(***************************************************************************)
(* How a campaign of the NEAR product gets its prize: the creator drafts it,  *)
(* asks for a funding quote, pays it directly or through One Click, and the   *)
(* worker records the escrow's campaign in the ledger (the funding part of    *)
(* src/server/v2/services.ts and src/server/v2/chain/worker.ts, with          *)
(* external-funding-authorization.ts and chain/direct-funding-receipt.ts)     *)
(* over the contract of CrosswordCampaigns and the jobs of JobQueue.          *)
(* ClaimLedger starts where this module ends.                               *)
(*                                                                         *)
(* A request is an idempotency key: it has one reservation, at most one       *)
(* order and one funding reference, whatever calls repeat it.  Each database  *)
(* transaction and each chain transaction is a step.  An order is written     *)
(* only if its version is the one that was read, so that a read of it is one  *)
(* step with the write that follows; a call that has read another version     *)
(* fails.  What a call has read of the campaign before it asks for a quote,   *)
(* and what a job has read of the chain, is kept and used stale.              *)
(*                                                                         *)
(* Left out: events, formats, other fields of the evidence, and statuses that  *)
(* are handled like another one: PROCESSING and a routed DEPOSIT_DETECTED like *)
(* AWAITING_DEPOSIT; QUOTED is never written.  A provider quotes the deadline  *)
(* it is asked for, and speaks of a deposit only once it could be made.  The   *)
(* creator pays within the deadline, does not revoke an authorization, and    *)
(* may cancel before the opening; claims and refunds belong to ClaimLedger.   *)
(***************************************************************************)
EXTENDS CrosswordCampaigns, JobQueue

CONSTANTS
    Id,              \* the campaign
    Prize,           \* its reward
    Requests,        \* idempotency keys of funding quotes
    OneClick,        \* those that ask for the rail ONE_CLICK; the others are direct
    ReferenceOf,     \* request -> provider reference of its quote
    Calls,           \* calls of the services in progress at once
    QuoteWindow,     \* QUOTE_WINDOW_MS
    ReservationGrace,\* IDEMPOTENCY_GRACE_MS
    DirectGrace,     \* DIRECT_FUNDING_FINALITY_GRACE_MS
    ExternalGrace    \* EXTERNAL_FUNDING_ALLOCATION_GRACE_MS

ReconcileKey(q) == <<"reconcile", q>>
AllocateKey(q) == <<"allocate", q>>
LifecycleKey == <<"lifecycle", Id>>

ASSUME FundingAssumption ==
    /\ \A spec \in Specs : spec.id = Id
    /\ Prize \in Nat \ {0} /\ Prize <= MaxPrize
    /\ OneClick \subseteq Requests
    /\ ReferenceOf \in [Requests -> References]
    /\ \A q, p \in Requests : ReferenceOf[q] = ReferenceOf[p] => q = p
    /\ {QuoteWindow, ReservationGrace, ExternalGrace} \subseteq Nat /\ DirectGrace \in Nat \ {0}
    /\ Keys = {ReconcileKey(q) : q \in Requests} \cup {AllocateKey(q) : q \in OneClick}
                \cup {LifecycleKey}

VARIABLES
    cstatus,       \* v2_campaigns.status
    terms,         \* the terms of the campaign row
    orders,        \* v2_funding_orders: request -> row
    reservations,  \* v2_idempotency_records: request -> row
    provider,      \* what One Click says of a routed order, mapped by mapStatus
    revealed,      \* requests whose deposit address was handed out
    calls,         \* what each call of the services is doing
    runs           \* what each worker is processing

Direct == Requests \ OneClick

OrderStatuses == {"NONE", "AWAITING_DEPOSIT", "DEPOSIT_DETECTED", "INCOMPLETE", "SETTLED",
                  "ALLOCATING", "ALLOCATED", "REFUNDED", "FAILED", "EXPIRED"}

\* receipt: a direct order has its deposit_tx_hash.
OrderRow == [status : OrderStatuses, terms : Specs \cup {None}, expires : Nat,
             receipt : BOOLEAN]

Reservation == [state : {"PROCESSING", "COMPLETED", "FAILED"}, hash : Specs, until : Nat]

NoOrder == [status |-> "NONE", terms |-> None, expires |-> 0, receipt |-> FALSE]

\* A call: its request, its stage, the campaign status and terms it has loaded, whether
\* that row is unchanged, and its clock.
Call == [q : Requests, stage : {"loaded", "reserved", "created", "enqueued", "revive",
                                "ensure", "persist"},
         seen : {None, "DRAFT", "FUNDING", "SCHEDULED", "ACTIVE"}, terms : Specs \cup {None},
         fresh : BOOLEAN, at : Nat]

\* A worker's run: the job, whether this is its last attempt, the clock of the batch, the
\* stage and the campaign status it has derived from the chain.
Run == [job : Keys, last : BOOLEAN, at : Nat,
        stage : {"leased", "ensure", "activate", "verify", "campaign", "order", "lifecycle",
                 "done", "again"},
        target : {None, "SCHEDULED", "ACTIVE"}]

ASSUME AbsenceAssumption == None \notin Calls \cup Reservation

rows == <<cstatus, terms, orders, reservations>>
fundingVars == <<vars, jobs, rows, provider, revealed, calls, runs>>

FundingInit ==
    /\ Init
    /\ jobs = [k \in Keys |-> Row("NONE", 0)]
    /\ cstatus = "DRAFT" /\ terms \in Specs
    /\ orders = [q \in Requests |-> NoOrder]
    /\ reservations = [q \in Requests |-> None]
    /\ provider = [q \in OneClick |-> "AWAITING_DEPOSIT"]
    /\ revealed = {}
    /\ calls = [k \in Calls |-> None]
    /\ runs = [w \in Workers |-> None]

-----------------------------------------------------------------------------
(* The campaign and its orders.                                             *)

Closed == {"NONE", "REFUNDED", "FAILED", "EXPIRED"}

\* The rows of the unique index v2_funding_orders_open_campaign.
OpenOrders == {q \in Requests : orders[q].status \notin Closed}

\* The write of an order's status fails where it would open a second order.
SetOrder(q, row) ==
    /\ row.status \notin Closed => OpenOrders \subseteq {q}
    /\ orders' = [orders EXCEPT ![q] = row]

\* The other calls after a step: their campaign row is stale once it has changed.
Stale(k) ==
    [c \in Calls |-> IF c = k \/ calls[c] = None THEN calls[c]
                     ELSE [calls[c] EXCEPT !.fresh = @ /\ <<cstatus, terms>>' = <<cstatus, terms>>]]

GotoCall(k, stage) == calls' = [Stale(k) EXCEPT ![k].stage = stage]
EndOf(k) == calls' = [Stale(k) EXCEPT ![k] = None]

\* The call goes on with its request only.
GotoForgetting(k, q, stage) ==
    calls' = [Stale(k) EXCEPT ![k] = [q |-> q, stage |-> stage, seen |-> None, terms |-> None,
                                      fresh |-> FALSE, at |-> 0]]

InCall(k, stages) == calls[k] # None /\ calls[k].stage \in stages

\* status_view of what get_campaign returns.
ChainState ==
    IF campaigns[Id].status.state = "Scheduled" /\ now >= campaigns[Id].spec.opens
    THEN "Active" ELSE campaigns[Id].status.state

\* assertAllocationMatches and assertCampaignReceipt, but for the state of the campaign.
Matches(q) ==
    /\ campaigns[Id] # None
    /\ campaigns[Id].spec = terms
    /\ campaigns[Id].amount = Prize
    /\ campaigns[Id].reference = ReferenceOf[q]
    /\ campaigns[Id].rail = IF q \in OneClick THEN "intents" ELSE "direct_usdc"

\* patchCampaign: the client's version is the row's.
PatchCampaign(spec) ==
    /\ cstatus = "DRAFT" /\ spec # terms
    /\ terms' = spec
    /\ UNCHANGED <<vars, jobs, cstatus, orders, reservations, provider, revealed, runs>>
    /\ calls' = Stale(None)

-----------------------------------------------------------------------------
(* createFundingQuote.                                                      *)

Grace(q) == IF q \in OneClick THEN ExternalGrace ELSE DirectGrace

LoadCampaign(k, q) ==
    /\ calls[k] = None
    /\ terms.expires > now + QuoteWindow + Grace(q)
    /\ calls' = [calls EXCEPT ![k] = [q |-> q, stage |-> "loaded", seen |-> cstatus,
                     terms |-> terms, fresh |-> TRUE, at |-> now]]
    /\ UNCHANGED <<vars, jobs, rows, provider, revealed, runs>>

\* getIdempotency finds the reservation.
Reserved(q) == reservations[q] # None

\* reserveIdempotency, for a new quote or for an order whose reservation has expired.
Reserve(k) ==
    LET call == calls[k]
        q == call.q
    IN  /\ InCall(k, {"loaded"})
        /\ ~Reserved(q)
        /\ \/ orders[q].status # "NONE"
           \/ call.seen = "DRAFT"
           \/ call.seen = "FUNDING" /\ OpenOrders = {}
        /\ reservations' = [reservations EXCEPT ![q] =
               [state |-> "PROCESSING", hash |-> call.terms,
                until |-> call.at + QuoteWindow + ReservationGrace]]
        /\ UNCHANGED <<vars, jobs, cstatus, terms, orders, provider, revealed, runs>>
        /\ GotoCall(k, "reserved")

\* recoverFundingQuote: the request has its order already, or another call has just created
\* it.
Recover(k) ==
    LET call == calls[k]
        q == call.q
        record == reservations[q]
    IN  /\ InCall(k, {"loaded", "reserved"})
        /\ orders[q].status # "NONE"
        /\ Reserved(q)
        /\ record.hash = call.terms /\ orders[q].terms = call.terms
        /\ \/ /\ call.seen = "DRAFT" /\ orders[q].status \notin Closed
              /\ \/ call.fresh /\ cstatus' = "FUNDING"
                 \/ ~call.fresh /\ cstatus = "FUNDING" /\ UNCHANGED cstatus
           \/ /\ call.seen # "DRAFT" \/ orders[q].status \in Closed
              /\ UNCHANGED cstatus
        /\ record.state # "FAILED"
        /\ reservations' = [reservations EXCEPT ![q].state = "COMPLETED"]
        /\ UNCHANGED <<vars, jobs, terms, orders, provider, revealed, runs>>
        /\ GotoForgetting(k, q, "revive")

NewOrder(call) ==
    [status |-> "AWAITING_DEPOSIT", terms |-> call.terms, expires |-> call.at + QuoteWindow,
     receipt |-> FALSE]

\* What an order of this call adds to the table.
InsertOrder(k) ==
    /\ orders[calls[k].q].status = "NONE"
    /\ SetOrder(calls[k].q, NewOrder(calls[k]))
    /\ UNCHANGED <<vars, jobs, terms, reservations, provider, revealed, runs>>
    /\ GotoForgetting(k, calls[k].q, "created")

\* A mutant that freezes whatever draft is there.
FreezeAnyDraft(k) ==
    /\ InCall(k, {"reserved"}) /\ calls[k].seen = "DRAFT" /\ cstatus = "DRAFT"
    /\ cstatus' = "FUNDING"
    /\ InsertOrder(k)

\* createFundingOrderAndFreezeCampaign: the draft is the one that was quoted.
CreateOrderAndFreeze(k) ==
    /\ InCall(k, {"reserved"}) /\ calls[k].seen = "DRAFT" /\ calls[k].fresh
    /\ cstatus = "DRAFT" /\ cstatus' = "FUNDING"
    /\ InsertOrder(k)

\* createFundingOrderIdempotent: the campaign is frozen already.
CreateOrder(k) ==
    /\ InCall(k, {"reserved"}) /\ calls[k].seen = "FUNDING"
    /\ UNCHANGED cstatus
    /\ InsertOrder(k)

EnqueueReconciliation(k) ==
    /\ InCall(k, {"created"})
    /\ jobs' = Enqueued(ReconcileKey(calls[k].q), FALSE)
    /\ UNCHANGED <<vars, rows, provider, revealed, runs>>
    /\ GotoCall(k, "enqueued")

\* completeQuoteIdempotency
CompleteQuote(k) ==
    LET q == calls[k].q
    IN  /\ InCall(k, {"enqueued"})
        /\ Reserved(q) /\ reservations[q].state # "FAILED"
        /\ reservations' = [reservations EXCEPT ![q].state = "COMPLETED"]
        /\ UNCHANGED <<vars, jobs, cstatus, terms, orders, provider, revealed, runs>>
        /\ EndOf(k)

\* A mutant that does not look for an order first.
FailAnyQuote(k) ==
    /\ InCall(k, {"reserved", "created"})
    /\ Reserved(calls[k].q)
    /\ reservations' = [reservations EXCEPT ![calls[k].q].state = "FAILED"]
    /\ UNCHANGED <<vars, jobs, cstatus, terms, orders, provider, revealed, runs>>
    /\ EndOf(k)

\* The provider has no quote, the campaign has changed, or another order is open.
FailQuote(k) ==
    LET q == calls[k].q
    IN  /\ InCall(k, {"reserved"})
        /\ orders[q].status = "NONE"
        /\ Reserved(q) /\ reservations[q].state = "PROCESSING"
        /\ reservations' = [reservations EXCEPT ![q].state = "FAILED"]
        /\ UNCHANGED <<vars, jobs, cstatus, terms, orders, provider, revealed, runs>>
        /\ EndOf(k)

\* reviveFundingReconciliationAfterReplay, and the last step of a receipt or of the
\* refresh of an expired order.
ReviveReconciliation(k) ==
    /\ InCall(k, {"revive"})
    /\ jobs' = Enqueued(ReconcileKey(calls[k].q), TRUE)
    /\ UNCHANGED <<vars, rows, provider, revealed, runs>>
    /\ EndOf(k)

\* A call throws or its server dies.
EndCall(k) ==
    /\ calls[k] # None
    /\ UNCHANGED <<vars, jobs, rows, provider, revealed, runs>>
    /\ EndOf(k)

-----------------------------------------------------------------------------
(* verifyExternalFundingAuthorization, recordDirectFundingReceipt,          *)
(* refreshFundingOrder.                                                     *)

\* LIVE_ONE_CLICK_STATUSES
Live(q) == orders[q].status \in {"AWAITING_DEPOSIT", "SETTLED", "ALLOCATING", "INCOMPLETE"}

\* getExternalFundingAuthorization and assertAuthorizationMatches.
Authorized(q) ==
    LET auth == authorizations[ReferenceOf[q]]
    IN  /\ auth # None
        /\ now <= auth.deadline
        /\ auth.campaign.spec = terms /\ auth.campaign.amount = Prize
        /\ auth.deadline = orders[q].expires + ExternalGrace

\* A mutant that does not ask the contract.
RevealAtOnce(k, q) ==
    /\ calls[k] = None
    /\ q \in OneClick \ revealed /\ Live(q) /\ now < orders[q].expires
    /\ GotoForgetting(k, q, "persist")
    /\ UNCHANGED <<vars, jobs, rows, provider, revealed, runs>>

\* The creator has committed itself to the terms on chain.
VerifyAuthorization(k, q) ==
    /\ calls[k] = None
    /\ q \in OneClick \ revealed /\ Live(q) /\ now < orders[q].expires
    /\ Authorized(q)
    /\ UNCHANGED <<vars, jobs, rows, provider, revealed, runs>>
    /\ GotoForgetting(k, q, "persist")

\* persistVerification; the answer names the deposit address.
PersistVerification(k) ==
    LET q == calls[k].q
    IN  /\ InCall(k, {"persist"})
        /\ Live(q)
        /\ revealed' = revealed \cup {q}
        /\ UNCHANGED <<vars, jobs, rows, provider, runs>>
        /\ EndOf(k)

\* The creator's transaction made the campaign; the contract may be past it already.
RecordDirectReceipt(k, q) ==
    /\ calls[k] = None
    /\ q \in Direct /\ ~orders[q].receipt
    /\ orders[q].status \in {"AWAITING_DEPOSIT", "DEPOSIT_DETECTED", "EXPIRED", "ALLOCATED"}
    /\ Matches(q)
    /\ SetOrder(q, [orders[q] EXCEPT !.receipt = TRUE,
                       !.status = IF @ = "ALLOCATED" THEN @ ELSE "DEPOSIT_DETECTED"])
    /\ UNCHANGED <<vars, jobs, cstatus, terms, reservations, provider, revealed, runs>>
    /\ GotoForgetting(k, q, "revive")

\* The observation of the rail: One Click's status, and nothing for a direct transfer.
Observed(q) == IF q \in OneClick THEN provider[q] ELSE "AWAITING_DEPOSIT"

\* An observation replaces the receipt.
RefreshFundingOrder(k, q) ==
    LET row == orders[q]
        past == q \in Direct /\ row.status = "AWAITING_DEPOSIT" /\ now >= row.expires + DirectGrace
    IN  /\ calls[k] = None
        /\ row.status \notin {"NONE", "ALLOCATED", "REFUNDED", "FAILED"}
        /\ UNCHANGED <<vars, jobs, cstatus, terms, reservations, provider, revealed, runs>>
        /\ \/ /\ row.status = "SETTLED"
              /\ UNCHANGED orders /\ GotoForgetting(k, q, "ensure")
           \/ /\ row.status = "EXPIRED" /\ q \in Direct
              /\ UNCHANGED orders /\ GotoForgetting(k, q, "revive")
           \/ /\ past
              /\ orders' = [orders EXCEPT ![q].status = "EXPIRED"]
              /\ UNCHANGED calls
           \/ /\ ~past /\ row.status \notin {"SETTLED", "EXPIRED"} /\ Observed(q) # row.status
              /\ orders' = [orders EXCEPT ![q].status = Observed(q),
                               ![q].receipt = FALSE]
              /\ IF Observed(q) = "SETTLED" THEN GotoForgetting(k, q, "ensure")
                 ELSE UNCHANGED calls

\* ensureAllocationJob
EnsureAllocation(k) ==
    /\ InCall(k, {"ensure"})
    /\ jobs' = Enqueued(AllocateKey(calls[k].q), TRUE)
    /\ UNCHANGED <<vars, rows, provider, revealed, runs>>
    /\ EndOf(k)

-----------------------------------------------------------------------------
(* The worker.                                                              *)

At(w, stages) == runs[w] # None /\ runs[w].stage \in stages

JobOf(w, kind) == runs[w].job[1] = kind
RequestOf(w) == runs[w].job[2]

Goto(w, stage) == runs' = [runs EXCEPT ![w].stage = stage]

LeaseJob(w, k) ==
    /\ runs[w] = None
    /\ k # LifecycleKey /\ Leasable(k)
    /\ jobs' = Leased(k, w)
    /\ runs' = [runs EXCEPT ![w] = [job |-> k, last |-> jobs[k].attempts + 1 >= MaxAttempts,
                    at |-> IF k[1] = "reconcile" /\ k[2] \in Direct THEN now ELSE 0,
                    stage |-> "leased", target |-> None]]
    /\ UNCHANGED <<vars, rows, provider, revealed, calls>>

Finish(w) ==
    /\ At(w, {"done", "again"})
    /\ jobs' = IF runs[w].stage = "done" THEN Completed(runs[w].job, w)
               ELSE Rescheduled(runs[w].job, w)
    /\ runs' = [runs EXCEPT ![w] = None]
    /\ UNCHANGED <<vars, rows, provider, revealed, calls>>

\* The handler throws; markAllocationIncomplete first, in the last attempt of an
\* allocation, and that may fail too.
Throw(w) ==
    /\ runs[w] # None
    /\ \/ UNCHANGED orders
       \/ /\ JobOf(w, "allocate") /\ runs[w].last
          /\ orders[RequestOf(w)].status = "ALLOCATING"
          /\ orders' = [orders EXCEPT ![RequestOf(w)].status = "INCOMPLETE"]
    /\ jobs' = Failed(runs[w].job, w)
    /\ runs' = [runs EXCEPT ![w] = None]
    /\ UNCHANGED <<vars, cstatus, terms, reservations, provider, revealed, calls>>

\* The process dies, and its lease runs out: leaseJobs then takes the row like a pending
\* one.  Not in the last attempt, after which nobody takes it and it stays RUNNING: what is
\* left unfinished here is work that will be taken up again.
Die(w) ==
    LET k == runs[w].job
    IN  /\ runs[w] # None /\ (Owns(w, k) => Leasable(k))
        /\ jobs' = IF Owns(w, k) THEN [jobs EXCEPT ![k] = Row("PENDING", @.attempts)] ELSE jobs
        /\ runs' = [runs EXCEPT ![w] = None]
        /\ UNCHANGED <<vars, rows, provider, revealed, calls>>

\* The campaign is in escrow under this order, and open (campaignTargetState).
Escrowed(q) == Matches(q) /\ ChainState \in {"Scheduled", "Active"}

GotoTarget(w) ==
    runs' = [runs EXCEPT ![w].stage = "campaign",
                ![w].target = IF ChainState = "Scheduled" THEN "SCHEDULED" ELSE "ACTIVE"]

\* processAllocation finds the campaign on chain, or marks the order before it sends.
StartAllocation(w) ==
    LET q == RequestOf(w)
    IN  /\ At(w, {"leased"}) /\ JobOf(w, "allocate")
        /\ orders[q].status \in {"SETTLED", "ALLOCATING"}
        /\ UNCHANGED <<vars, jobs, cstatus, terms, reservations, provider, revealed, calls>>
        /\ \/ Escrowed(q) /\ UNCHANGED orders /\ GotoTarget(w)
           \/ /\ campaigns[Id] = None /\ orders[q].status = "SETTLED"
              /\ orders' = [orders EXCEPT ![q].status = "ALLOCATING"]
              /\ Goto(w, "activate")

\* allocateExternalFunding
Activate(w) ==
    /\ At(w, {"activate"})
    /\ ActivateExternalFunding(Operator, ReferenceOf[RequestOf(w)], Id)
    /\ Goto(w, "verify")
    /\ UNCHANGED <<jobs, rows, provider, revealed, calls>>

\* A mutant that takes the transaction's success for the allocation.
TrustAllocation(w) ==
    /\ At(w, {"verify"})
    /\ runs' = [runs EXCEPT ![w].stage = "campaign", ![w].target = "SCHEDULED"]
    /\ UNCHANGED <<vars, jobs, rows, provider, revealed, calls>>

\* verifiedCampaign; a worker that waits in vain throws.
VerifyAllocation(w) ==
    /\ At(w, {"verify"})
    /\ Escrowed(RequestOf(w))
    /\ GotoTarget(w)
    /\ UNCHANGED <<vars, jobs, rows, provider, revealed, calls>>

AllocatableStates(q) ==
    IF q \in OneClick THEN {"SETTLED", "ALLOCATING"}
    ELSE {"AWAITING_DEPOSIT", "DEPOSIT_DETECTED", "EXPIRED"}

\* transitionAllocationLedger, the campaign.
RecordCampaign(w) ==
    LET q == RequestOf(w)
    IN  /\ At(w, {"campaign"})
        /\ orders[q].status \in AllocatableStates(q) \cup {"ALLOCATED"}
        /\ cstatus \in {"FUNDING", "SCHEDULED", "ACTIVE"}
        /\ cstatus' = runs[w].target
        /\ UNCHANGED <<vars, jobs, terms, orders, reservations, provider, revealed>>
        /\ calls' = Stale(None)
        /\ runs' = [runs EXCEPT ![w].stage = "order", ![w].target = None]

\* transitionAllocationLedger, the order; the evidence is kept.
RecordOrder(w) ==
    LET q == RequestOf(w)
    IN  /\ At(w, {"order"})
        /\ orders[q].status \in AllocatableStates(q) \cup {"ALLOCATED"}
        /\ SetOrder(q, [orders[q] EXCEPT !.status = "ALLOCATED"])
        /\ Goto(w, "lifecycle")
        /\ UNCHANGED <<vars, jobs, cstatus, terms, reservations, provider, revealed, calls>>

\* enqueueCampaignLifecycle
EnqueueLifecycle(w) ==
    /\ At(w, {"lifecycle"})
    /\ jobs' = Enqueued(LifecycleKey, FALSE)
    /\ Goto(w, "done")
    /\ UNCHANGED <<vars, rows, provider, revealed, calls>>

InReconciliation(w) == At(w, {"leased"}) /\ JobOf(w, "reconcile")

Terminal(q) == orders[q].status \in {"REFUNDED", "FAILED"} \cup IF q \in Direct THEN {} ELSE {"EXPIRED"}

\* processFundingReconciliation finds the campaign on chain.
ReconcileEscrowed(w) ==
    LET q == RequestOf(w)
    IN  /\ InReconciliation(w) /\ ~Terminal(q)
        /\ q \in Direct \/ orders[q].status \in {"SETTLED", "ALLOCATING", "ALLOCATED"}
        /\ Escrowed(q)
        /\ GotoTarget(w)
        /\ UNCHANGED <<vars, jobs, rows, provider, revealed, calls>>

ReconcileTerminal(w) ==
    /\ InReconciliation(w) /\ Terminal(RequestOf(w))
    /\ Goto(w, "done")
    /\ UNCHANGED <<vars, jobs, rows, provider, revealed, calls>>

\* A mutant that waits no longer than the quote for the transfer.
ReconcileDirectAtOnce(w) ==
    LET q == RequestOf(w)
    IN  /\ InReconciliation(w) /\ q \in Direct /\ orders[q].status # "ALLOCATED"
        /\ campaigns[Id] = None
        /\ UNCHANGED <<vars, jobs, cstatus, terms, reservations, provider, revealed, calls>>
        /\ orders' = [orders EXCEPT ![q].status = "EXPIRED"]
        /\ Goto(w, "done")

\* A direct transfer that has not arrived: wait for it until it can no longer be final.
ReconcileDirect(w) ==
    LET q == RequestOf(w)
    IN  /\ InReconciliation(w) /\ q \in Direct /\ orders[q].status # "ALLOCATED"
        /\ campaigns[Id] = None
        /\ UNCHANGED <<vars, jobs, cstatus, terms, reservations, provider, revealed, calls>>
        /\ IF orders[q].status = "EXPIRED" THEN UNCHANGED orders /\ Goto(w, "done")
           ELSE IF runs[w].at >= orders[q].expires + DirectGrace
           THEN /\ orders' = [orders EXCEPT ![q].status = "EXPIRED"]
                /\ Goto(w, "done")
           ELSE UNCHANGED orders /\ Goto(w, "again")

\* A routed order follows the provider, or has its prize and waits for the allocation.
ReconcileRouted(w) ==
    LET q == RequestOf(w)
        status == IF orders[q].status = "SETTLED" THEN "SETTLED" ELSE provider[q]
    IN  /\ InReconciliation(w) /\ q \in OneClick
        /\ orders[q].status # "ALLOCATED" /\ ~Terminal(q)
        /\ orders[q].status \in {"SETTLED", "ALLOCATING"} => campaigns[Id] = None
        /\ orders' = [orders EXCEPT ![q].status = status]
        /\ Goto(w, CASE status = "SETTLED" -> "ensure"
                     [] status \in {"REFUNDED", "FAILED"} -> "done"
                     [] OTHER -> "again")
        /\ UNCHANGED <<vars, jobs, cstatus, terms, reservations, provider, revealed, calls>>

\* A mutant that enqueues nothing.
SkipAllocationJob(w) ==
    /\ At(w, {"ensure"})
    /\ Goto(w, "done")
    /\ UNCHANGED <<vars, jobs, rows, provider, revealed, calls>>

\* The worker's ensureAllocationJob.
EnsureAllocationJob(w) ==
    /\ At(w, {"ensure"})
    /\ jobs' = Enqueued(AllocateKey(RequestOf(w)), TRUE)
    /\ Goto(w, "again")
    /\ UNCHANGED <<vars, rows, provider, revealed, calls>>

-----------------------------------------------------------------------------
(* The world: the creator, the provider and the chain.                      *)

\* The creator carries out the instructions of an order.
Pay(q, name) ==
    /\ orders[q].status # "NONE" /\ now <= orders[q].expires
    /\ \/ /\ q \in Direct
          /\ FtTransferCall(name, orders[q].terms, Prize, ReferenceOf[q], orders[q].expires)
       \/ /\ q \in OneClick
          /\ AuthorizeExternalFunding(orders[q].terms.creator, orders[q].terms, Prize,
                                      ReferenceOf[q], "intents", orders[q].expires + ExternalGrace)

\* A reservation that has expired is invisible, and deleted before the next one is made.
\* A call times out (funding/one-click.ts:373, 12 s) long before its reservation expires (360 s).
TimePasses ==
    /\ Tick
    /\ \A k \in Calls : InCall(k, {"reserved", "created", "enqueued"}) =>
          ~Reserved(calls[k].q) \/ reservations[calls[k].q].until > now'
    /\ reservations' = [q \in Requests |->
           IF reservations[q] # None /\ reservations[q].until <= now' THEN None ELSE reservations[q]]
    /\ UNCHANGED <<jobs, cstatus, terms, orders, provider, revealed, calls, runs>>

ChainMoves ==
    /\ \/ \E q \in Requests, name \in Transfers : Pay(q, name)
       \/ \E t \in inbound : FtOnTransferAccept(t) \/ FtOnTransferReject(t) \/ FtResolveTransfer(t)
       \/ \E query \in queries : FtBalanceOf(query) \/ OnExternalFundingBalance(query)
       \/ campaigns[Id] # None /\ CancelBeforeOpen(campaigns[Id].spec.creator, Id)
    /\ UNCHANGED <<jobs, rows, provider, revealed, calls, runs>>

\* One Click gets the deposit at the address that the creator was shown, and delivers the
\* prize to the escrow account, or fails.
ProviderMoves(q) ==
    /\ UNCHANGED <<jobs, rows, revealed, calls, runs>>
    /\ provider[q] = "AWAITING_DEPOSIT" /\ q \in revealed
    /\ \/ provider' = [provider EXCEPT ![q] = "SETTLED"] /\ ProviderDeposit(Prize)
       \/ provider' = [provider EXCEPT ![q] = "FAILED"] /\ UNCHANGED vars

Service(k) ==
    \/ \E q \in Requests : \/ LoadCampaign(k, q) \/ VerifyAuthorization(k, q)
                           \/ RecordDirectReceipt(k, q) \/ RefreshFundingOrder(k, q)
    \/ Reserve(k) \/ Recover(k) \/ CreateOrderAndFreeze(k) \/ CreateOrder(k)
    \/ EnqueueReconciliation(k) \/ CompleteQuote(k) \/ FailQuote(k) \/ ReviveReconciliation(k) \/ EndCall(k)
    \/ PersistVerification(k) \/ EnsureAllocation(k)

Process(w) ==
    \/ StartAllocation(w) \/ Activate(w) \/ VerifyAllocation(w)
    \/ RecordCampaign(w) \/ RecordOrder(w) \/ EnqueueLifecycle(w)
    \/ ReconcileEscrowed(w) \/ ReconcileTerminal(w) \/ ReconcileDirect(w)
    \/ ReconcileRouted(w) \/ EnsureAllocationJob(w)

Worker(w) ==
    \/ \E k \in Keys : LeaseJob(w, k)
    \/ Process(w) \/ Finish(w) \/ Throw(w) \/ Die(w)

FundingNext ==
    \/ TimePasses \/ ChainMoves
    \/ \E q \in OneClick : ProviderMoves(q)
    \/ \E spec \in Specs : PatchCampaign(spec)
    \/ \E k \in Calls : Service(k)
    \/ \E w \in Workers : Worker(w)

FundingSpec == FundingInit /\ [][FundingNext]_fundingVars

-----------------------------------------------------------------------------
(* Properties.                                                              *)

FundingTypeOK ==
    /\ TypeOK
    /\ jobs \in [Keys -> JobRow]
    /\ cstatus \in {"DRAFT", "FUNDING", "SCHEDULED", "ACTIVE"} /\ terms \in Specs
    /\ orders \in [Requests -> OrderRow]
    /\ reservations \in [Requests -> Reservation \cup {None}]
    /\ provider \in [OneClick -> OrderStatuses]
    /\ revealed \subseteq OneClick
    /\ calls \in [Calls -> Call \cup {None}]
    /\ runs \in [Workers -> Run \cup {None}]

\* A prize is quoted for terms that can no longer change, and at most one order for it is
\* open at a time.
QuotedIsFrozen ==
    /\ Cardinality(OpenOrders) <= 1
    /\ \A q \in Requests :
          orders[q].status # "NONE" => cstatus # "DRAFT" /\ orders[q].terms = terms

\* The order's prize is, or was, in escrow.
InEscrow(q) ==
    /\ campaigns[Id] # None
    /\ campaigns[Id].spec = orders[q].terms /\ campaigns[Id].amount = Prize
    /\ campaigns[Id].reference = ReferenceOf[q]

\* The ledger opens a campaign, and calls an order allocated, only for a prize that the
\* escrow holds, or held, on the very terms and under the reference of that order; the
\* lifecycle job, with which ClaimLedger starts, finds both recorded.
RecordedIsEscrowed ==
    /\ cstatus \in {"SCHEDULED", "ACTIVE"} => \E q \in Requests : InEscrow(q)
    /\ \A q \in Requests : orders[q].status = "ALLOCATED" => InEscrow(q)
    /\ jobs[LifecycleKey].status # "NONE" =>
          cstatus \in {"SCHEDULED", "ACTIVE"} /\ \E q \in Requests : orders[q].status = "ALLOCATED"

\* A deposit address is handed out only after the creator has committed the quoted terms
\* on chain: the deposit can go into no other campaign.
RevealedIsAuthorized ==
    \A q \in revealed :
       LET r == ReferenceOf[q]
       IN  \/ r \in used
           \/ /\ authorizations[r] # None
              /\ authorizations[r].campaign.spec = terms /\ authorizations[r].campaign.amount = Prize

FundingAgrees == FundingTypeOK /\ QuotedIsFrozen /\ RecordedIsEscrowed /\ RevealedIsAuthorized

Unfinished(k) == jobs[k].status \in {"PENDING", "RUNNING", "DEAD"}

\* A retry of the request will find its order and enqueue its job.
Replayable(q) == Reserved(q) => reservations[q].state # "FAILED"

\* Money that is on its way is not dropped.  The reconciliation of an order has not
\* succeeded while the order is neither allocated nor closed, nor while the prize it paid for
\* is in escrow and the lifecycle job is missing, even if the ledger gave the order up in
\* the meantime; and if the job was never enqueued, a retry of the quote makes good for it.
FundingCarriedOn ==
    \A q \in Requests :
       \/ orders[q].status \in Closed /\ ~InEscrow(q)
       \/ orders[q].status = "ALLOCATED" /\ jobs[LifecycleKey].status # "NONE"
       \/ Unfinished(ReconcileKey(q))
       \/ jobs[ReconcileKey(q)].status = "NONE" /\ Replayable(q)
===============================================================================
