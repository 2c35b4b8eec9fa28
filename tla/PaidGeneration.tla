---------------------------- MODULE PaidGeneration ----------------------------
(***************************************************************************)
(* Paid AI generation (src/server/v2/x402-ai.ts) over the idempotency records *)
(* of src/server/v2/postgres-repository.ts: one x402 payment buys one draft.  *)
(* The record of a payment identifier goes through AUTHORIZED, GENERATED,     *)
(* SETTLING and SETTLED; a request works on it under a lease, and the payment *)
(* is settled by a facilitator outside.                                     *)
(*                                                                         *)
(* A request is a row of steps: each query, the generator and the facilitator *)
(* are awaited, other requests run in between, and the process may die at any *)
(* of them.  A write in the try block may also fail, before or after it is    *)
(* committed; the request then goes through the catch block.                 *)
(*                                                                         *)
(* A header stands for a PAYMENT-SIGNATURE and its digest.  Owner ids are     *)
(* random, and every write of an owner changes the stage, so owner and stage  *)
(* determine processing_version: a write that finds both finds the version.   *)
(* Left out: records that predate the digest, malformed stored bodies, mock    *)
(* mode, events, and the cancellation of a verification.                     *)
(***************************************************************************)
EXTENDS Naturals, FiniteSets

CONSTANTS
    Ids,         \* payment identifiers
    Headers,     \* PAYMENT-SIGNATUREs
    IdOf,        \* header -> payment identifier
    Bodies,      \* request bodies, by hash
    Results,     \* what the generator may return
    Requests,    \* requests that may be served at once
    Campaigns,   \* campaigns that may be created with a receipt
    Faulty,      \* the stages at which a write of a request may fail
    MaxMishaps,  \* bound on deaths, failed writes, lost answers and overrun leases
    None

ASSUME HeadersAssumption == IdOf \in [Headers -> Ids] /\ MaxMishaps \in Nat

VARIABLES
    rows,       \* v2_idempotency_records of the scope: payment identifier -> row
    requests,   \* the requests in progress
    orphans,    \* settlement orders that nobody waits for any more
    charged,    \* the headers that were settled on chain
    delivered,  \* the drafts handed out
    linked,     \* v2_campaigns.ai_payment_identifier
    mishaps

vars == <<rows, requests, orphans, charged, delivered, linked, mishaps>>

Stages == {"AUTHORIZED", "GENERATED", "SETTLING", "SETTLED", "SETTLEMENT_UNKNOWN"}

Row == [state : {"PROCESSING", "COMPLETED", "FAILED"}, header : Headers, body : Bodies,
        stage : Stages \cup {None}, owner : Requests \cup {None}, expired : BOOLEAN,
        result : Results \cup {None}]

Places == {"found none", "verified", "known", "owner", "generated", "settling", "paid",
           "declined", "in doubt", "failing", "closing"}

\* at: the await; held and result: what the request last read or wrote of its row;
\* order: its settlement; recovering: it settles again after an uncertain settlement.
Request == [at : Places, header : Headers, body : Bodies, held : Stages \cup {None},
            result : Results \cup {None}, recovering : BOOLEAN,
            order : {"none", "sent", "executed", "refused"}]

\* None is no value of its own.
ASSUME NoneAssumption ==
    /\ None \notin Headers \cup Bodies \cup Results \cup Requests \cup Ids \cup Stages
    /\ None \notin Row /\ None \notin Request

TypeOK ==
    /\ rows \in [Ids -> Row \cup {None}]
    /\ requests \in [Requests -> Request \cup {None}]
    /\ orphans \subseteq Headers /\ charged \subseteq Headers
    /\ delivered \subseteq [id : Ids, body : Bodies, result : Results]
    /\ linked \in [Campaigns -> Ids \cup {None}]
    /\ mishaps \in 0 .. MaxMishaps

Init ==
    /\ rows = [id \in Ids |-> None]
    /\ requests = [r \in Requests |-> None]
    /\ orphans = {} /\ charged = {} /\ delivered = {}
    /\ linked = [c \in Campaigns |-> None]
    /\ mishaps = 0

external == <<orphans, charged, linked>>

At(r, place) == requests[r] # None /\ requests[r].at = place
Id(r) == IdOf[requests[r].header]

Goto(r, place) == requests' = [requests EXCEPT ![r].at = place]
End(r) == requests' = [requests EXCEPT ![r] = None]

-----------------------------------------------------------------------------
(* The queries.                                                             *)

\* A mutant that goes by the payment identifier alone.
AnyIdentity(row, header, body) == TRUE

\* assertStoredIdentity, and the hash and digest that
\* acquireIdempotencyProcessingLease compares.
SameIdentity(row, header, body) == row.header = header /\ row.body = body

\* A mutant that does not compare the owner.
HoldsStage(r) ==
    LET row == rows[Id(r)] IN row.state = "PROCESSING" /\ row.stage = requests[r].held

\* The condition of advanceIdempotencyProcessing and finishOwnedIdempotency: a lease
\* that has run out still counts until somebody takes it over.
Owns(r) ==
    LET row == rows[Id(r)]
    IN  row.state = "PROCESSING" /\ row.owner = r /\ row.stage = requests[r].held

\* advanceIdempotencyProcessing: the lease is renewed, or given up.
Advanced(r, stage) ==
    [rows EXCEPT ![Id(r)].stage = stage,
                 ![Id(r)].owner = IF stage = "SETTLEMENT_UNKNOWN" THEN None ELSE r,
                 ![Id(r)].expired = FALSE,
                 ![Id(r)].result = requests[r].result]

\* finishOwnedIdempotency
Finished(r, state) ==
    [rows EXCEPT ![Id(r)].state = state, ![Id(r)].stage = None, ![Id(r)].owner = None,
                 ![Id(r)].expired = FALSE]

\* A write in the try block fails: before it is committed, or only its answer is lost.
Fails(r, written, place) ==
    /\ requests[r].held \in Faulty /\ mishaps < MaxMishaps
    /\ mishaps' = mishaps + 1
    /\ rows' \in {rows} \cup (IF Owns(r) THEN {written} ELSE {})
    /\ Goto(r, place)
    /\ UNCHANGED <<external, delivered>>

-----------------------------------------------------------------------------
(* Up to the lease.                                                         *)

\* What a record tells a request that finds it: the stored answer, or to go on.
Consult(r, h, b, ask) ==
    LET row == rows[IdOf[h]]
        same == SameIdentity(row, h, b)
    IN  /\ requests' = [requests EXCEPT ![r] = IF same /\ row.state = "PROCESSING" THEN ask ELSE None]
        /\ delivered' = IF same /\ row.state = "COMPLETED"
                        THEN delivered \cup {[id |-> IdOf[h], body |-> b, result |-> row.result]}
                        ELSE delivered

\* The request comes in and getIdempotency looks for its record.
Arrive(r, h, b) ==
    LET ask(place) == [at |-> place, header |-> h, body |-> b, held |-> None, result |-> None,
                       recovering |-> FALSE, order |-> "none"]
    IN  /\ requests[r] = None
        /\ IF rows[IdOf[h]] = None
           THEN requests' = [requests EXCEPT ![r] = ask("found none")] /\ UNCHANGED delivered
           ELSE Consult(r, h, b, ask("known"))
        /\ UNCHANGED <<rows, external, mishaps>>

\* processHTTPRequest: the facilitator verifies the payment, or the request ends.
Verify(r) ==
    /\ At(r, "found none")
    /\ Goto(r, "verified") \/ End(r)
    /\ UNCHANGED <<rows, external, delivered, mishaps>>

\* reserveIdempotency
Reserve(r) ==
    LET h == requests[r].header
        b == requests[r].body
    IN  /\ At(r, "verified")
        /\ IF rows[IdOf[h]] = None
           THEN /\ rows' = [rows EXCEPT ![IdOf[h]] =
                       [state |-> "PROCESSING", header |-> h, body |-> b, stage |-> "AUTHORIZED",
                        owner |-> None, expired |-> FALSE, result |-> None]]
                /\ Goto(r, "known") /\ UNCHANGED delivered
           ELSE Consult(r, h, b, [requests[r] EXCEPT !.at = "known"]) /\ UNCHANGED rows
        /\ UNCHANGED <<external, mishaps>>

\* A mutant that never takes a lease over.
NotOwned(row) == row.owner = None

MayBeOwned(row) == row.owner = None \/ row.expired

\* acquireIdempotencyProcessingLease, and what the request reads of the row it gets.
Acquire(r) ==
    LET h == requests[r].header
        row == rows[IdOf[h]]
        free == /\ row.state = "PROCESSING" /\ SameIdentity(row, h, requests[r].body)
                /\ MayBeOwned(row)
    IN  /\ At(r, "known")
        /\ IF free
           THEN /\ rows' = [rows EXCEPT ![IdOf[h]].owner = r, ![IdOf[h]].expired = FALSE]
                /\ requests' = [requests EXCEPT ![r].at = "owner", ![r].held = row.stage,
                                                ![r].result = row.result]
                /\ UNCHANGED delivered
           ELSE Consult(r, h, requests[r].body, None) /\ UNCHANGED rows
        /\ UNCHANGED <<external, mishaps>>

-----------------------------------------------------------------------------
(* Under the lease.                                                         *)

\* A mutant that takes a settlement of which nothing is known for a failed one.
ForgetSettlement(r) ==
    /\ At(r, "owner") /\ requests[r].held = "SETTLING"
    /\ rows' = IF Owns(r) THEN Finished(r, "FAILED") ELSE rows
    /\ End(r)
    /\ UNCHANGED <<external, delivered, mishaps>>

\* The previous owner vanished while a settlement was outstanding: only note that.
NoteUncertain(r) ==
    /\ At(r, "owner") /\ requests[r].held = "SETTLING"
    /\ rows' = IF Owns(r) THEN Advanced(r, "SETTLEMENT_UNKNOWN") ELSE rows
    /\ End(r)
    /\ UNCHANGED <<external, delivered, mishaps>>

\* generator.generate
Generate(r) ==
    /\ At(r, "owner") /\ requests[r].held = "AUTHORIZED"
    /\ \/ Goto(r, "failing")
       \/ \E x \in Results :
             requests' = [requests EXCEPT ![r].at = "generated", ![r].result = x]
    /\ UNCHANGED <<rows, external, delivered, mishaps>>

\* The draft is saved; a request that lost its lease leaves the payment to the other.
SaveGenerated(r) ==
    /\ At(r, "generated")
    /\ \/ /\ IF Owns(r)
             THEN /\ rows' = Advanced(r, "GENERATED")
                  /\ requests' = [requests EXCEPT ![r].at = "owner", ![r].held = "GENERATED"]
             ELSE End(r) /\ UNCHANGED rows
          /\ UNCHANGED <<external, delivered, mishaps>>
       \/ Fails(r, Advanced(r, "GENERATED"), "failing")

\* A mutant that orders the settlement without writing it down first.
OrderAtOnce(r) ==
    /\ At(r, "owner") /\ requests[r].held \in {"GENERATED", "SETTLEMENT_UNKNOWN"}
    /\ requests' = [requests EXCEPT ![r].at = "settling", ![r].order = "sent",
                       ![r].recovering = (requests[r].held = "SETTLEMENT_UNKNOWN")]
    /\ UNCHANGED <<rows, external, delivered, mishaps>>

\* SETTLING is saved, and the facilitator is asked to settle.
BeginSettling(r) ==
    /\ At(r, "owner") /\ requests[r].held \in {"GENERATED", "SETTLEMENT_UNKNOWN"}
    /\ \/ /\ IF Owns(r)
             THEN /\ rows' = Advanced(r, "SETTLING")
                  /\ requests' = [requests EXCEPT ![r].at = "settling", ![r].held = "SETTLING",
                                     ![r].recovering = (requests[r].held = "SETTLEMENT_UNKNOWN"),
                                     ![r].order = "sent"]
             ELSE End(r) /\ UNCHANGED rows
          /\ UNCHANGED <<external, delivered, mishaps>>
       \/ Fails(r, Advanced(r, "SETTLING"), "failing")

\* processSettlement answers.
ReceiveAnswer(r) ==
    /\ At(r, "settling")
    /\ \/ requests[r].order = "executed" /\ Goto(r, "paid")
       \/ requests[r].order = "refused" /\ Goto(r, "declined")
    /\ UNCHANGED <<rows, external, delivered, mishaps>>

\* processSettlement throws: the order may still be carried out.
LoseAnswer(r) ==
    /\ At(r, "settling") /\ mishaps < MaxMishaps
    /\ mishaps' = mishaps + 1
    /\ orphans' = IF requests[r].order = "sent" THEN orphans \cup {requests[r].header} ELSE orphans
    /\ Goto(r, "in doubt")
    /\ UNCHANGED <<rows, charged, delivered, linked>>

\* The settlement is saved; if the row was taken over, it is not.
SaveSettled(r) ==
    /\ At(r, "paid")
    /\ \/ /\ IF Owns(r)
             THEN /\ rows' = Advanced(r, "SETTLED")
                  /\ requests' = [requests EXCEPT ![r].at = "owner", ![r].held = "SETTLED"]
             ELSE End(r) /\ UNCHANGED rows
          /\ UNCHANGED <<external, delivered, mishaps>>
       \/ Fails(r, Advanced(r, "SETTLED"), "in doubt")

\* A mutant that fails a payment whatever was tried before.
DeclinedFails(r) ==
    /\ At(r, "declined")
    /\ rows' = IF Owns(r) THEN Finished(r, "FAILED") ELSE rows
    /\ End(r)
    /\ UNCHANGED <<external, delivered, mishaps>>

\* The settlement was declined: the payment has failed, unless it was tried before.
SaveDeclined(r) ==
    LET written == IF requests[r].recovering THEN Advanced(r, "SETTLEMENT_UNKNOWN")
                   ELSE Finished(r, "FAILED")
    IN  /\ At(r, "declined")
        /\ \/ /\ rows' = IF Owns(r) THEN written ELSE rows
              /\ End(r)
              /\ UNCHANGED <<external, delivered, mishaps>>
           \/ Fails(r, written, "in doubt")

\* finishOwnedIdempotency of a settled payment, right after it or by a request that
\* found it settled, and the answer.
Complete(r) ==
    /\ At(r, "owner") /\ requests[r].held = "SETTLED"
    /\ \/ /\ rows' = IF Owns(r) THEN Finished(r, "COMPLETED") ELSE rows
          /\ delivered' = IF rows'[Id(r)].state = "COMPLETED"
                          THEN delivered \cup {[id |-> Id(r), body |-> requests[r].body,
                                                result |-> rows'[Id(r)].result]}
                          ELSE delivered
          /\ End(r)
          /\ UNCHANGED <<external, mishaps>>
       \/ Fails(r, Finished(r, "COMPLETED"), "closing")

\* The catch block: complete what is settled, keep what may be settled, fail the rest.
Catch(r) ==
    /\ rows' = IF ~Owns(r) THEN rows
               ELSE CASE At(r, "closing") -> Finished(r, "COMPLETED")
                      [] At(r, "in doubt") -> Advanced(r, "SETTLEMENT_UNKNOWN")
                      [] At(r, "failing") -> Finished(r, "FAILED")
    /\ End(r)
    /\ UNCHANGED <<external, delivered, mishaps>>

HandleError(r) ==
    /\ At(r, "closing") \/ At(r, "in doubt") \/ At(r, "failing")
    /\ Catch(r)

Die(r) ==
    /\ requests[r] # None /\ mishaps < MaxMishaps
    /\ mishaps' = mishaps + 1
    /\ orphans' = IF requests[r].order = "sent" THEN orphans \cup {requests[r].header} ELSE orphans
    /\ End(r)
    /\ UNCHANGED <<rows, charged, delivered, linked>>

\* Ten minutes pass: the lease can be taken over.  A request that is still at work by
\* then is a mishap: its awaits took ten minutes.
LeaseRunsOut(id) ==
    LET o == rows[id].owner
        alive == requests[o] # None /\ Id(o) = id /\ requests[o].held # None
    IN  /\ rows[id] # None /\ o # None /\ ~rows[id].expired
        /\ IF alive THEN mishaps < MaxMishaps /\ mishaps' = mishaps + 1 ELSE UNCHANGED mishaps
        /\ rows' = [rows EXCEPT ![id].expired = TRUE]
        /\ UNCHANGED <<requests, external, delivered>>

-----------------------------------------------------------------------------
(* The facilitator and the chain, and what the draft is used for.            *)

\* An order is carried out or refused; the chain takes an authorization once, and an
\* order that repeats an executed one may be told that it was executed.
Settle(r) ==
    LET h == requests[r].header
    IN  /\ At(r, "settling") /\ requests[r].order = "sent"
        /\ \E answer \in {"executed", "refused"} :
              /\ requests' = [requests EXCEPT ![r].order = answer]
              /\ charged' = IF answer = "executed" THEN charged \cup {h} ELSE charged
        /\ UNCHANGED <<rows, orphans, delivered, linked, mishaps>>

SettleOrphan(h) ==
    /\ h \in orphans
    /\ orphans' = orphans \ {h}
    /\ charged' \in {charged, charged \cup {h}}
    /\ UNCHANGED <<rows, requests, delivered, linked, mishaps>>

\* verifyAiGenerationReceipt
Verified(id) == rows[id] # None /\ rows[id].state = "COMPLETED"

\* createCampaign with a receipt handle: the record is locked and verified, and a
\* unique index lets no second campaign have the payment.
LinkReceipt(c, id) ==
    /\ linked[c] = None
    /\ Verified(id)
    /\ \A d \in Campaigns : linked[d] # id
    /\ linked' = [linked EXCEPT ![c] = id]
    /\ UNCHANGED <<rows, requests, orphans, charged, delivered, mishaps>>

-----------------------------------------------------------------------------
Step(r) ==
    \/ Verify(r) \/ Reserve(r) \/ Acquire(r) \/ NoteUncertain(r)
    \/ Generate(r) \/ SaveGenerated(r) \/ BeginSettling(r) \/ Settle(r)
    \/ ReceiveAnswer(r) \/ SaveSettled(r) \/ SaveDeclined(r) \/ Complete(r) \/ HandleError(r)

Next ==
    \/ \E r \in Requests :
          \/ \E h \in Headers, b \in Bodies : Arrive(r, h, b)
          \/ Step(r) \/ LoseAnswer(r) \/ Die(r)
    \/ \E id \in Ids : LeaseRunsOut(id)
    \/ \E h \in Headers : SettleOrphan(h)
    \/ \E c \in Campaigns, id \in Ids : LinkReceipt(c, id)

Spec == Init /\ [][Next]_vars

\* Every await returns, every lease runs out, and a client retries its exact request,
\* which is what the answers of the code and src/server/v2/README.md ask of it.
FairSpec ==
    /\ Spec
    /\ \A r \in Requests : WF_vars(Step(r))
    /\ \A id \in Ids : WF_vars(LeaseRunsOut(id))
    /\ \A h \in Headers, b \in Bodies : SF_vars(\E r \in Requests : Arrive(r, h, b))

-----------------------------------------------------------------------------
\* One payment identifier is charged for one authorization, the one of its record,
\* whatever retries, takeovers of the lease and unanswered settlements there were.
ChargedOnce ==
    \A h \in charged : rows[IdOf[h]] # None /\ rows[IdOf[h]].header = h

\* A settlement that was ordered is written down: as long as an order is open, or once
\* it is executed, the record holds the draft and is settling, settled or completed.
OrderedIsHeld ==
    \A h \in charged \cup orphans \cup
             {requests[r].header : r \in {q \in Requests : At(q, "settling")}} :
        LET row == rows[IdOf[h]]
        IN  /\ row # None /\ row.result # None
            /\ \/ row.state = "PROCESSING" /\ row.stage \in {"SETTLING", "SETTLED", "SETTLEMENT_UNKNOWN"}
               \/ row.state = "COMPLETED"

PaidSafe == TypeOK /\ ChargedOnce /\ OrderedIsHeld

\* A draft is handed out, or linked to a campaign, once its payment is settled; every
\* answer of a payment is the draft of the body that was paid for, and no two campaigns
\* have it.
OneAnswer ==
    /\ \A d \in delivered :
          LET row == rows[d.id]
          IN  row.header \in charged /\ row.body = d.body /\ row.result = d.result
    /\ \A c \in Campaigns : linked[c] # None =>
          /\ \E h \in charged : IdOf[h] = linked[c]
          /\ \A d \in Campaigns \ {c} : linked[d] # linked[c]

\* A settled payment ends with its draft handed out, whoever died on the way.
SettledIsDelivered ==
    \A id \in Ids :
        (rows[id] # None /\ rows[id].stage = "SETTLED") ~> (\E d \in delivered : d.id = id)
===============================================================================
