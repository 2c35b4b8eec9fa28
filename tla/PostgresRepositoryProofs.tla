----------------------- MODULE PostgresRepositoryProofs -----------------------
(***************************************************************************)
(* Proofs about PostgresRepository, for any number of callers, any calls of   *)
(* the interface and any consistent rows to start with.                      *)
(***************************************************************************)
EXTENDS PostgresRepository, FiniteSetTheorems, TLAPS

-----------------------------------------------------------------------------
(* What the transaction of a caller relies on, from the locks it holds.       *)

\* The answer of the call is still to be decided.
Unanswered == {"called", "verified", "inserted", "looked up", "locked", "violated", "claiming",
               "claim locked", "both locked", "deleted", "conflict", "updated", "counted"}

Draft(call) ==
    LET row == campaigns[call.campaign]
    IN  /\ row # None /\ row.creator = call.creator
        /\ row.status = "DRAFT" /\ row.version = call.version

Submittable(call) ==
    LET row == claims[call.key]
    IN  /\ row # None /\ row.status \in {"QUOTED", "AWAITING_PROOF"} /\ row.version = call.version

Claimable(id, call) ==
    /\ campaigns[id] # None /\ campaigns[id].status = "ACTIVE"
    /\ campaigns[id].version = call.campaignVersion

Payable(call) ==
    LET claim == claims[call.key]
        row == campaigns[call.campaign]
    IN  /\ row # None
        /\ claim.campaign = call.campaign /\ claim.payout = "ONE_CLICK"
        /\ claim.status \in {"PAYING", "FAILED", call.target}
        /\ row.status \in {"CLAIMING", "CLAIMED"}
        /\ IF claim.status = call.target THEN claim.settled ELSE call.settles \/ claim.settled

Takeable(call) ==
    LET row == idempotency[call.key]
    IN  /\ row # None /\ row.state = "PROCESSING" /\ row.request = call.request
        /\ row.authorized /\ Unowned(row)

Taken(c) == {k \in JobKeys : JobRow(k) \subseteq calls[c].held}

\* createCampaign
CreatingOK(c) ==
    LET call == calls[c].call
    IN  /\ At(c, "createCampaign", "verified") =>
              /\ call.payment # None /\ Verified(call.payment)
              /\ calls[c].held = RecordRow(call.payment)
        /\ At(c, "createCampaign", "inserted") =>
              /\ call.payment # None /\ Verified(call.payment)
              /\ ~SlugTaken(call.id, call.slug) /\ ~PaymentLinked(call.payment)
              /\ calls[c].held = RecordRow(call.payment) \cup SlugValue(call.slug)
                                    \cup PaymentValue(call.payment)
        /\ calls[c].at \in Unanswered /\ call.op = "createCampaign" => campaigns[call.id] = None

\* createFundingOrderAndFreezeCampaign
FreezingOK(c) ==
    LET call == calls[c].call
        op == "createFundingOrderAndFreezeCampaign"
    IN  /\ At(c, op, "looked up") => calls[c].held = {}
        /\ At(c, op, "locked") => Draft(call) /\ calls[c].held = ForUpdate(call.campaign)
        /\ At(c, op, "inserted") =>
              /\ Draft(call) /\ fundingOrders[call.key] = None
              /\ ~OpenTaken(call.key, call.campaign)
              /\ calls[c].held = ForUpdate(call.campaign) \cup OrderRow(call.key)
                                    \cup OpenOrder(call.campaign)
        /\ At(c, op, "violated") =>
              /\ calls[c].met \/ fundingOrders[call.key] # None
              /\ calls[c].held = {}
        /\ call.op = op /\ calls[c].at \in {"called", "looked up", "locked"} =>
              calls[c].met = FALSE

\* submitClaimAtomically and finalizeOneClickPayoutAtomically
PayingOK(c) ==
    LET call == calls[c].call
        id == claims[call.key].campaign
    IN  /\ At(c, "submitClaimAtomically", "locked") =>
              Submittable(call) /\ calls[c].held = ClaimRow(call.key)
        /\ At(c, "submitClaimAtomically", "claiming") =>
              /\ Submittable(call) /\ Claimable(id, call)
              /\ calls[c].held = ClaimRow(call.key) \cup CampaignRow(id)
        /\ At(c, "finalizeOneClickPayoutAtomically", "claim locked") =>
              claims[call.key] # None /\ calls[c].held = ClaimRow(call.key)
        /\ At(c, "finalizeOneClickPayoutAtomically", "both locked") =>
              /\ claims[call.key] # None /\ Payable(call)
              /\ calls[c].held = ClaimRow(call.key) \cup ForUpdate(call.campaign)

\* reserveIdempotency and acquireIdempotencyProcessingLease
ReservingOK(c) ==
    LET k == calls[c].call.key
        gone == idempotency[k] # None /\ ~Kept(k)
    IN  /\ At(c, "reserveIdempotency", "deleted") =>
              calls[c].held = {} \/ (gone /\ calls[c].held = RecordRow(k))
        /\ At(c, "reserveIdempotency", "inserted") =>
              /\ idempotency[k] = None \/ gone
              /\ calls[c].held = RecordRow(k)
        /\ At(c, "reserveIdempotency", "conflict") => idempotency[k] # None /\ calls[c].held = {}
        /\ At(c, "acquireIdempotencyProcessingLease", "called") => idempotency[k] # None
        /\ At(c, "acquireIdempotencyProcessingLease", "updated") =>
              Takeable(calls[c].call) /\ calls[c].held = RecordRow(k)

\* enqueueJob and leaseJobs
LeasingOK(c) ==
    LET call == calls[c].call
    IN  /\ At(c, "enqueueJob", "conflict") =>
              call.reactivateDead /\ jobs[call.key] # None /\ calls[c].held = {}
        /\ At(c, "leaseJobs", "updated") =>
              /\ Cardinality(Taken(c)) <= call.limit
              /\ \A k \in Taken(c) : Leasable(k)

\* Other stages hold no lock.
RestingOK(c) ==
    /\ calls[c].at \in {"idle", "called", "counted", "reading", "answered"} => calls[c].held = {}
    /\ calls[c].at = "counted" => calls[c].total # None
    /\ calls[c].at = "idle" => calls[c] = Idle
    /\ calls[c].at # "idle" => calls[c].call \in Calls
    /\ calls[c].at \in Unanswered \cup {"idle", "reading", "answered"}

CallOK(c) ==
    /\ CreatingOK(c) /\ FreezingOK(c) /\ PayingOK(c) /\ ReservingOK(c) /\ LeasingOK(c)
    /\ RestingOK(c)

-----------------------------------------------------------------------------
(* The invariant.                                                           *)

CallsShaped ==
    /\ calls = [c \in Callers |-> calls[c]]
    /\ \A c \in Callers :
          calls[c] = [at |-> calls[c].at, call |-> calls[c].call, answer |-> calls[c].answer,
                      met |-> calls[c].met, total |-> calls[c].total, held |-> calls[c].held]

Creates(c, x) ==
    calls[c].at # "idle" /\ calls[c].call.op = "createCampaign" /\ calls[c].call.id = x

\* Calls that are not over do not create campaigns with one id.
NewIds == \A c, d \in Callers, x \in Campaigns : Creates(c, x) /\ Creates(d, x) => c = d

TablesTyped ==
    /\ campaigns \in [Campaigns -> Campaign \cup {None}]
    /\ fundingOrders \in [OrderKeys -> FundingOrder \cup {None}]
    /\ claims \in [ClaimKeys -> Claim \cup {None}]
    /\ idempotency \in [RecordKeys -> IdempotencyRecord \cup {None}]
    /\ jobs \in [JobKeys -> Job \cup {None}]
    /\ events \in Seq(OperationEvent)

OpenOrdersUnique ==
    \A k, l \in Stored(fundingOrders) :
       /\ fundingOrders[k].status \notin ClosedOrders /\ fundingOrders[l].status \notin ClosedOrders
       /\ fundingOrders[k].campaign = fundingOrders[l].campaign
       => k = l

WinnersUnique ==
    \A k, l \in Stored(claims) :
       /\ claims[k].status \in WinningStatus /\ claims[l].status \in WinningStatus
       /\ claims[k].campaign = claims[l].campaign
       => k = l

NamesUnique ==
    \A x, y \in Stored(campaigns) :
       \/ campaigns[x].slug = campaigns[y].slug
       \/ campaigns[x].payment # None /\ campaigns[x].payment = campaigns[y].payment
       => x = y

RepositoryInv ==
    /\ TablesTyped /\ CallsShaped /\ workload \in Workloads
    /\ OpenOrdersUnique /\ WinnersUnique /\ NamesUnique
    /\ LocksExclusive /\ NewIds
    /\ \A c \in Callers : CallOK(c)

LEMMA RowsUniqueIs == RowsUnique <=> OpenOrdersUnique /\ WinnersUnique /\ NamesUnique
  BY DEF RowsUnique, UniqueRows, OpenOrdersUnique, WinnersUnique, NamesUnique

LEMMA InvTyped == RepositoryInv => Interface!TypeOK
<1> SUFFICES ASSUME RepositoryInv PROVE Interface!TypeOK
  OBVIOUS
<1>1. \A c \in Callers : SeenCalls[c].at \in {"idle", "called", "answered"}
  BY DEF SeenCalls
<1>2. \A i \in DOMAIN events : events[i] \in OperationEvent
  BY DEF RepositoryInv, TablesTyped
<1> QED
  BY <1>1, <1>2 DEF RepositoryInv, TablesTyped, Interface!TypeOK, Interface!Campaign, Campaign,
     Interface!FundingOrder, FundingOrder, Interface!Claim, Claim, Interface!IdempotencyRecord,
     IdempotencyRecord, Interface!Job, Job, Interface!OperationEvent, OperationEvent,
     Interface!CampaignStatus, CampaignStatus, Interface!FundingOrderStatus, FundingOrderStatus,
     Interface!ClaimStatus, ClaimStatus, Interface!JobStatus, JobStatus, Interface!Stages, Stages

-----------------------------------------------------------------------------
(* Who waits for whom.  Locks are taken in an order: claims before campaigns,  *)
(* and both, like records, before the values of an INSERT.                   *)

\* Waits for the campaign of a claim that it has locked.
AwaitsCampaign(c) ==
    At(c, "submitClaimAtomically", "locked") \/ At(c, "finalizeOneClickPayoutAtomically", "claim locked")

\* Waits for the values that it inserts.
AwaitsValues(c) ==
    At(c, "createCampaign", "verified") \/ At(c, "createFundingOrderAndFreezeCampaign", "locked")

LEMMA AwaitsCampaignHolds ==
  ASSUME RepositoryInv, NEW c \in Callers, AwaitsCampaign(c)
  PROVE  /\ calls[c].held = ClaimRow(calls[c].call.key)
         /\ \A l \in Awaited(c) : l[1] \in {"campaign", "reference"}
<1>1. calls[c].held = ClaimRow(calls[c].call.key)
  BY DEF RepositoryInv, CallOK, PayingOK, AwaitsCampaign
<1>2. \A x : \A l \in CampaignRow(x) \cup ForUpdate(x) : l[1] \in {"campaign", "reference"}
  BY DEF CampaignRow, ForUpdate, Lock
<1>3. CASE At(c, "submitClaimAtomically", "locked")
  <2>1. Awaited(c) = CampaignRow(claims[calls[c].call.key].campaign)
    BY <1>3 DEF Awaited, At
  <2> QED
    BY <1>1, <1>2, <2>1
<1>4. CASE At(c, "finalizeOneClickPayoutAtomically", "claim locked")
  <2>1. Awaited(c) = ForUpdate(calls[c].call.campaign)
    BY <1>4 DEF Awaited, At
  <2> QED
    BY <1>1, <1>2, <2>1
<1> QED
  BY <1>3, <1>4 DEF AwaitsCampaign

LEMMA AwaitsValuesHolds ==
  ASSUME RepositoryInv, NEW c \in Callers, AwaitsValues(c)
  PROVE  /\ \A l \in calls[c].held : l[1] \in {"record", "campaign", "reference"}
         /\ \A l \in Awaited(c) : l[1] \in {"slug", "payment", "order", "open"}
<1>1. CASE At(c, "createCampaign", "verified")
  <2>1. calls[c].held = RecordRow(calls[c].call.payment)
    BY <1>1 DEF RepositoryInv, CallOK, CreatingOK
  <2>2. Awaited(c) = SlugValue(calls[c].call.slug) \cup PaymentValue(calls[c].call.payment)
    BY <1>1 DEF Awaited, At
  <2> QED
    BY <2>1, <2>2 DEF RecordRow, SlugValue, PaymentValue, Lock
<1>2. CASE At(c, "createFundingOrderAndFreezeCampaign", "locked")
  <2>1. calls[c].held = ForUpdate(calls[c].call.campaign)
    BY <1>2 DEF RepositoryInv, CallOK, FreezingOK
  <2>2. Awaited(c) = OrderRow(calls[c].call.key) \cup OpenOrder(calls[c].call.campaign)
    BY <1>2 DEF Awaited, At
  <2> QED
    BY <2>1, <2>2 DEF ForUpdate, OrderRow, OpenOrder, Lock
<1> QED
  BY <1>1, <1>2 DEF AwaitsValues

\* Any other transaction waits for what it holds itself, if for anything.
LEMMA OthersAwaitNothing ==
  ASSUME RepositoryInv, NEW c \in Holders, ~AwaitsCampaign(c), ~AwaitsValues(c)
  PROVE  Free(c, Awaited(c))
<1>1. Awaited(c) \subseteq calls[c].held
  <2>1. CASE At(c, "submitClaimAtomically", "claiming")
    <3>1. calls[c].held = ClaimRow(calls[c].call.key) \cup CampaignRow(claims[calls[c].call.key].campaign)
      BY <2>1 DEF RepositoryInv, CallOK, PayingOK, Holders
    <3>2. Awaited(c) = ClaimRow(calls[c].call.key)
      BY <2>1 DEF Awaited, At
    <3> QED
      BY <3>1, <3>2
  <2>2. CASE At(c, "reserveIdempotency", "deleted")
    <3>1. calls[c].held = RecordRow(calls[c].call.key)
      BY <2>2 DEF RepositoryInv, CallOK, ReservingOK, Holders
    <3>2. Awaited(c) = RecordRow(calls[c].call.key)
      BY <2>2 DEF Awaited, At
    <3> QED
      BY <3>1, <3>2
  <2>3. CASE ~At(c, "submitClaimAtomically", "claiming") /\ ~At(c, "reserveIdempotency", "deleted")
    BY <2>3 DEF Awaited, AwaitsCampaign, AwaitsValues
  <2> QED
    BY <2>1, <2>2, <2>3
<1> QED
  BY <1>1 DEF RepositoryInv, LocksExclusive, Free, Holders

LEMMA InvNoCircle ==
  ASSUME RepositoryInv
  PROVE  NoCircle
<1> SUFFICES ASSUME Holders # {} PROVE \E c \in Holders : Free(c, Awaited(c))
  BY DEF NoCircle
<1>1. \A c \in Callers : c \notin Holders => calls[c].held = {}
  BY DEF Holders
<1>2. CASE \E c \in Holders : ~AwaitsCampaign(c) /\ ~AwaitsValues(c)
  BY <1>2, OthersAwaitNothing
<1>3. CASE /\ \A c \in Holders : AwaitsCampaign(c) \/ AwaitsValues(c)
           /\ \E c \in Holders : AwaitsValues(c)
  <2>1. PICK c \in Holders : AwaitsValues(c)
    BY <1>3
  <2>2. \A l \in Awaited(c) : l[1] \in {"slug", "payment", "order", "open"}
    BY <2>1, AwaitsValuesHolds DEF Holders
  <2>3. \A d \in Holders : \A l \in calls[d].held :
           l[1] \in {"claim", "record", "campaign", "reference"}
    BY <1>3, AwaitsValuesHolds, AwaitsCampaignHolds DEF Holders, ClaimRow, Lock
  <2> QED
    BY <1>1, <2>2, <2>3 DEF Free
<1>4. CASE \A c \in Holders : AwaitsCampaign(c)
  <2>1. PICK c \in Holders : TRUE
    OBVIOUS
  <2>2. \A l \in Awaited(c) : l[1] \in {"campaign", "reference"}
    BY <1>4, AwaitsCampaignHolds DEF Holders
  <2>3. \A d \in Holders : \A l \in calls[d].held : l[1] = "claim"
    BY <1>4, AwaitsCampaignHolds DEF Holders, ClaimRow, Lock
  <2> QED
    BY <1>1, <2>2, <2>3 DEF Free
<1> QED
  BY <1>2, <1>3, <1>4

LEMMA RepositoryInvSafe == RepositoryInv => RepositorySafe
  BY InvTyped, InvNoCircle, RowsUniqueIs DEF RepositoryInv, RepositorySafe

-----------------------------------------------------------------------------
(* What the interface shows of a step of a call.                            *)

Becomes(c, state) == calls' = [calls EXCEPT ![c] = state]

Ended(c, at, answer) ==
    [at |-> at, call |-> calls[c].call, answer |-> answer, met |-> calls[c].met,
     total |-> calls[c].total, held |-> {}]

\* The call goes on, at another statement and with other locks.
Moving(c, at, held) ==
    [at |-> at, call |-> calls[c].call, answer |-> calls[c].answer, met |-> calls[c].met,
     total |-> calls[c].total, held |-> held]

\* What the interface knows of the state of a call.
Seen(state) ==
    [at |-> IF state.at \in {"reading", "answered"} THEN "answered"
            ELSE IF state.at = "idle" THEN "idle" ELSE "called",
     call |-> state.call, answer |-> state.answer, met |-> state.met, total |-> state.total]

LEMMA SeenIs ==
  ASSUME NEW c \in Callers
  PROVE  SeenCalls[c] = Seen(calls[c])
  BY DEF SeenCalls, Seen

LEMMA SeenFacts ==
  ASSUME NEW c \in Callers
  PROVE  /\ SeenCalls[c].call = calls[c].call /\ SeenCalls[c].answer = calls[c].answer
         /\ SeenCalls[c].met = calls[c].met /\ SeenCalls[c].total = calls[c].total
         /\ calls[c].at \in Unanswered => SeenCalls[c].at = "called"
         /\ calls[c].at \in {"reading", "answered"} => SeenCalls[c].at = "answered"
         /\ SeenCalls[c].at = "idle" <=> calls[c].at = "idle"
  BY DEF SeenCalls, Unanswered

LEMMA BecomesFacts ==
  ASSUME CallsShaped, NEW c \in Callers, NEW state, Becomes(c, state)
  PROVE  /\ calls'[c] = state
         /\ \A d \in Callers \ {c} : calls'[d] = calls[d]
         /\ SeenCalls' = [SeenCalls EXCEPT ![c] = Seen(state)]
<1>1. DOMAIN calls = Callers
  BY DEF CallsShaped
<1>2. calls'[c] = state /\ \A d \in Callers \ {c} : calls'[d] = calls[d]
  BY <1>1 DEF Becomes
<1>3. SeenCalls' = [d \in Callers |-> Seen(calls'[d])]
  BY DEF SeenCalls, Seen
<1>4. SeenCalls = [d \in Callers |-> Seen(calls[d])]
  BY DEF SeenCalls, Seen
<1> QED
  BY <1>2, <1>3, <1>4

LEMMA ShapedStep ==
  ASSUME CallsShaped, NEW c \in Callers, NEW state, Becomes(c, state),
         state = [at |-> state.at, call |-> state.call, answer |-> state.answer,
                  met |-> state.met, total |-> state.total, held |-> state.held]
  PROVE  CallsShaped'
<1>1. DOMAIN calls = Callers
  BY DEF CallsShaped
<1>2. calls' = [d \in Callers |-> calls'[d]]
  BY <1>1 DEF Becomes
<1> QED
  BY <1>2, BecomesFacts DEF CallsShaped

LEMMA AnswerBecomes ==
  ASSUME CallsShaped, NEW c \in Callers, NEW answer
  PROVE  /\ Answer(c, answer) => Becomes(c, Ended(c, "answered", answer))
         /\ Decide(c, answer) => Becomes(c, Ended(c, "reading", answer))
<1>1. calls[c] = [at |-> calls[c].at, call |-> calls[c].call, answer |-> calls[c].answer,
                  met |-> calls[c].met, total |-> calls[c].total, held |-> calls[c].held]
  BY DEF CallsShaped
<1>2. DOMAIN calls = Callers
  BY DEF CallsShaped
<1> QED
  BY <1>1, <1>2 DEF Answer, Decide, Becomes, Ended

LEMMA RecordMoved ==
  ASSUME NEW s, NEW at, NEW held,
         s = [at |-> s.at, call |-> s.call, answer |-> s.answer, met |-> s.met, total |-> s.total,
              held |-> s.held]
  PROVE  [s EXCEPT !.at = at, !.held = held]
           = [at |-> at, call |-> s.call, answer |-> s.answer, met |-> s.met, total |-> s.total,
              held |-> held]
<1> DEFINE R == [at : {s.at, at}, call : {s.call}, answer : {s.answer}, met : {s.met},
                 total : {s.total}, held : {s.held, held}]
           t == [s EXCEPT !.at = at, !.held = held]
<1>1. s \in R
  OBVIOUS
<1>2. t \in R
  BY <1>1
<1>3. /\ t.at = at /\ t.call = s.call /\ t.answer = s.answer /\ t.met = s.met
      /\ t.total = s.total /\ t.held = held
  BY <1>1
<1>4. [at |-> at, call |-> s.call, answer |-> s.answer, met |-> s.met, total |-> s.total,
       held |-> held] \in R
  OBVIOUS
<1> QED
  BY <1>2, <1>3, <1>4

LEMMA SeenAnswered ==
  ASSUME NEW c \in Callers, NEW answer
  PROVE  [SeenCalls[c] EXCEPT !.at = "answered", !.answer = answer]
           = [at |-> "answered", call |-> calls[c].call, answer |-> answer,
              met |-> calls[c].met, total |-> calls[c].total]
<1> DEFINE s == SeenCalls[c]
           t == [s EXCEPT !.at = "answered", !.answer = answer]
           R == [at : {s.at, "answered"}, call : {s.call}, answer : {s.answer, answer},
                 met : {s.met}, total : {s.total}]
<1>1. s \in R /\ s.call = calls[c].call /\ s.met = calls[c].met /\ s.total = calls[c].total
  BY DEF SeenCalls
<1> HIDE DEF s
<1>2. t \in R
  BY <1>1
<1>3. /\ t.at = "answered" /\ t.call = s.call /\ t.answer = answer /\ t.met = s.met
      /\ t.total = s.total
  BY <1>1
<1>4. [at |-> "answered", call |-> s.call, answer |-> answer, met |-> s.met, total |-> s.total] \in R
  OBVIOUS
<1>5. t = [at |-> "answered", call |-> s.call, answer |-> answer, met |-> s.met, total |-> s.total]
  BY <1>2, <1>3, <1>4
<1> QED
  BY <1>1, <1>5 DEF s

LEMMA MovingBecomes ==
  ASSUME CallsShaped, NEW c \in Callers, NEW at, NEW held,
         calls' = [calls EXCEPT ![c].at = at, ![c].held = held]
  PROVE  Becomes(c, Moving(c, at, held))
<1>1. [calls[c] EXCEPT !.at = at, !.held = held] = Moving(c, at, held)
  BY RecordMoved DEF CallsShaped, Moving
<1>2. DOMAIN calls = Callers
  BY DEF CallsShaped
<1>3. calls' = [calls EXCEPT ![c] = [calls[c] EXCEPT !.at = at, !.held = held]]
  BY <1>2
<1> QED
  BY <1>1, <1>3 DEF Becomes

LEMMA ProceedBecomes ==
  ASSUME CallsShaped, NEW c \in Callers, NEW at, NEW locks, Proceed(c, at, locks)
  PROVE  Becomes(c, Moving(c, at, calls[c].held \cup locks))
<1>1. DOMAIN calls = Callers
  BY DEF CallsShaped
<1>2. calls' = [calls EXCEPT ![c].at = at, ![c].held = calls[c].held \cup locks]
  BY <1>1 DEF Proceed
<1> QED
  BY <1>2, MovingBecomes

\* To answer a call is to answer it at the interface.
LEMMA AnswerSeen ==
  ASSUME CallsShaped, NEW c \in Callers, NEW answer,
         Becomes(c, Ended(c, "answered", answer)) \/ Becomes(c, Ended(c, "reading", answer))
  PROVE  Interface!Answer(c, answer)
<1>1. PICK at \in {"answered", "reading"} : Becomes(c, Ended(c, at, answer))
  OBVIOUS
<1>2. SeenCalls' = [SeenCalls EXCEPT ![c] = Seen(Ended(c, at, answer))]
  BY <1>1, BecomesFacts
<1>3. Seen(Ended(c, at, answer)) = [at |-> "answered", call |-> calls[c].call, answer |-> answer,
                                    met |-> calls[c].met, total |-> calls[c].total]
  BY DEF Seen, Ended
<1>4. DOMAIN SeenCalls = Callers
  BY DEF SeenCalls
<1>5. [SeenCalls[c] EXCEPT !.at = "answered", !.answer = answer] = Seen(Ended(c, at, answer))
  BY <1>3, SeenAnswered
<1>6. [SeenCalls EXCEPT ![c].at = "answered", ![c].answer = answer]
        = [SeenCalls EXCEPT ![c] = [SeenCalls[c] EXCEPT !.at = "answered", !.answer = answer]]
  BY <1>4
<1> QED
  BY <1>2, <1>5, <1>6 DEF Interface!Answer

\* To go on with the transaction is nothing at the interface.
LEMMA MovingSeen ==
  ASSUME CallsShaped, NEW c \in Callers, NEW at \in Unanswered, NEW held,
         calls[c].at \in Unanswered, Becomes(c, Moving(c, at, held))
  PROVE  UNCHANGED SeenCalls
<1>1. SeenCalls' = [SeenCalls EXCEPT ![c] = Seen(Moving(c, at, held))]
  BY BecomesFacts
<1>2. Seen(Moving(c, at, held)) = SeenCalls[c]
  BY DEF Seen, Moving, SeenCalls, Unanswered
<1>3. SeenCalls = [d \in Callers |-> SeenCalls[d]]
  BY DEF SeenCalls
<1> QED
  BY <1>1, <1>2, <1>3

-----------------------------------------------------------------------------
(* The calls.                                                               *)

LEMMA CampaignCalls ==
  ASSUME NEW call \in Calls
  PROVE  /\ call.op = "createCampaign" =>
               /\ call.id \in Campaigns /\ call.slug \in Slugs /\ call.creator \in Creators
               /\ call.payment \in PaidKeys \cup {None}
         /\ call.op = "listCampaigns" => call.limit \in Nat /\ call.statuses # {}
         /\ call.op = "updateCampaignDraft" => call.id \in Campaigns
         /\ call.op = "transitionCampaign" => call.id \in Campaigns /\ call.to \in CampaignStatus
  BY CallsAssumption
  DEF CampaignCall, FundingOrderCall, ClaimCall, IdempotencyCall, JobCall, EventCall

LEMMA FundingOrderCalls ==
  ASSUME NEW call \in Calls
  PROVE  /\ call.op \in {"createFundingOrderIdempotent", "createFundingOrderAndFreezeCampaign"} =>
               call.key \in OrderKeys /\ call.campaign \in Campaigns
         /\ call.op = "transitionFundingOrder" =>
               call.key \in OrderKeys /\ call.to \in FundingOrderStatus
  BY CallsAssumption
  DEF CampaignCall, FundingOrderCall, ClaimCall, IdempotencyCall, JobCall, EventCall

LEMMA ClaimCalls ==
  ASSUME NEW call \in Calls
  PROVE  /\ call.op = "createClaimIdempotent" =>
               /\ call.key \in ClaimKeys /\ call.campaign \in Campaigns
               /\ call.payout \in {"DIRECT_NEAR", "ONE_CLICK"}
         /\ call.op = "submitClaimAtomically" => call.key \in ClaimKeys
         /\ call.op = "transitionClaim" =>
               /\ call.key \in ClaimKeys /\ call.to \in ClaimStatus
               /\ call.settles \in BOOLEAN /\ call.deposits \in BOOLEAN
         /\ call.op = "finalizeOneClickPayoutAtomically" =>
               /\ call.key \in ClaimKeys /\ call.campaign \in Campaigns
               /\ call.target \in {"PAID", "RECOVERED"}
               /\ call.settles \in BOOLEAN /\ call.deposits \in BOOLEAN
  BY CallsAssumption
  DEF CampaignCall, FundingOrderCall, ClaimCall, IdempotencyCall, JobCall, EventCall

LEMMA IdempotencyCalls ==
  ASSUME NEW call \in Calls
  PROVE  /\ call.op = "reserveIdempotency" =>
               /\ call.key \in RecordKeys /\ call.request \in Requests
               /\ call.processing \in BOOLEAN
         /\ call.op = "acquireIdempotencyProcessingLease" =>
               call.key \in RecordKeys /\ call.actor \in Actors
         /\ call.op = "advanceIdempotencyProcessing" =>
               /\ call.key \in RecordKeys /\ call.actor \in Actors /\ call.to \in Stages
               /\ call.renews \in BOOLEAN
         /\ call.op \in {"finishOwnedIdempotency", "finishIdempotency"} =>
               call.key \in RecordKeys /\ call.result \in {"COMPLETED", "FAILED"}
  BY CallsAssumption
  DEF CampaignCall, FundingOrderCall, ClaimCall, IdempotencyCall, JobCall, EventCall

LEMMA OtherCalls ==
  ASSUME NEW call \in Calls
  PROVE  /\ call.op = "enqueueJob" => call.key \in JobKeys /\ call.reactivateDead \in BOOLEAN
         /\ call.op = "leaseJobs" => call.actor \in Actors /\ call.limit \in Nat
         /\ call.op = "endJob" =>
               call.key \in JobKeys /\ call.how \in {"complete", "reschedule", "fail"}
         /\ call.op = "appendEvent" => call.key \in EventKeys \cup {None} /\ call.actor \in Actors
  BY CallsAssumption
  DEF CampaignCall, FundingOrderCall, ClaimCall, IdempotencyCall, JobCall, EventCall

-----------------------------------------------------------------------------
(* What a step of another caller leaves of what a call relies on.            *)

BehindCampaigns(c) ==
    /\ \A x \in Campaigns :
          /\ Lock("campaign", x) \in calls[c].held /\ campaigns[x] # None =>
                campaigns'[x] = campaigns[x]
          /\ Creates(c, x) /\ campaigns[x] = None => campaigns'[x] = None
    /\ \A x \in Campaigns, s \in Slugs :
          Lock("slug", s) \in calls[c].held /\ campaigns'[x] # None /\ campaigns'[x].slug = s =>
             campaigns[x] # None /\ campaigns[x].slug = s
    /\ \A x \in Campaigns, p \in PaidKeys \ {None} :
          /\ Lock("payment", p) \in calls[c].held
          /\ campaigns'[x] # None /\ campaigns'[x].payment = p
          => campaigns[x] # None /\ campaigns[x].payment = p

OpenAt(row, x) == row # None /\ row.campaign = x /\ row.status \notin ClosedOrders

BehindOrders(c) ==
    /\ \A k \in OrderKeys :
          /\ Lock("order", k) \in calls[c].held => fundingOrders'[k] = fundingOrders[k]
          /\ fundingOrders[k] # None => fundingOrders'[k] # None
    /\ \A k \in OrderKeys, x \in Campaigns :
          Lock("open", x) \in calls[c].held /\ OpenAt(fundingOrders'[k], x) =>
             OpenAt(fundingOrders[k], x)

BehindClaims(c) ==
    \A k \in ClaimKeys :
       Lock("claim", k) \in calls[c].held /\ claims[k] # None => claims'[k] = claims[k]

\* Time passes, and nothing else happens to the record.
Ages(row, later) ==
    IF row = None THEN later = None
    ELSE /\ later # None /\ later.state = row.state /\ later.request = row.request
         /\ later.authorized = row.authorized
         /\ row.expired => later.expired
         /\ Unowned(row) => Unowned(later)

BehindRecords(c) ==
    \A k \in RecordKeys :
       /\ idempotency[k] # None => idempotency'[k] # None
       /\ Lock("record", k) \in calls[c].held => Ages(idempotency[k], idempotency'[k])

BehindJobs(c) ==
    \A k \in JobKeys :
       /\ jobs[k] # None => jobs'[k] # None
       /\ Lock("job", k) \in calls[c].held /\ Leasable(k) => Leasable(k)'

Behind(c) ==
    BehindCampaigns(c) /\ BehindOrders(c) /\ BehindClaims(c) /\ BehindRecords(c) /\ BehindJobs(c)

LEMMA CallOf ==
  ASSUME RepositoryInv, NEW c \in Callers, calls[c].at # "idle"
  PROVE  calls[c].call \in Calls
  BY DEF RepositoryInv, CallOK, RestingOK

LEMMA VerifiedStays ==
  ASSUME NEW c \in Callers, NEW p \in RecordKeys, BehindRecords(c), Verified(p),
         Lock("record", p) \in calls[c].held
  PROVE  Verified(p)'
  BY DEF BehindRecords, Ages, Verified

LEMMA CreatingStays ==
  ASSUME RepositoryInv, NEW c \in Callers, calls'[c] = calls[c], TablesTyped',
         BehindCampaigns(c), BehindRecords(c)
  PROVE  CreatingOK(c)'
<1> DEFINE call == calls[c].call
<1>1. CreatingOK(c) /\ TablesTyped /\ (calls[c].at # "idle" => call \in Calls)
  BY CallOf DEF RepositoryInv, CallOK
<1>2. "idle" \notin Unanswered
  BY DEF Unanswered
<1>3. ASSUME At(c, "createCampaign", "verified")
      PROVE  Verified(call.payment)'
  <2>1. call.payment \in RecordKeys
    BY <1>1, <1>3, CampaignCalls, RowsAssumption DEF At, CreatingOK
  <2> QED
    BY <1>1, <1>3, <2>1, VerifiedStays DEF CreatingOK, RecordRow
<1>4. ASSUME At(c, "createCampaign", "inserted")
      PROVE  Verified(call.payment)' /\ ~SlugTaken(call.id, call.slug)' /\ ~PaymentLinked(call.payment)'
  <2>1. /\ call.payment \in PaidKeys \ {None} /\ call.payment \in RecordKeys
        /\ call.slug \in Slugs
    BY <1>1, <1>4, CampaignCalls, RowsAssumption DEF At, CreatingOK
  <2>2. Verified(call.payment)'
    BY <1>1, <1>4, <2>1, VerifiedStays DEF CreatingOK, RecordRow
  <2>3. /\ Lock("slug", call.slug) \in calls[c].held
        /\ Lock("payment", call.payment) \in calls[c].held
        /\ ~SlugTaken(call.id, call.slug) /\ ~PaymentLinked(call.payment)
    BY <1>1, <1>4 DEF CreatingOK, SlugValue, PaymentValue
  <2>4. ~SlugTaken(call.id, call.slug)'
    BY <1>1, <2>1, <2>3 DEF BehindCampaigns, SlugTaken, Stored, TablesTyped
  <2>5. ~PaymentLinked(call.payment)'
    BY <1>1, <2>1, <2>3 DEF BehindCampaigns, PaymentLinked, Stored, TablesTyped
  <2> QED
    BY <2>2, <2>4, <2>5
<1>5. ASSUME calls[c].at \in Unanswered, call.op = "createCampaign"
      PROVE  campaigns'[call.id] = None
  <2>1. call.id \in Campaigns /\ Creates(c, call.id)
    BY <1>1, <1>2, <1>5, CampaignCalls DEF Creates
  <2> QED
    BY <1>1, <1>5, <2>1 DEF CreatingOK, BehindCampaigns
<1> QED
  BY <1>1, <1>3, <1>4, <1>5 DEF CreatingOK, At

LEMMA FreezingStays ==
  ASSUME RepositoryInv, NEW c \in Callers, calls'[c] = calls[c], TablesTyped',
         BehindCampaigns(c), BehindOrders(c)
  PROVE  FreezingOK(c)'
<1> DEFINE call == calls[c].call
           op == "createFundingOrderAndFreezeCampaign"
<1>1. FreezingOK(c) /\ TablesTyped /\ (calls[c].at # "idle" => call \in Calls)
  BY CallOf DEF RepositoryInv, CallOK
<1>2. ASSUME calls[c].at \in {"locked", "inserted", "violated"}, call.op = op
      PROVE  call.key \in OrderKeys /\ call.campaign \in Campaigns
  BY <1>1, <1>2, FundingOrderCalls
<1>3. ASSUME At(c, op, "locked") \/ At(c, op, "inserted")
      PROVE  Draft(call)'
  <2>1. Lock("campaign", call.campaign) \in calls[c].held /\ Draft(call)
    BY <1>1, <1>3 DEF FreezingOK, ForUpdate
  <2> QED
    BY <1>2, <1>3, <2>1 DEF BehindCampaigns, Draft, At
<1>4. ASSUME At(c, op, "inserted")
      PROVE  fundingOrders'[call.key] = None /\ ~OpenTaken(call.key, call.campaign)'
  <2>1. /\ Lock("order", call.key) \in calls[c].held
        /\ Lock("open", call.campaign) \in calls[c].held
        /\ fundingOrders[call.key] = None /\ ~OpenTaken(call.key, call.campaign)
    BY <1>1, <1>4 DEF FreezingOK, OrderRow, OpenOrder
  <2>2. call.key \in OrderKeys /\ call.campaign \in Campaigns
    BY <1>2, <1>4 DEF At
  <2>3. \A k \in OrderKeys : OpenAt(fundingOrders'[k], call.campaign) =>
                                OpenAt(fundingOrders[k], call.campaign)
    BY <2>1, <2>2 DEF BehindOrders
  <2>4. ~OpenTaken(call.key, call.campaign)'
    BY <1>1, <2>1, <2>3 DEF OpenTaken, OpenAt, Stored, TablesTyped
  <2> QED
    BY <2>1, <2>2, <2>4 DEF BehindOrders
<1>5. ASSUME At(c, op, "violated")
      PROVE  calls[c].met \/ fundingOrders'[call.key] # None
  BY <1>1, <1>2, <1>5 DEF FreezingOK, BehindOrders, At
<1> QED
  BY <1>1, <1>3, <1>4, <1>5 DEF FreezingOK, At

LEMMA PayingStays ==
  ASSUME RepositoryInv, NEW c \in Callers, calls'[c] = calls[c], BehindCampaigns(c), BehindClaims(c)
  PROVE  PayingOK(c)'
<1> DEFINE call == calls[c].call
           id == claims[call.key].campaign
           submit == "submitClaimAtomically"
           final == "finalizeOneClickPayoutAtomically"
<1>1. PayingOK(c) /\ TablesTyped /\ (calls[c].at # "idle" => call \in Calls)
  BY CallOf DEF RepositoryInv, CallOK
<1>2. ASSUME \/ At(c, submit, "locked") \/ At(c, submit, "claiming")
             \/ At(c, final, "claim locked") \/ At(c, final, "both locked")
      PROVE  /\ call.key \in ClaimKeys
             /\ Lock("claim", call.key) \in calls[c].held
             /\ claims[call.key] # None
  BY <1>1, <1>2, ClaimCalls DEF At, PayingOK, ClaimRow, Submittable
<1>3. ASSUME At(c, submit, "locked") \/ At(c, submit, "claiming")
      PROVE  Submittable(call)'
  BY <1>1, <1>2, <1>3 DEF PayingOK, Submittable, BehindClaims
<1>4. ASSUME At(c, submit, "claiming")
      PROVE  Claimable(id, call)' /\ (ClaimRow(call.key) \cup CampaignRow(id))' = calls[c].held
  <2>1. id \in Campaigns /\ claims'[call.key] = claims[call.key]
    BY <1>1, <1>2, <1>4 DEF TablesTyped, Claim, BehindClaims
  <2>2. Lock("campaign", id) \in calls[c].held /\ Claimable(id, call)
        /\ calls[c].held = ClaimRow(call.key) \cup CampaignRow(id)
    BY <1>1, <1>4 DEF PayingOK, CampaignRow
  <2>3. campaigns'[id] = campaigns[id]
    BY <2>1, <2>2 DEF BehindCampaigns, Claimable
  <2>4. id' = id /\ call' = call
    BY <2>1
  <2>5. Claimable(id, call)'
    BY <2>2, <2>3, <2>4 DEF Claimable
  <2> QED
    BY <2>2, <2>4, <2>5 DEF ClaimRow, CampaignRow, Lock
<1>5. ASSUME At(c, final, "both locked")
      PROVE  Payable(call)'
  <2>1. call.campaign \in Campaigns /\ claims'[call.key] = claims[call.key]
    BY <1>1, <1>2, <1>5, ClaimCalls DEF At, BehindClaims
  <2>2. Lock("campaign", call.campaign) \in calls[c].held /\ Payable(call)
    BY <1>1, <1>5 DEF PayingOK, ForUpdate
  <2> QED
    BY <2>1, <2>2 DEF BehindCampaigns, Payable
<1>6. ASSUME At(c, final, "claim locked") \/ At(c, final, "both locked")
      PROVE  claims'[call.key] # None
  BY <1>2, <1>6 DEF BehindClaims
<1> QED
  BY <1>1, <1>3, <1>4, <1>5, <1>6 DEF PayingOK, At

LEMMA ReservingStays ==
  ASSUME RepositoryInv, NEW c \in Callers, calls'[c] = calls[c], BehindRecords(c)
  PROVE  ReservingOK(c)'
<1> DEFINE call == calls[c].call
           reserve == "reserveIdempotency"
           acquire == "acquireIdempotencyProcessingLease"
<1>1. ReservingOK(c) /\ (calls[c].at # "idle" => call \in Calls)
  BY CallOf DEF RepositoryInv, CallOK
<1>2. ASSUME calls[c].at # "idle", call.op \in {reserve, acquire}
      PROVE  call.key \in RecordKeys
  BY <1>1, <1>2, IdempotencyCalls
<1>3. ASSUME call.key \in RecordKeys, Lock("record", call.key) \in calls[c].held,
             idempotency[call.key] # None, ~Kept(call.key)
      PROVE  idempotency'[call.key] # None /\ ~Kept(call.key)'
  BY <1>3 DEF BehindRecords, Ages, Kept
<1>4. ASSUME At(c, reserve, "deleted")
      PROVE  \/ calls[c].held = {}
             \/ /\ idempotency'[call.key] # None /\ ~Kept(call.key)'
                /\ calls[c].held = RecordRow(call.key)
  BY <1>1, <1>2, <1>3, <1>4 DEF At, ReservingOK, RecordRow
<1>5. ASSUME At(c, reserve, "inserted")
      PROVE  idempotency'[call.key] = None \/ (idempotency'[call.key] # None /\ ~Kept(call.key)')
  <2>1. call.key \in RecordKeys /\ Lock("record", call.key) \in calls[c].held
    BY <1>1, <1>2, <1>5 DEF At, ReservingOK, RecordRow
  <2> QED
    BY <1>1, <1>3, <1>5, <2>1 DEF ReservingOK, BehindRecords, Ages
<1>6. ASSUME At(c, reserve, "conflict") \/ At(c, acquire, "called")
      PROVE  idempotency'[call.key] # None
  BY <1>1, <1>2, <1>6 DEF At, ReservingOK, BehindRecords
<1>7. ASSUME At(c, acquire, "updated")
      PROVE  Takeable(call)'
  <2>1. call.key \in RecordKeys /\ Lock("record", call.key) \in calls[c].held /\ Takeable(call)
    BY <1>1, <1>2, <1>7 DEF At, ReservingOK, RecordRow
  <2> QED
    BY <2>1 DEF BehindRecords, Ages, Takeable
<1> QED
  BY <1>1, <1>4, <1>5, <1>6, <1>7 DEF ReservingOK, At

LEMMA LeasingStays ==
  ASSUME RepositoryInv, NEW c \in Callers, calls'[c] = calls[c], BehindJobs(c)
  PROVE  LeasingOK(c)'
<1> DEFINE call == calls[c].call
<1>1. LeasingOK(c) /\ (calls[c].at # "idle" => call \in Calls)
  BY CallOf DEF RepositoryInv, CallOK
<1>2. ASSUME At(c, "enqueueJob", "conflict")
      PROVE  jobs'[call.key] # None
  BY <1>1, <1>2, OtherCalls DEF At, LeasingOK, BehindJobs
<1>3. Taken(c)' = Taken(c)
  BY DEF Taken
<1>4. ASSUME NEW k \in Taken(c), Leasable(k)
      PROVE  Leasable(k)'
  BY <1>4 DEF Taken, JobRow, BehindJobs
<1> QED
  BY <1>1, <1>2, <1>3, <1>4 DEF LeasingOK, At

\* What a caller relies on stays so when another one, who respects its locks, takes a step.
LEMMA CallStays ==
  ASSUME RepositoryInv, NEW c \in Callers, calls'[c] = calls[c], TablesTyped', Behind(c)
  PROVE  CallOK(c)'
<1>1. RestingOK(c)'
  BY DEF RepositoryInv, CallOK, RestingOK
<1> QED
  BY <1>1, CreatingStays, FreezingStays, PayingStays, ReservingStays, LeasingStays
     DEF Behind, CallOK

-----------------------------------------------------------------------------
(* Steps of one call.                                                       *)

LEMMA NothingBehind ==
  ASSUME UNCHANGED tables, NEW d
  PROVE  Behind(d)
<1> USE DEF tables
<1>1. BehindCampaigns(d) /\ BehindOrders(d) /\ BehindClaims(d)
  BY DEF BehindCampaigns, BehindOrders, BehindClaims
<1>2. BehindRecords(d)
  BY DEF BehindRecords, Ages
<1>3. BehindJobs(d)
  BY DEF BehindJobs, Leasable
<1> QED
  BY <1>1, <1>2, <1>3 DEF Behind

LEMMA TablesStill ==
  ASSUME RepositoryInv, UNCHANGED tables
  PROVE  TablesTyped' /\ OpenOrdersUnique' /\ WinnersUnique' /\ NamesUnique'
  BY DEF RepositoryInv, tables, TablesTyped, OpenOrdersUnique, WinnersUnique, NamesUnique, Stored

Shaped(state) ==
    state = [at |-> state.at, call |-> state.call, answer |-> state.answer, met |-> state.met,
             total |-> state.total, held |-> state.held]

LEMMA CallStep ==
  ASSUME RepositoryInv, NEW c \in Callers, NEW state, Becomes(c, state), Shaped(state),
         workload' \in Workloads,
         TablesTyped', OpenOrdersUnique', WinnersUnique', NamesUnique',
         \A d \in Callers \ {c} : Behind(d) /\ state.held \cap calls[d].held = {},
         state.at = "idle" \/ (state.call = calls[c].call /\ calls[c].at # "idle"),
         CallOK(c)'
  PROVE  RepositoryInv'
<1>1. calls'[c] = state /\ \A d \in Callers \ {c} : calls'[d] = calls[d]
  BY BecomesFacts DEF RepositoryInv
<1>2. CallsShaped'
  BY ShapedStep DEF RepositoryInv, Shaped
<1>3. LocksExclusive'
  BY <1>1 DEF RepositoryInv, LocksExclusive
<1>4. NewIds'
  <2>1. \A d \in Callers, x \in Campaigns : Creates(d, x)' => Creates(d, x)
    BY <1>1 DEF Creates
  <2> QED
    BY <2>1 DEF RepositoryInv, NewIds
<1>5. \A d \in Callers : CallOK(d)'
  BY <1>1, CallStays
<1> QED
  BY <1>2, <1>3, <1>4, <1>5 DEF RepositoryInv

\* An answered call relies on nothing.
LEMMA EndedOK ==
  ASSUME RepositoryInv, NEW c \in Callers, NEW answer, NEW at \in {"answered", "reading"},
         calls[c].at # "idle", Becomes(c, Ended(c, at, answer))
  PROVE  CallOK(c)'
<1>1. /\ calls'[c].at = at /\ calls'[c].call = calls[c].call /\ calls'[c].held = {}
      /\ calls[c].call \in Calls
  BY BecomesFacts, CallOf DEF RepositoryInv, Ended
<1>2. CreatingOK(c)'
  BY <1>1 DEF CreatingOK, At, Unanswered
<1>3. FreezingOK(c)'
  BY <1>1 DEF FreezingOK, At
<1>4. PayingOK(c)'
  BY <1>1 DEF PayingOK, At
<1>5. ReservingOK(c)' /\ LeasingOK(c)'
  BY <1>1 DEF ReservingOK, LeasingOK, At
<1>6. RestingOK(c)'
  BY <1>1 DEF RestingOK
<1> QED
  BY <1>2, <1>3, <1>4, <1>5, <1>6 DEF CallOK

\* A call that is answered after it has written.
LEMMA CommitKeeps ==
  ASSUME RepositoryInv, NEW c \in Callers, NEW answer, calls[c].at \in Unanswered,
         Answer(c, answer), UNCHANGED workload,
         TablesTyped', OpenOrdersUnique', WinnersUnique', NamesUnique',
         \A d \in Callers \ {c} : Behind(d)
  PROVE  RepositoryInv' /\ Interface!Answer(c, answer)
<1> DEFINE state == Ended(c, "answered", answer)
<1>1. Becomes(c, state)
  BY AnswerBecomes DEF RepositoryInv
<1>2. calls[c].at # "idle"
  BY DEF Unanswered
<1>3. CallOK(c)'
  BY <1>1, <1>2, EndedOK
<1>4. Shaped(state) /\ state.held = {} /\ state.call = calls[c].call
  BY DEF Shaped, Ended
<1>5. RepositoryInv'
  BY <1>1, <1>2, <1>3, <1>4, CallStep DEF RepositoryInv
<1> QED
  BY <1>1, <1>5, AnswerSeen DEF RepositoryInv

\* A call that ends, or whose answer is decided, without an effect.
LEMMA EndKeeps ==
  ASSUME RepositoryInv, NEW c \in Callers, NEW answer, calls[c].at # "idle",
         Only(c, answer) \/ Decide(c, answer)
  PROVE  RepositoryInv' /\ Interface!Only(c, answer)
<1>1. PICK at \in {"answered", "reading"} : Becomes(c, Ended(c, at, answer))
  BY AnswerBecomes DEF RepositoryInv, Only
<1> DEFINE state == Ended(c, at, answer)
<1>2. UNCHANGED <<tables, workload>>
  BY DEF Only, Decide
<1>3. CallOK(c)'
  BY <1>1, EndedOK
<1>4. Shaped(state) /\ state.held = {} /\ state.call = calls[c].call
  BY DEF Shaped, Ended
<1>5. RepositoryInv'
  BY <1>1, <1>2, <1>3, <1>4, CallStep, NothingBehind, TablesStill DEF RepositoryInv
<1>6. Interface!Answer(c, answer)
  BY <1>1, AnswerSeen DEF RepositoryInv
<1> QED
  BY <1>2, <1>5, <1>6 DEF Interface!Only, Interface!tables, tables

LEMMA OnlyKeeps ==
  ASSUME RepositoryInv, NEW c \in Callers, NEW answer, calls[c].at \in Unanswered,
         Only(c, answer) \/ Decide(c, answer)
  PROVE  RepositoryInv' /\ Interface!Only(c, answer)
<1>1. calls[c].at # "idle"
  BY DEF Unanswered
<1> QED
  BY <1>1, EndKeeps

\* A statement of a transaction that goes on.
LEMMA ProceedKeeps ==
  ASSUME RepositoryInv, NEW c \in Callers, NEW at \in Unanswered, NEW locks,
         calls[c].at \in Unanswered, Proceed(c, at, locks), locks = {} \/ Free(c, locks),
         CallOK(c)'
  PROVE  RepositoryInv' /\ UNCHANGED Interface!vars
<1> DEFINE state == Moving(c, at, calls[c].held \cup locks)
<1>1. Becomes(c, state)
  BY ProceedBecomes DEF RepositoryInv
<1>2. calls[c].at # "idle" /\ UNCHANGED <<tables, workload>>
  BY DEF Unanswered, Proceed
<1>3. Shaped(state) /\ state.held = calls[c].held \cup locks /\ state.call = calls[c].call
  BY DEF Shaped, Moving
<1>4. \A d \in Callers \ {c} : state.held \cap calls[d].held = {}
  BY <1>3 DEF RepositoryInv, LocksExclusive, Free
<1>5. RepositoryInv'
  BY <1>1, <1>2, <1>3, <1>4, CallStep, NothingBehind, TablesStill DEF RepositoryInv
<1>6. UNCHANGED SeenCalls
  BY <1>1, MovingSeen DEF RepositoryInv
<1> QED
  BY <1>2, <1>5, <1>6 DEF Interface!vars, Interface!tables, tables

LEMMA ProceedFacts ==
  ASSUME RepositoryInv, NEW c \in Callers, NEW at, NEW locks, Proceed(c, at, locks),
         calls[c].at \in Unanswered
  PROVE  /\ calls'[c].at = at /\ calls'[c].call = calls[c].call /\ calls'[c].met = calls[c].met
         /\ calls'[c].total = calls[c].total /\ calls'[c].held = calls[c].held \cup locks
         /\ calls[c].call \in Calls /\ UNCHANGED tables
<1>1. Becomes(c, Moving(c, at, calls[c].held \cup locks))
  BY ProceedBecomes DEF RepositoryInv
<1>2. calls[c].at # "idle"
  BY DEF Unanswered
<1>3. calls'[c] = Moving(c, at, calls[c].held \cup locks)
  BY <1>1, BecomesFacts DEF RepositoryInv
<1>4. calls[c].call \in Calls
  BY <1>2, CallOf
<1>5. UNCHANGED tables
  BY DEF Proceed
<1> QED
  BY <1>3, <1>4, <1>5 DEF Moving

-----------------------------------------------------------------------------
(* Writes of the tables.                                                    *)

\* The step leaves the table typed and unique, and what the others rely on.
CampaignsKept(c) ==
    /\ campaigns' \in [Campaigns -> Campaign \cup {None}] /\ NamesUnique'
    /\ \A d \in Callers \ {c} : BehindCampaigns(d)

OrdersKept(c) ==
    /\ fundingOrders' \in [OrderKeys -> FundingOrder \cup {None}] /\ OpenOrdersUnique'
    /\ \A d \in Callers \ {c} : BehindOrders(d)

ClaimsKept(c) ==
    /\ claims' \in [ClaimKeys -> Claim \cup {None}] /\ WinnersUnique'
    /\ \A d \in Callers \ {c} : BehindClaims(d)

RecordsKept(c) ==
    /\ idempotency' \in [RecordKeys -> IdempotencyRecord \cup {None}]
    /\ \A d \in Callers \ {c} : BehindRecords(d)

JobsKept(c) ==
    /\ jobs' \in [JobKeys -> Job \cup {None}]
    /\ \A d \in Callers \ {c} : BehindJobs(d)

EventsKept == events' \in Seq(OperationEvent)

LEMMA Unwritten ==
  ASSUME RepositoryInv, NEW c \in Callers
  PROVE  /\ UNCHANGED campaigns => CampaignsKept(c)
         /\ UNCHANGED fundingOrders => OrdersKept(c)
         /\ UNCHANGED claims => ClaimsKept(c)
         /\ UNCHANGED idempotency => RecordsKept(c)
         /\ UNCHANGED jobs => JobsKept(c)
         /\ UNCHANGED events => EventsKept
<1> USE DEF RepositoryInv, TablesTyped
<1>1. UNCHANGED campaigns => CampaignsKept(c)
  BY DEF CampaignsKept, NamesUnique, Stored, BehindCampaigns
<1>2. UNCHANGED fundingOrders => OrdersKept(c)
  BY DEF OrdersKept, OpenOrdersUnique, Stored, BehindOrders
<1>3. UNCHANGED claims => ClaimsKept(c)
  BY DEF ClaimsKept, WinnersUnique, Stored, BehindClaims
<1>4. UNCHANGED idempotency => RecordsKept(c)
  BY DEF RecordsKept, BehindRecords, Ages
<1>5. UNCHANGED jobs => JobsKept(c)
  BY DEF JobsKept, BehindJobs, Leasable
<1>6. UNCHANGED events => EventsKept
  BY DEF EventsKept
<1> QED
  BY <1>1, <1>2, <1>3, <1>4, <1>5, <1>6

\* A call that is answered after it has written, with each table in order.
LEMMA WriteKeeps ==
  ASSUME RepositoryInv, NEW c \in Callers, NEW answer, calls[c].at \in Unanswered,
         Answer(c, answer), UNCHANGED workload,
         CampaignsKept(c), OrdersKept(c), ClaimsKept(c), RecordsKept(c), JobsKept(c), EventsKept
  PROVE  RepositoryInv' /\ Interface!Answer(c, answer)
<1>1. TablesTyped'
  BY DEF TablesTyped, CampaignsKept, OrdersKept, ClaimsKept, RecordsKept, JobsKept, EventsKept
<1>2. OpenOrdersUnique' /\ WinnersUnique' /\ NamesUnique'
  BY DEF CampaignsKept, OrdersKept, ClaimsKept
<1>3. \A d \in Callers \ {c} : Behind(d)
  BY DEF Behind, CampaignsKept, OrdersKept, ClaimsKept, RecordsKept, JobsKept
<1> QED
  BY <1>1, <1>2, <1>3, CommitKeeps

\* A row of a campaign, at whose index values nobody else is.
LEMMA CampaignWritten ==
  ASSUME RepositoryInv, NEW c \in Callers, NEW x \in Campaigns, NEW row \in Campaign,
         campaigns' = [campaigns EXCEPT ![x] = row],
         ~SlugTaken(x, row.slug),
         row.payment # None =>
            \A y \in Stored(campaigns) \ {x} : campaigns[y].payment # row.payment,
         campaigns[x] # None => Free(c, CampaignRow(x)),
         campaigns[x] = None => \A d \in Callers \ {c} : ~Creates(d, x),
         (campaigns[x] # None /\ row.slug = campaigns[x].slug) \/ Free(c, SlugValue(row.slug)),
         \/ row.payment = None
         \/ campaigns[x] # None /\ row.payment = campaigns[x].payment
         \/ Free(c, PaymentValue(row.payment))
  PROVE  CampaignsKept(c)
<1>1. /\ campaigns \in [Campaigns -> Campaign \cup {None}] /\ NamesUnique
      /\ row # None
  BY AbsenceAssumption DEF RepositoryInv, TablesTyped
<1>2. /\ campaigns' \in [Campaigns -> Campaign \cup {None}] /\ campaigns'[x] = row
      /\ \A y \in Campaigns \ {x} : campaigns'[y] = campaigns[y]
  BY <1>1
<1>3. NamesUnique'
  BY <1>1, <1>2 DEF NamesUnique, Stored, SlugTaken
<1>4. ASSUME NEW d \in Callers \ {c}
      PROVE  BehindCampaigns(d)
  <2>1. \A y \in Campaigns :
           /\ Lock("campaign", y) \in calls[d].held /\ campaigns[y] # None =>
                 campaigns'[y] = campaigns[y]
           /\ Creates(d, y) /\ campaigns[y] = None => campaigns'[y] = None
    BY <1>1, <1>2 DEF Free, CampaignRow
  <2>2. \A y \in Campaigns, s \in Slugs :
           Lock("slug", s) \in calls[d].held /\ campaigns'[y] # None /\ campaigns'[y].slug = s =>
              campaigns[y] # None /\ campaigns[y].slug = s
    BY <1>1, <1>2 DEF Free, SlugValue
  <2>3. \A y \in Campaigns, p \in PaidKeys \ {None} :
           /\ Lock("payment", p) \in calls[d].held
           /\ campaigns'[y] # None /\ campaigns'[y].payment = p
           => campaigns[y] # None /\ campaigns[y].payment = p
    BY <1>1, <1>2 DEF Free, PaymentValue
  <2> QED
    BY <2>1, <2>2, <2>3 DEF BehindCampaigns
<1> QED
  BY <1>2, <1>3, <1>4 DEF CampaignsKept

LEMMA CampaignMovedType ==
  ASSUME NEW row \in Campaign, NEW to \in CampaignStatus
  PROVE  /\ Moved(row, to) \in Campaign /\ Moved(row, to).slug = row.slug
         /\ Moved(row, to).payment = row.payment
<1>1. row.version + 1 \in Nat \ {0}
  BY DEF Campaign
<1> QED
  BY <1>1 DEF Moved, Campaign

\* A new status of a campaign leaves its names.
LEMMA CampaignMoved ==
  ASSUME RepositoryInv, NEW c \in Callers, NEW x \in Campaigns, campaigns[x] # None,
         NEW to \in CampaignStatus, Free(c, CampaignRow(x)),
         campaigns' = [campaigns EXCEPT ![x] = Moved(campaigns[x], to)]
  PROVE  CampaignsKept(c)
<1> DEFINE row == Moved(campaigns[x], to)
<1>1. campaigns[x] \in Campaign /\ NamesUnique
  BY DEF RepositoryInv, TablesTyped
<1>2. /\ row \in Campaign /\ row.slug = campaigns[x].slug
      /\ row.payment = campaigns[x].payment
  BY <1>1, CampaignMovedType
<1>3. ~SlugTaken(x, row.slug)
  BY <1>1, <1>2 DEF SlugTaken, NamesUnique, Stored, RepositoryInv, TablesTyped
<1>4. row.payment # None => \A y \in Stored(campaigns) \ {x} : campaigns[y].payment # row.payment
  BY <1>1, <1>2 DEF NamesUnique, Stored, RepositoryInv, TablesTyped
<1> HIDE DEF row
<1> QED
  BY <1>2, <1>3, <1>4, CampaignWritten DEF row

\* A row of an order, the only open one of its campaign if it is open.
LEMMA OrderWritten ==
  ASSUME RepositoryInv, NEW c \in Callers, NEW k \in OrderKeys, NEW row \in FundingOrder,
         fundingOrders' = [fundingOrders EXCEPT ![k] = row],
         Free(c, OrderRow(k)),
         row.status \notin ClosedOrders =>
            ~OpenTaken(k, row.campaign) /\ Free(c, OpenOrder(row.campaign))
  PROVE  OrdersKept(c)
<1>1. /\ fundingOrders \in [OrderKeys -> FundingOrder \cup {None}] /\ OpenOrdersUnique
      /\ row # None
  BY AbsenceAssumption DEF RepositoryInv, TablesTyped
<1>2. /\ fundingOrders' \in [OrderKeys -> FundingOrder \cup {None}] /\ fundingOrders'[k] = row
      /\ \A l \in OrderKeys \ {k} : fundingOrders'[l] = fundingOrders[l]
  BY <1>1
<1>3. OpenOrdersUnique'
  BY <1>1, <1>2 DEF OpenOrdersUnique, Stored, OpenTaken
<1>4. ASSUME NEW d \in Callers \ {c}
      PROVE  BehindOrders(d)
  BY <1>1, <1>2 DEF BehindOrders, Free, OrderRow, OpenOrder, OpenAt
<1> QED
  BY <1>2, <1>3, <1>4 DEF OrdersKept

\* A row of a claim, the only winner of its campaign if it is one.
LEMMA ClaimWritten ==
  ASSUME RepositoryInv, NEW c \in Callers, NEW k \in ClaimKeys, NEW row \in Claim,
         claims' = [claims EXCEPT ![k] = row],
         claims[k] # None => Free(c, ClaimRow(k)),
         row.status \in WinningStatus =>
            \A l \in Stored(claims) \ {k} :
               claims[l].campaign = row.campaign => claims[l].status \notin WinningStatus
  PROVE  ClaimsKept(c)
<1>1. /\ claims \in [ClaimKeys -> Claim \cup {None}] /\ WinnersUnique /\ row # None
  BY AbsenceAssumption DEF RepositoryInv, TablesTyped
<1>2. /\ claims' \in [ClaimKeys -> Claim \cup {None}] /\ claims'[k] = row
      /\ \A l \in ClaimKeys \ {k} : claims'[l] = claims[l]
  BY <1>1
<1>3. WinnersUnique'
  BY <1>1, <1>2 DEF WinnersUnique, Stored
<1>4. ASSUME NEW d \in Callers \ {c}
      PROVE  BehindClaims(d)
  BY <1>1, <1>2 DEF BehindClaims, Free, ClaimRow
<1> QED
  BY <1>2, <1>3, <1>4 DEF ClaimsKept

LEMMA RecordWritten ==
  ASSUME RepositoryInv, NEW c \in Callers, NEW k \in RecordKeys, NEW row \in IdempotencyRecord,
         idempotency' = [idempotency EXCEPT ![k] = row], Free(c, RecordRow(k))
  PROVE  RecordsKept(c)
<1>1. idempotency \in [RecordKeys -> IdempotencyRecord \cup {None}] /\ row # None
  BY AbsenceAssumption DEF RepositoryInv, TablesTyped
<1>2. /\ idempotency' \in [RecordKeys -> IdempotencyRecord \cup {None}] /\ idempotency'[k] = row
      /\ \A l \in RecordKeys \ {k} : idempotency'[l] = idempotency[l]
  BY <1>1
<1>3. ASSUME NEW d \in Callers \ {c}
      PROVE  BehindRecords(d)
  BY <1>1, <1>2 DEF BehindRecords, Free, RecordRow, Ages
<1> QED
  BY <1>2, <1>3 DEF RecordsKept

\* Rows of jobs that nobody else has locked, or that are new.
LEMMA JobsWritten ==
  ASSUME RepositoryInv, NEW c \in Callers, jobs' \in [JobKeys -> Job \cup {None}],
         \A k \in JobKeys : /\ jobs[k] # None => jobs'[k] # None
                            /\ jobs[k] # None /\ jobs'[k] # jobs[k] => Free(c, JobRow(k))
  PROVE  JobsKept(c)
<1>1. ASSUME NEW d \in Callers \ {c}
      PROVE  BehindJobs(d)
  BY DEF BehindJobs, Free, JobRow, Leasable
<1> QED
  BY <1>1 DEF JobsKept

-----------------------------------------------------------------------------
(* The operators of the interface are those of its implementation.           *)

LEMMA AsksFor ==
  ASSUME NEW c \in Callers, NEW op, NEW at \in Unanswered, At(c, op, at)
  PROVE  Interface!Asks(c, op) /\ SeenCalls[c].call = calls[c].call /\ calls[c].at \in Unanswered
  BY SeenFacts DEF At, Interface!Asks

LEMMA SameCardinality ==
  ASSUME NEW S
  PROVE  Interface!Cardinality(S) = Cardinality(S)
  BY Zenon DEF Interface!Cardinality, Cardinality

LEMMA SameCampaigns ==
         /\ \A id, slug : Interface!SlugTaken(id, slug) <=> SlugTaken(id, slug)
         /\ \A p : Interface!PaymentLinked(p) <=> PaymentLinked(p)
         /\ \A p : Interface!Linkable(p) <=> Verified(p)
         /\ \A call : Interface!NewCampaign(call) = NewCampaign(call)
         /\ \A row, to : Interface!Moved(row, to) = Moved(row, to)
  BY DEF Interface!SlugTaken, SlugTaken, Interface!PaymentLinked, PaymentLinked,
     Interface!Linkable, Verified, Interface!NewCampaign, NewCampaign, Interface!Moved, Moved,
     Interface!Stored, Stored

LEMMA SameOrders ==
         /\ \A k, x : Interface!OpenOrders(x) \ {k} # {} <=> OpenTaken(k, x)
         /\ \A x : Interface!OpenOrders(x) # {} <=>
                      \E k \in Stored(fundingOrders) :
                         /\ fundingOrders[k].campaign = x
                         /\ fundingOrders[k].status \notin ClosedOrders
         /\ Interface!ClosedOrders = ClosedOrders
         /\ \A call : Interface!NewOrder(call) = NewOrder(call)
<1>1. Interface!ClosedOrders = ClosedOrders
  BY DEF Interface!ClosedOrders, ClosedOrders
<1>2. \A x : Interface!OpenOrders(x) =
                {k \in Stored(fundingOrders) : /\ fundingOrders[k].campaign = x
                                               /\ fundingOrders[k].status \notin ClosedOrders}
  BY <1>1 DEF Interface!OpenOrders, Interface!Stored, Stored
<1> QED
  BY <1>1, <1>2 DEF OpenTaken, Interface!NewOrder, NewOrder

LEMMA SameClaims ==
         /\ \A k : Interface!OthersWon(k) <=> WinnerTaken(k)
         /\ \A call : Interface!NewClaim(call) = NewClaim(call)
         /\ \A row, call, to : Interface!Patched(row, call, to) = Patched(row, call, to)
  BY DEF Interface!OthersWon, Interface!Winners, WinnerTaken, Interface!WinningStatus, WonStatus,
     Interface!Stored, Stored, Interface!NewClaim, NewClaim, Interface!Patched, Patched,
     Interface!Moved, Moved

LEMMA SameRecords ==
         /\ \A k : Interface!Kept(k) <=> Kept(k)
         /\ \A row, call : Interface!Owned(row, call) <=> OwnedAt(row, call)
         /\ \A call : Interface!NewRecord(call) = NewRecord(call)
         /\ \A row, result : Interface!Concluded(row, result) = Finished(row, result)
         /\ \A from, to : <<from, to>> \in Interface!Follows <=> StageFollows(from, to)
  BY DEF Interface!Kept, Kept, Interface!Owned, OwnedAt, Interface!NewRecord, NewRecord,
     Interface!Concluded, Finished, Interface!Follows, StageFollows

LEMMA SameJobs ==
         /\ \A k : Interface!Leasable(k) <=> Leasable(k)
         /\ Interface!NewJob = NewJob
         /\ \A key : Interface!Recorded(key) <=> Recorded(key)
  BY DEF Interface!Leasable, Leasable, Interface!NewJob, NewJob, Interface!Recorded, Recorded

-----------------------------------------------------------------------------
(* The calls about campaigns.                                               *)

LEMMA NewCampaignWritten ==
  ASSUME RepositoryInv, NEW c \in Callers, calls[c].at \in Unanswered,
         calls[c].call.op = "createCampaign",
         ~SlugTaken(calls[c].call.id, calls[c].call.slug), Free(c, SlugValue(calls[c].call.slug)),
         calls[c].call.payment # None =>
            ~PaymentLinked(calls[c].call.payment) /\ Free(c, PaymentValue(calls[c].call.payment)),
         campaigns' = [campaigns EXCEPT ![calls[c].call.id] = NewCampaign(calls[c].call)]
  PROVE  CampaignsKept(c)
<1> DEFINE call == calls[c].call
           row == NewCampaign(call)
<1>1. calls[c].at # "idle" /\ CallOK(c)
  BY DEF Unanswered, RepositoryInv
<1>2. /\ call.id \in Campaigns /\ call.slug \in Slugs /\ call.creator \in Creators
      /\ call.payment \in PaidKeys \cup {None}
  BY <1>1, CallOf, CampaignCalls
<1>3. row \in Campaign /\ row.slug = call.slug /\ row.payment = call.payment
  BY <1>2 DEF NewCampaign, Campaign, CampaignStatus
<1>4. campaigns[call.id] = None
  BY <1>1 DEF CallOK, CreatingOK
<1>5. \A d \in Callers \ {c} : ~Creates(d, call.id)
  BY <1>1, <1>2 DEF RepositoryInv, NewIds, Creates
<1>6. row.payment # None =>
         \A y \in Stored(campaigns) \ {call.id} : campaigns[y].payment # row.payment
  BY <1>3 DEF PaymentLinked
<1> HIDE DEF row
<1> QED
  BY <1>2, <1>3, <1>4, <1>5, <1>6, CampaignWritten DEF row

LEMMA InsertCampaignKeeps ==
  ASSUME RepositoryInv, NEW c \in Callers, InsertCampaign(c)
  PROVE  RepositoryInv' /\ Interface!CreateCampaign(c)
<1> DEFINE call == calls[c].call
<1>1. /\ Interface!Asks(c, "createCampaign") /\ SeenCalls[c].call = call
      /\ calls[c].at \in Unanswered /\ call.op = "createCampaign" /\ call.payment = None
  BY AsksFor DEF InsertCampaign, Unanswered, At
<1>2. CASE SlugTaken(call.id, call.slug) /\ Only(c, <<"refused">>)
  BY <1>1, <1>2, OnlyKeeps, SameCampaigns DEF Interface!CreateCampaign
<1>3. CASE /\ ~SlugTaken(call.id, call.slug)
           /\ campaigns' = [campaigns EXCEPT ![call.id] = NewCampaign(call)]
           /\ Answer(c, <<"created">>)
           /\ UNCHANGED allButCampaigns
  <2>1. CampaignsKept(c)
    BY <1>1, <1>3, NewCampaignWritten DEF InsertCampaign
  <2>2. RepositoryInv' /\ Interface!Answer(c, <<"created">>)
    BY <1>1, <1>3, <2>1, Unwritten, WriteKeeps DEF allButCampaigns
  <2> QED
    BY <1>1, <1>3, <2>2, SameCampaigns DEF Interface!CreateCampaign, allButCampaigns
<1> QED
  BY <1>2, <1>3 DEF InsertCampaign

LEMMA LockReceiptKeeps ==
  ASSUME RepositoryInv, NEW c \in Callers, LockReceipt(c)
  PROVE  RepositoryInv' /\ (Interface!CreateCampaign(c) \/ UNCHANGED Interface!vars)
<1> DEFINE call == calls[c].call
<1>1. /\ Interface!Asks(c, "createCampaign") /\ SeenCalls[c].call = call
      /\ calls[c].at \in Unanswered /\ call.op = "createCampaign" /\ call.payment # None
      /\ calls[c].at = "called"
  BY AsksFor DEF LockReceipt, Unanswered, At
<1>2. CASE ~Verified(call.payment) /\ Only(c, <<"refused">>)
  BY <1>1, <1>2, OnlyKeeps, SameCampaigns DEF Interface!CreateCampaign
<1>3. CASE Verified(call.payment) /\ Proceed(c, "verified", RecordRow(call.payment))
  <2>1. Free(c, RecordRow(call.payment))
    BY <1>3 DEF LockReceipt, Verified
  <2>2. calls[c].held = {} /\ campaigns[call.id] = None
    BY <1>1 DEF RepositoryInv, CallOK, RestingOK, CreatingOK
  <2>3. /\ calls'[c].at = "verified" /\ calls'[c].call = call
        /\ calls'[c].held = calls[c].held \cup RecordRow(call.payment)
        /\ call \in Calls /\ UNCHANGED tables
    BY <1>1, <1>3, ProceedFacts
  <2>4. CreatingOK(c)'
    BY <1>1, <1>3, <2>2, <2>3 DEF CreatingOK, At, Verified, RecordRow, Lock, tables
  <2>5. "verified" \in Unanswered
    BY DEF Unanswered
  <2>6. CallOK(c)'
    BY <1>1, <2>3, <2>4 DEF CallOK, FreezingOK, PayingOK, ReservingOK, LeasingOK, RestingOK, At,
       Unanswered
  <2> QED
    BY <1>1, <1>3, <2>1, <2>5, <2>6, ProceedKeeps
<1> QED
  BY <1>2, <1>3 DEF LockReceipt

LEMMA InsertLinkedCampaignKeeps ==
  ASSUME RepositoryInv, NEW c \in Callers, InsertLinkedCampaign(c)
  PROVE  RepositoryInv' /\ (Interface!CreateCampaign(c) \/ UNCHANGED Interface!vars)
<1> DEFINE call == calls[c].call
           values == SlugValue(call.slug) \cup PaymentValue(call.payment)
<1>1. /\ Interface!Asks(c, "createCampaign") /\ SeenCalls[c].call = call
      /\ calls[c].at \in Unanswered /\ call.op = "createCampaign" /\ Free(c, values)
  BY AsksFor DEF InsertLinkedCampaign, Unanswered, At
<1>2. /\ call.payment # None /\ Verified(call.payment) /\ campaigns[call.id] = None
      /\ calls[c].held = RecordRow(call.payment)
  BY <1>1 DEF RepositoryInv, CallOK, CreatingOK, InsertLinkedCampaign
<1>3. CASE /\ SlugTaken(call.id, call.slug) \/ PaymentLinked(call.payment)
           /\ Only(c, <<"refused">>)
  BY <1>1, <1>2, <1>3, OnlyKeeps, SameCampaigns DEF Interface!CreateCampaign
<1>4. CASE /\ ~(SlugTaken(call.id, call.slug) \/ PaymentLinked(call.payment))
           /\ Proceed(c, "inserted", values)
  <2>1. /\ calls'[c].at = "inserted" /\ calls'[c].call = call
        /\ calls'[c].held = RecordRow(call.payment) \cup values /\ call \in Calls /\ UNCHANGED tables
    BY <1>1, <1>2, <1>4, ProceedFacts
  <2>2. CreatingOK(c)'
    BY <1>1, <1>2, <1>4, <2>1 DEF CreatingOK, At, Verified, RecordRow, SlugValue, PaymentValue,
       Lock, tables, SlugTaken, PaymentLinked, Stored
  <2>3. CallOK(c)'
    BY <1>1, <2>1, <2>2 DEF CallOK, FreezingOK, PayingOK, ReservingOK, LeasingOK, RestingOK, At,
       Unanswered
  <2>4. "inserted" \in Unanswered
    BY DEF Unanswered
  <2> QED
    BY <1>1, <1>4, <2>3, <2>4, ProceedKeeps
<1> QED
  BY <1>3, <1>4 DEF InsertLinkedCampaign

LEMMA CommitCampaignKeeps ==
  ASSUME RepositoryInv, NEW c \in Callers, CommitCampaign(c)
  PROVE  RepositoryInv' /\ Interface!CreateCampaign(c)
<1> DEFINE call == calls[c].call
<1>1. /\ Interface!Asks(c, "createCampaign") /\ SeenCalls[c].call = call
      /\ calls[c].at \in Unanswered /\ call.op = "createCampaign"
  BY AsksFor DEF CommitCampaign, Unanswered, At
<1>2. /\ call.payment # None /\ Verified(call.payment)
      /\ ~SlugTaken(call.id, call.slug) /\ ~PaymentLinked(call.payment)
      /\ calls[c].held = RecordRow(call.payment) \cup SlugValue(call.slug)
                            \cup PaymentValue(call.payment)
  BY <1>1 DEF RepositoryInv, CallOK, CreatingOK, CommitCampaign
<1>3. Free(c, SlugValue(call.slug)) /\ Free(c, PaymentValue(call.payment))
  BY <1>2 DEF RepositoryInv, LocksExclusive, Free
<1>4. CampaignsKept(c)
  BY <1>1, <1>2, <1>3, NewCampaignWritten DEF CommitCampaign
<1>5. RepositoryInv' /\ Interface!Answer(c, <<"created">>)
  BY <1>1, <1>4, Unwritten, WriteKeeps DEF CommitCampaign, allButCampaigns
<1> QED
  BY <1>1, <1>2, <1>5, SameCampaigns DEF Interface!CreateCampaign, CommitCampaign, allButCampaigns

LEMMA UpdateCampaignDraftKeeps ==
  ASSUME RepositoryInv, NEW c \in Callers, UpdateCampaignDraft(c)
  PROVE  RepositoryInv' /\ Interface!UpdateCampaignDraft(c)
<1> DEFINE call == calls[c].call
           row == campaigns[call.id]
           matches == /\ row # None /\ row.creator = call.creator
                      /\ row.status = "DRAFT" /\ row.version = call.version
           taken == call.patch \in Slugs /\ SlugTaken(call.id, call.patch)
           slug == IF call.patch \in Slugs THEN call.patch ELSE row.slug
           new == [campaigns EXCEPT ![call.id].version = @ + 1, ![call.id].slug =
                                      IF call.patch \in Slugs THEN call.patch ELSE @]
<1>1. /\ Interface!Asks(c, "updateCampaignDraft") /\ SeenCalls[c].call = call
      /\ calls[c].at \in Unanswered /\ call.op = "updateCampaignDraft" /\ calls[c].at # "idle"
  BY AsksFor DEF UpdateCampaignDraft, Unanswered, At
<1>2. call.id \in Campaigns
  BY <1>1, CallOf, CampaignCalls
<1>3. CASE call.patch = "empty" /\ Only(c, <<"done", row>>)
  BY <1>1, <1>3, OnlyKeeps DEF Interface!UpdateCampaignDraft
<1>4. CASE ~matches /\ Only(c, <<"null">>)
  BY <1>1, <1>4, OnlyKeeps DEF Interface!UpdateCampaignDraft
<1>5. CASE matches /\ taken /\ Only(c, <<"refused">>)
  BY <1>1, <1>5, OnlyKeeps, SameCampaigns DEF Interface!UpdateCampaignDraft
<1>6. CASE /\ Free(c, CampaignRow(call.id)) /\ matches
           /\ call.patch \in Slugs => Free(c, SlugValue(call.patch))
           /\ ~taken
           /\ campaigns' = new
           /\ Answer(c, <<"done", campaigns'[call.id]>>)
           /\ UNCHANGED allButCampaigns
  <2> DEFINE later == [row EXCEPT !.version = @ + 1, !.slug = slug]
  <2>1. row \in Campaign /\ NamesUnique /\ DOMAIN campaigns = Campaigns
    BY <1>2, <1>6 DEF RepositoryInv, TablesTyped
  <2>2. later \in Campaign /\ later.slug = slug /\ later.payment = row.payment
    <3>1. row.version + 1 \in Nat \ {0} /\ slug \in Slugs
      BY <2>1 DEF Campaign
    <3> QED
      BY <2>1, <3>1 DEF Campaign
  <2>3. campaigns' = [campaigns EXCEPT ![call.id] = later]
    BY <1>2, <1>6, <2>1
  <2>4. ~SlugTaken(call.id, slug)
    BY <1>2, <1>6, <2>1 DEF SlugTaken, NamesUnique, Stored
  <2>5. row.payment # None =>
           \A y \in Stored(campaigns) \ {call.id} : campaigns[y].payment # row.payment
    BY <1>2, <1>6, <2>1 DEF NamesUnique, Stored
  <2>6. CampaignsKept(c)
    <3>1. Free(c, CampaignRow(call.id)) /\ row # None
      BY <1>6
    <3>2. row.slug = slug \/ Free(c, SlugValue(slug))
      BY <1>6
    <3> HIDE DEF later, slug
    <3> QED
      BY <1>2, <2>2, <2>3, <2>4, <2>5, <3>1, <3>2, CampaignWritten
  <2>7. RepositoryInv' /\ Interface!Answer(c, <<"done", campaigns'[call.id]>>)
    BY <1>1, <1>6, <2>6, Unwritten, WriteKeeps DEF allButCampaigns
  <2> QED
    BY <1>1, <1>6, <2>7, SameCampaigns DEF Interface!UpdateCampaignDraft, allButCampaigns
<1> QED
  BY <1>3, <1>4, <1>5, <1>6 DEF UpdateCampaignDraft

LEMMA TransitionCampaignKeeps ==
  ASSUME RepositoryInv, NEW c \in Callers, TransitionCampaign(c)
  PROVE  RepositoryInv' /\ Interface!TransitionCampaign(c)
<1> DEFINE call == calls[c].call
           row == campaigns[call.id]
<1>1. /\ Interface!Asks(c, "transitionCampaign") /\ SeenCalls[c].call = call
      /\ calls[c].at \in Unanswered /\ call.op = "transitionCampaign" /\ calls[c].at # "idle"
  BY AsksFor DEF TransitionCampaign, Unanswered, At
<1>2. call.id \in Campaigns /\ call.to \in CampaignStatus
  BY <1>1, CallOf, CampaignCalls
<1>3. CASE ~Matches(row, call) /\ Only(c, <<"null">>)
  BY <1>1, <1>3, OnlyKeeps DEF Interface!TransitionCampaign, Matches
<1>4. CASE /\ Matches(row, call)
           /\ campaigns' = [campaigns EXCEPT ![call.id] = Moved(row, call.to)]
           /\ Answer(c, <<"done", campaigns'[call.id]>>)
           /\ UNCHANGED allButCampaigns
  <2>1. CampaignsKept(c)
    BY <1>2, <1>4, CampaignMoved DEF Matches, TransitionCampaign
  <2>2. RepositoryInv' /\ Interface!Answer(c, <<"done", campaigns'[call.id]>>)
    BY <1>1, <1>4, <2>1, Unwritten, WriteKeeps DEF allButCampaigns
  <2>3. [campaigns EXCEPT ![call.id] = Moved(@, call.to)]
          = [campaigns EXCEPT ![call.id] = Moved(row, call.to)]
    BY <1>2 DEF RepositoryInv, TablesTyped
  <2> QED
    BY <1>1, <1>4, <2>2, <2>3, SameCampaigns
    DEF Interface!TransitionCampaign, Matches, allButCampaigns
<1> QED
  BY <1>3, <1>4 DEF TransitionCampaign

-----------------------------------------------------------------------------
(* The calls about funding orders.                                          *)

LEMMA NewOrderWritten ==
  ASSUME RepositoryInv, NEW c \in Callers, NEW call,
         call.key \in OrderKeys, call.campaign \in Campaigns,
         ~OpenTaken(call.key, call.campaign),
         Free(c, OrderRow(call.key)), Free(c, OpenOrder(call.campaign)),
         fundingOrders' = [fundingOrders EXCEPT ![call.key] = NewOrder(call)]
  PROVE  OrdersKept(c)
<1> DEFINE row == NewOrder(call)
<1>1. row \in FundingOrder /\ row.campaign = call.campaign
  BY DEF NewOrder, FundingOrder, FundingOrderStatus
<1> HIDE DEF row
<1> QED
  BY <1>1, OrderWritten DEF row

LEMMA CreateFundingOrderIdempotentKeeps ==
  ASSUME RepositoryInv, NEW c \in Callers, CreateFundingOrderIdempotent(c)
  PROVE  RepositoryInv' /\ Interface!CreateFundingOrderIdempotent(c)
<1> DEFINE call == calls[c].call
           exists == fundingOrders[call.key] # None
<1>1. /\ Interface!Asks(c, "createFundingOrderIdempotent") /\ SeenCalls[c].call = call
      /\ calls[c].at \in Unanswered /\ calls[c].at # "idle"
      /\ call.op = "createFundingOrderIdempotent"
  BY AsksFor DEF CreateFundingOrderIdempotent, Unanswered, At
<1>2. call.key \in OrderKeys /\ call.campaign \in Campaigns
  BY <1>1, CallOf, FundingOrderCalls
<1>3. ~exists => (Interface!OpenOrders(call.campaign) # {} <=> OpenTaken(call.key, call.campaign))
  BY <1>2, SameOrders DEF OpenTaken, Stored
<1>4. CASE exists /\ Decide(c, <<"existing">>)
  BY <1>1, <1>4, OnlyKeeps DEF Interface!CreateFundingOrderIdempotent
<1>5. CASE ~exists /\ OpenTaken(call.key, call.campaign) /\ Decide(c, <<"refused">>)
  BY <1>1, <1>3, <1>5, OnlyKeeps DEF Interface!CreateFundingOrderIdempotent
<1>6. CASE /\ ~exists /\ Free(c, OpenOrder(call.campaign) \cup References(call.campaign))
           /\ ~OpenTaken(call.key, call.campaign)
           /\ fundingOrders' = [fundingOrders EXCEPT ![call.key] = NewOrder(call)]
           /\ Answer(c, <<"created">>)
           /\ UNCHANGED allButOrders
  <2>1. Free(c, OrderRow(call.key)) /\ Free(c, OpenOrder(call.campaign))
    BY <1>6 DEF CreateFundingOrderIdempotent, Free
  <2>2. OrdersKept(c)
    BY <1>2, <1>6, <2>1, NewOrderWritten
  <2>3. RepositoryInv' /\ Interface!Answer(c, <<"created">>)
    BY <1>1, <1>6, <2>2, Unwritten, WriteKeeps DEF allButOrders
  <2> QED
    BY <1>1, <1>3, <1>6, <2>3, SameOrders DEF Interface!CreateFundingOrderIdempotent, allButOrders
<1> QED
  BY <1>4, <1>5, <1>6 DEF CreateFundingOrderIdempotent

LEMMA FreezingCall ==
  ASSUME RepositoryInv, NEW c \in Callers, NEW at \in Unanswered,
         At(c, "createFundingOrderAndFreezeCampaign", at)
  PROVE  /\ Interface!Asks(c, "createFundingOrderAndFreezeCampaign")
         /\ SeenCalls[c].call = calls[c].call /\ calls[c].at \in Unanswered /\ calls[c].at = at
         /\ calls[c].call.op = "createFundingOrderAndFreezeCampaign"
         /\ calls[c].call.key \in OrderKeys /\ calls[c].call.campaign \in Campaigns
         /\ FreezingOK(c) /\ RestingOK(c) /\ SeenCalls[c].met = calls[c].met
<1>1. calls[c].at # "idle" /\ calls[c].at = at
      /\ calls[c].call.op = "createFundingOrderAndFreezeCampaign"
  BY DEF At, Unanswered
<1> QED
  BY <1>1, AsksFor, CallOf, FundingOrderCalls, SeenFacts DEF RepositoryInv, CallOK

\* What is left to show of a statement of a transaction that goes on.
LEMMA FreezingProceeds ==
  ASSUME RepositoryInv, NEW c \in Callers, NEW at \in {"looked up", "locked", "inserted"},
         NEW locks, calls[c].at \in Unanswered, Proceed(c, at, locks), locks = {} \/ Free(c, locks),
         calls[c].call.op = "createFundingOrderAndFreezeCampaign", FreezingOK(c)'
  PROVE  RepositoryInv' /\ UNCHANGED Interface!vars
<1>1. /\ calls'[c].at = at /\ calls'[c].call = calls[c].call /\ calls[c].call \in Calls
      /\ at \in Unanswered
  BY ProceedFacts DEF Unanswered
<1>2. CallOK(c)'
  BY <1>1 DEF CallOK, CreatingOK, PayingOK, ReservingOK, LeasingOK, RestingOK, At
<1> QED
  BY <1>1, <1>2, ProceedKeeps

LEMMA FreezeLookupKeeps ==
  ASSUME RepositoryInv, NEW c \in Callers, FreezeLookup(c)
  PROVE  /\ RepositoryInv'
         /\ Interface!CreateFundingOrderAndFreezeCampaign(c) \/ UNCHANGED Interface!vars
<1> DEFINE call == calls[c].call
           op == "createFundingOrderAndFreezeCampaign"
<1>1. /\ Interface!Asks(c, op) /\ SeenCalls[c].call = call
      /\ calls[c].at \in Unanswered /\ calls[c].at = "called" /\ call.op = op
      /\ FreezingOK(c) /\ RestingOK(c)
  BY FreezingCall DEF FreezeLookup, Unanswered
<1>2. CASE fundingOrders[call.key] # None /\ Decide(c, <<"existing">>)
  BY <1>1, <1>2, OnlyKeeps DEF Interface!CreateFundingOrderAndFreezeCampaign
<1>3. CASE Proceed(c, "looked up", {})
  <2>1. /\ calls'[c].at = "looked up" /\ calls'[c].call = call /\ calls'[c].met = calls[c].met
        /\ calls'[c].held = calls[c].held \cup {}
    BY <1>1, <1>3, ProceedFacts
  <2>2. FreezingOK(c)'
    BY <1>1, <2>1 DEF FreezingOK, RestingOK, At
  <2> QED
    BY <1>1, <1>3, <2>2, FreezingProceeds
<1> QED
  BY <1>2, <1>3 DEF FreezeLookup

LEMMA FreezeLockKeeps ==
  ASSUME RepositoryInv, NEW c \in Callers, FreezeLock(c)
  PROVE  /\ RepositoryInv'
         /\ Interface!CreateFundingOrderAndFreezeCampaign(c) \/ UNCHANGED Interface!vars
<1> DEFINE call == calls[c].call
           op == "createFundingOrderAndFreezeCampaign"
<1>1. /\ Interface!Asks(c, op) /\ SeenCalls[c].call = call
      /\ calls[c].at \in Unanswered /\ calls[c].at = "looked up" /\ call.op = op
      /\ FreezingOK(c)
  BY FreezingCall DEF FreezeLock, Unanswered
<1>2. CASE ~Draft(call) /\ Only(c, <<"null">>)
  BY <1>1, <1>2, OnlyKeeps DEF Interface!CreateFundingOrderAndFreezeCampaign, Draft
<1>3. CASE Draft(call) /\ Proceed(c, "locked", ForUpdate(call.campaign))
  <2>1. /\ calls'[c].at = "locked" /\ calls'[c].call = call /\ calls'[c].met = calls[c].met
        /\ calls'[c].held = calls[c].held \cup ForUpdate(call.campaign) /\ UNCHANGED tables
    BY <1>1, <1>3, ProceedFacts
  <2>2. FreezingOK(c)'
    BY <1>1, <1>3, <2>1 DEF FreezingOK, At, Draft, ForUpdate, Lock, tables
  <2> QED
    BY <1>1, <1>3, <2>2, FreezingProceeds DEF FreezeLock
<1> QED
  BY <1>2, <1>3 DEF FreezeLock, Draft

\* The call has seen that its order cannot be added.
Violating(c, met) ==
    [at |-> "violated", call |-> calls[c].call, answer |-> calls[c].answer, met |-> met,
     total |-> calls[c].total, held |-> {}]

LEMMA ViolatingFacts ==
  ASSUME NEW c \in Callers, NEW met
  PROVE  /\ Violating(c, met).at = "violated" /\ Violating(c, met).call = calls[c].call
         /\ Violating(c, met).met = met /\ Violating(c, met).held = {}
         /\ Shaped(Violating(c, met))
  BY DEF Violating, Shaped

LEMMA ViolatingBecomes ==
  ASSUME CallsShaped, NEW c \in Callers, NEW met,
         calls' = [calls EXCEPT ![c].at = "violated", ![c].met = met, ![c].held = {}]
  PROVE  Becomes(c, Violating(c, met))
<1> DEFINE s == calls[c]
           t == [s EXCEPT !.at = "violated", !.met = met, !.held = {}]
           R == [at : {s.at, "violated"}, call : {s.call}, answer : {s.answer},
                 met : {s.met, met}, total : {s.total}, held : {s.held, {}}]
<1>1. s \in R /\ Violating(c, met) \in R /\ DOMAIN calls = Callers
  BY DEF CallsShaped, Violating
<1>2. /\ Violating(c, met).at = "violated" /\ Violating(c, met).call = s.call
      /\ Violating(c, met).answer = s.answer /\ Violating(c, met).met = met
      /\ Violating(c, met).total = s.total /\ Violating(c, met).held = {}
  BY DEF Violating
<1>3. calls' = [calls EXCEPT ![c] = t]
  BY <1>1
<1> HIDE DEF s
<1>4. t \in R
  BY <1>1
<1>5. /\ t.at = "violated" /\ t.call = s.call /\ t.answer = s.answer /\ t.met = met
      /\ t.total = s.total /\ t.held = {}
  BY <1>1
<1>6. t = Violating(c, met)
  BY <1>1, <1>2, <1>4, <1>5
<1> QED
  BY <1>3, <1>6 DEF Becomes

\* At the interface, the call has met an order, or nothing has happened.
LEMMA ViolatingSeen ==
  ASSUME CallsShaped, NEW c \in Callers, NEW met, calls[c].at \in Unanswered,
         Becomes(c, Violating(c, met))
  PROVE  /\ SeenCalls' = [SeenCalls EXCEPT ![c].met = met]
         /\ met = calls[c].met => UNCHANGED SeenCalls
<1> DEFINE s == SeenCalls[c]
           seen == Seen(Violating(c, met))
           t == [s EXCEPT !.met = met]
           R == [at : {"called"}, call : {s.call}, answer : {s.answer}, met : {s.met, met},
                 total : {s.total}]
<1>1. SeenCalls' = [SeenCalls EXCEPT ![c] = seen] /\ DOMAIN SeenCalls = Callers
  BY BecomesFacts DEF SeenCalls
<1>2. s \in R /\ seen \in R
  BY DEF SeenCalls, Seen, Violating, Unanswered
<1>3. seen.met = met /\ s.met = calls[c].met
  BY DEF SeenCalls, Seen, Violating
<1>4. SeenCalls = [d \in Callers |-> SeenCalls[d]]
  BY DEF SeenCalls
<1>5. [SeenCalls EXCEPT ![c].met = met] = [SeenCalls EXCEPT ![c] = t]
  BY <1>1
<1> HIDE DEF s, seen
<1>6. t = seen
  <2>1. t \in R /\ t.met = met
    BY <1>2
  <2>2. /\ t.at = seen.at /\ t.call = seen.call /\ t.answer = seen.answer
        /\ t.total = seen.total
    BY <1>2, <2>1
  <2> QED
    BY <1>2, <1>3, <2>1, <2>2
<1>7. met = calls[c].met => seen = s
  BY <1>2, <1>3
<1> QED
  BY <1>1, <1>4, <1>5, <1>6, <1>7 DEF s

\* The call sees that an order is open, or that its key is used.
LEMMA FreezeViolated ==
  ASSUME RepositoryInv, NEW c \in Callers,
         At(c, "createFundingOrderAndFreezeCampaign", "locked"), NEW met,
         Becomes(c, Violating(c, met)), UNCHANGED <<tables, workload>>,
         met = TRUE \/ fundingOrders[calls[c].call.key] # None
  PROVE  RepositoryInv'
<1> DEFINE state == Violating(c, met)
           call == calls[c].call
<1>1. /\ calls[c].at # "idle" /\ call \in Calls
      /\ call.op = "createFundingOrderAndFreezeCampaign"
  BY CallOf DEF At
<1>2. /\ calls'[c].at = "violated" /\ calls'[c].call = call /\ calls'[c].met = met
      /\ calls'[c].held = {} /\ Shaped(state) /\ state.held = {} /\ state.call = call
  BY BecomesFacts, ViolatingFacts DEF RepositoryInv
<1>3. FreezingOK(c)'
  BY <1>2 DEF FreezingOK, At, tables
<1>4. CallOK(c)'
  BY <1>1, <1>2, <1>3 DEF CallOK, CreatingOK, PayingOK, ReservingOK, LeasingOK, RestingOK, At,
     Unanswered
<1> QED
  BY <1>1, <1>2, <1>4, CallStep, NothingBehind, TablesStill DEF RepositoryInv

LEMMA FreezeInsertKeeps ==
  ASSUME RepositoryInv, NEW c \in Callers, FreezeInsert(c)
  PROVE  RepositoryInv' /\ (Interface!Meet(c) \/ UNCHANGED Interface!vars)
<1> DEFINE call == calls[c].call
           op == "createFundingOrderAndFreezeCampaign"
           entries == OrderRow(call.key) \cup OpenOrder(call.campaign)
           open == OpenTaken(call.key, call.campaign)
<1>1. /\ calls[c].at \in Unanswered /\ calls[c].at = "locked" /\ call.op = op
      /\ FreezingOK(c)
  BY FreezingCall DEF FreezeInsert, Unanswered
<1>2. CASE ~(fundingOrders[call.key] # None \/ open) /\ Proceed(c, "inserted", entries)
  <2>1. /\ calls'[c].at = "inserted" /\ calls'[c].call = call /\ calls'[c].met = calls[c].met
        /\ calls'[c].held = calls[c].held \cup entries /\ UNCHANGED tables
    BY <1>1, <1>2, ProceedFacts
  <2>2. Draft(call) /\ calls[c].held = ForUpdate(call.campaign)
    BY <1>1 DEF FreezingOK, At
  <2>3. FreezingOK(c)'
    BY <1>2, <2>1, <2>2 DEF FreezingOK, At, Draft, OpenTaken, Stored, ForUpdate, OrderRow,
       OpenOrder, Lock, tables
  <2> QED
    BY <1>1, <1>2, <2>3, FreezingProceeds DEF FreezeInsert
<1>3. CASE /\ fundingOrders[call.key] # None \/ open
           /\ calls' = [calls EXCEPT ![c].at = "violated", ![c].met = open, ![c].held = {}]
           /\ UNCHANGED <<tables, workload>>
  <2>1. /\ At(c, op, "locked") /\ Interface!Asks(c, op) /\ SeenCalls[c].call = call
        /\ calls[c].met = FALSE
    BY <1>1, FreezingCall DEF FreezeInsert, FreezingOK, Unanswered
  <2>2. CASE open
    <3>1. Becomes(c, Violating(c, TRUE))
      BY <1>3, <2>2, ViolatingBecomes DEF RepositoryInv
    <3>2. RepositoryInv'
      BY <1>3, <2>1, <3>1, FreezeViolated
    <3>3. SeenCalls' = [SeenCalls EXCEPT ![c].met = TRUE]
      BY <1>1, <3>1, ViolatingSeen DEF RepositoryInv
    <3>4. Interface!OpenOrders(call.campaign) # {}
      BY <2>2, SameOrders
    <3> QED
      BY <1>3, <2>1, <3>2, <3>3, <3>4 DEF Interface!Meet, Interface!tables, tables
  <2>3. CASE ~open
    <3>1. open = FALSE
      BY <2>3 DEF OpenTaken
    <3>2. Becomes(c, Violating(c, FALSE))
      BY <1>3, <3>1, ViolatingBecomes DEF RepositoryInv
    <3>3. RepositoryInv'
      BY <1>3, <2>1, <2>3, <3>2, FreezeViolated
    <3>4. UNCHANGED SeenCalls
      BY <1>1, <2>1, <3>2, ViolatingSeen DEF RepositoryInv
    <3> QED
      BY <1>3, <3>3, <3>4 DEF Interface!vars, Interface!tables, tables
  <2> QED
    BY <2>2, <2>3
<1> QED
  BY <1>2, <1>3 DEF FreezeInsert

LEMMA FreezeCommitKeeps ==
  ASSUME RepositoryInv, NEW c \in Callers, FreezeCommit(c)
  PROVE  RepositoryInv' /\ Interface!CreateFundingOrderAndFreezeCampaign(c)
<1> DEFINE call == calls[c].call
           op == "createFundingOrderAndFreezeCampaign"
<1>1. /\ Interface!Asks(c, op) /\ SeenCalls[c].call = call
      /\ calls[c].at \in Unanswered /\ call.op = op
      /\ call.key \in OrderKeys /\ call.campaign \in Campaigns /\ FreezingOK(c)
  BY FreezingCall DEF FreezeCommit, Unanswered
<1>2. /\ Draft(call) /\ fundingOrders[call.key] = None /\ ~OpenTaken(call.key, call.campaign)
      /\ calls[c].held = ForUpdate(call.campaign) \cup OrderRow(call.key)
                            \cup OpenOrder(call.campaign)
  BY <1>1 DEF FreezingOK, FreezeCommit
<1>3. /\ Free(c, CampaignRow(call.campaign)) /\ Free(c, OrderRow(call.key))
      /\ Free(c, OpenOrder(call.campaign))
  BY <1>2 DEF RepositoryInv, LocksExclusive, Free, ForUpdate, CampaignRow
<1>4. /\ fundingOrders' = [fundingOrders EXCEPT ![call.key] = NewOrder(call)]
      /\ campaigns' = [campaigns EXCEPT ![call.campaign] = Moved(@, "FUNDING")]
      /\ Answer(c, <<"created">>)
      /\ UNCHANGED <<claims, idempotency, jobs, events, workload>>
  BY <1>2 DEF FreezeCommit, Draft
<1>5. campaigns' = [campaigns EXCEPT ![call.campaign] = Moved(campaigns[call.campaign], "FUNDING")]
  BY <1>1, <1>4 DEF RepositoryInv, TablesTyped
<1>6. CampaignsKept(c)
  BY <1>1, <1>2, <1>3, <1>5, CampaignMoved DEF Draft, CampaignStatus
<1>7. OrdersKept(c)
  BY <1>1, <1>2, <1>3, <1>4, NewOrderWritten
<1>8. RepositoryInv' /\ Interface!Answer(c, <<"created">>)
  BY <1>1, <1>4, <1>6, <1>7, Unwritten, WriteKeeps
<1>9. Interface!OpenOrders(call.campaign) = {}
  BY <1>1, <1>2, SameOrders DEF OpenTaken, Stored
<1> QED
  BY <1>1, <1>2, <1>4, <1>8, <1>9, SameOrders, SameCampaigns
  DEF Interface!CreateFundingOrderAndFreezeCampaign, Draft

LEMMA FreezeLookAgainKeeps ==
  ASSUME RepositoryInv, NEW c \in Callers, FreezeLookAgain(c)
  PROVE  RepositoryInv' /\ Interface!CreateFundingOrderAndFreezeCampaign(c)
<1> DEFINE call == calls[c].call
           op == "createFundingOrderAndFreezeCampaign"
<1>1. /\ Interface!Asks(c, op) /\ SeenCalls[c].call = call /\ SeenCalls[c].met = calls[c].met
      /\ calls[c].at \in Unanswered /\ call.op = op /\ FreezingOK(c)
  BY FreezingCall DEF FreezeLookAgain, Unanswered
<1>2. calls[c].met \/ fundingOrders[call.key] # None
  BY <1>1 DEF FreezingOK, FreezeLookAgain
<1>3. CASE fundingOrders[call.key] # None
  <2>1. Decide(c, <<"existing">>)
    BY <1>3 DEF FreezeLookAgain
  <2> QED
    BY <1>1, <1>3, <2>1, OnlyKeeps DEF Interface!CreateFundingOrderAndFreezeCampaign
<1>4. CASE fundingOrders[call.key] = None
  <2>1. Decide(c, <<"refused">>)
    BY <1>4 DEF FreezeLookAgain
  <2> QED
    BY <1>1, <1>2, <1>4, <2>1, OnlyKeeps DEF Interface!CreateFundingOrderAndFreezeCampaign
<1> QED
  BY <1>3, <1>4

LEMMA TransitionFundingOrderKeeps ==
  ASSUME RepositoryInv, NEW c \in Callers, TransitionFundingOrder(c)
  PROVE  RepositoryInv' /\ Interface!TransitionFundingOrder(c)
<1> DEFINE call == calls[c].call
           row == fundingOrders[call.key]
           new == Moved(row, call.to)
           reserved == call.to \notin ClosedOrders /\ OpenTaken(call.key, row.campaign)
<1>1. /\ Interface!Asks(c, "transitionFundingOrder") /\ SeenCalls[c].call = call
      /\ calls[c].at \in Unanswered /\ calls[c].at # "idle" /\ call.op = "transitionFundingOrder"
  BY AsksFor DEF TransitionFundingOrder, Unanswered, At
<1>2. call.key \in OrderKeys /\ call.to \in FundingOrderStatus
  BY <1>1, CallOf, FundingOrderCalls
<1>3. CASE ~Matches(row, call) /\ Only(c, <<"null">>)
  BY <1>1, <1>3, OnlyKeeps DEF Interface!TransitionFundingOrder, Matches
<1>4. CASE Matches(row, call) /\ reserved /\ Only(c, <<"refused">>)
  BY <1>1, <1>4, OnlyKeeps, SameOrders DEF Interface!TransitionFundingOrder, Matches
<1>5. CASE /\ Free(c, OrderRow(call.key)) /\ Matches(row, call)
           /\ call.to \notin ClosedOrders => Free(c, OpenOrder(row.campaign))
           /\ ~reserved
           /\ fundingOrders' = [fundingOrders EXCEPT ![call.key] = new]
           /\ Answer(c, <<"done", fundingOrders'[call.key]>>)
           /\ UNCHANGED allButOrders
  <2>1. row \in FundingOrder /\ DOMAIN fundingOrders = OrderKeys
    BY <1>2, <1>5 DEF RepositoryInv, TablesTyped, Matches
  <2>2. new \in FundingOrder /\ new.campaign = row.campaign /\ new.status = call.to
    <3>1. row.version + 1 \in Nat \ {0}
      BY <2>1 DEF FundingOrder
    <3> QED
      BY <1>2, <2>1, <3>1 DEF FundingOrder, Moved
  <2>3. new.status \notin ClosedOrders =>
           ~OpenTaken(call.key, new.campaign) /\ Free(c, OpenOrder(new.campaign))
    BY <1>5, <2>2
  <2>4. OrdersKept(c)
    <3> HIDE DEF new
    <3> QED
      BY <1>2, <1>5, <2>2, <2>3, OrderWritten
  <2>5. RepositoryInv' /\ Interface!Answer(c, <<"done", fundingOrders'[call.key]>>)
    BY <1>1, <1>5, <2>4, Unwritten, WriteKeeps DEF allButOrders
  <2>6. [fundingOrders EXCEPT ![call.key] = Moved(@, call.to)]
          = [fundingOrders EXCEPT ![call.key] = new]
    BY <1>2, <2>1
  <2> QED
    BY <1>1, <1>5, <2>5, <2>6, SameCampaigns
    DEF Interface!TransitionFundingOrder, Matches, allButOrders
<1> QED
  BY <1>3, <1>4, <1>5 DEF TransitionFundingOrder

-----------------------------------------------------------------------------
(* The calls about claims.                                                  *)

LEMMA CreateClaimIdempotentKeeps ==
  ASSUME RepositoryInv, NEW c \in Callers, CreateClaimIdempotent(c)
  PROVE  RepositoryInv' /\ Interface!CreateClaimIdempotent(c)
<1> DEFINE call == calls[c].call
           row == NewClaim(call)
<1>1. /\ Interface!Asks(c, "createClaimIdempotent") /\ SeenCalls[c].call = call
      /\ calls[c].at \in Unanswered /\ calls[c].at # "idle" /\ call.op = "createClaimIdempotent"
  BY AsksFor DEF CreateClaimIdempotent, Unanswered, At
<1>2. /\ call.key \in ClaimKeys /\ call.campaign \in Campaigns
      /\ call.payout \in {"DIRECT_NEAR", "ONE_CLICK"}
  BY <1>1, CallOf, ClaimCalls
<1>3. CASE claims[call.key] # None /\ Decide(c, <<"existing">>)
  BY <1>1, <1>3, OnlyKeeps DEF Interface!CreateClaimIdempotent
<1>4. CASE /\ claims[call.key] = None
           /\ claims' = [claims EXCEPT ![call.key] = row]
           /\ Answer(c, <<"created">>)
           /\ UNCHANGED allButClaims
  <2>1. row \in Claim /\ row.status \notin WinningStatus
    BY <1>2 DEF NewClaim, Claim, ClaimStatus, WinningStatus
  <2>2. ClaimsKept(c)
    <3> HIDE DEF row
    <3> QED
      BY <1>2, <1>4, <2>1, ClaimWritten
  <2>3. RepositoryInv' /\ Interface!Answer(c, <<"created">>)
    BY <1>1, <1>4, <2>2, Unwritten, WriteKeeps DEF allButClaims
  <2> QED
    BY <1>1, <1>4, <2>3, SameClaims DEF Interface!CreateClaimIdempotent, allButClaims
<1> QED
  BY <1>3, <1>4 DEF CreateClaimIdempotent

LEMMA PayingCall ==
  ASSUME RepositoryInv, NEW c \in Callers, NEW at \in Unanswered,
         NEW op \in {"submitClaimAtomically", "finalizeOneClickPayoutAtomically"}, At(c, op, at)
  PROVE  /\ Interface!Asks(c, op)
         /\ SeenCalls[c].call = calls[c].call /\ calls[c].at \in Unanswered /\ calls[c].at = at
         /\ calls[c].call.op = op /\ calls[c].call.key \in ClaimKeys
         /\ op = "finalizeOneClickPayoutAtomically" =>
               /\ calls[c].call.campaign \in Campaigns
               /\ calls[c].call.target \in {"PAID", "RECOVERED"}
         /\ PayingOK(c) /\ RestingOK(c)
<1>1. calls[c].at # "idle" /\ calls[c].at = at /\ calls[c].call.op = op
  BY DEF At, Unanswered
<1> QED
  BY <1>1, AsksFor, CallOf, ClaimCalls DEF RepositoryInv, CallOK

LEMMA PayingProceeds ==
  ASSUME RepositoryInv, NEW c \in Callers,
         NEW at \in {"locked", "claiming", "claim locked", "both locked"},
         NEW locks, calls[c].at \in Unanswered, Proceed(c, at, locks), Free(c, locks),
         calls[c].call.op \in {"submitClaimAtomically", "finalizeOneClickPayoutAtomically"},
         PayingOK(c)'
  PROVE  RepositoryInv' /\ UNCHANGED Interface!vars
<1>1. /\ calls'[c].at = at /\ calls'[c].call = calls[c].call /\ calls[c].call \in Calls
      /\ at \in Unanswered /\ calls'[c].met = calls[c].met
  BY ProceedFacts DEF Unanswered
<1>2. CreatingOK(c)' /\ ReservingOK(c)' /\ LeasingOK(c)' /\ RestingOK(c)'
  BY <1>1 DEF CreatingOK, ReservingOK, LeasingOK, RestingOK, At
<1>3. FreezingOK(c)'
  BY <1>1 DEF FreezingOK, At
<1>4. CallOK(c)'
  BY <1>2, <1>3 DEF CallOK
<1> QED
  BY <1>1, <1>4, ProceedKeeps

LEMMA SubmitLockKeeps ==
  ASSUME RepositoryInv, NEW c \in Callers, SubmitLock(c)
  PROVE  RepositoryInv' /\ (Interface!SubmitClaimAtomically(c) \/ UNCHANGED Interface!vars)
<1> DEFINE call == calls[c].call
           op == "submitClaimAtomically"
<1>1. /\ Interface!Asks(c, op) /\ SeenCalls[c].call = call
      /\ calls[c].at \in Unanswered /\ calls[c].at = "called" /\ call.op = op /\ RestingOK(c)
  BY PayingCall DEF SubmitLock, Unanswered
<1>2. CASE ~Submittable(call) /\ Only(c, <<"null">>)
  BY <1>1, <1>2, OnlyKeeps DEF Interface!SubmitClaimAtomically, Submittable
<1>3. CASE Submittable(call) /\ Proceed(c, "locked", ClaimRow(call.key))
  <2>1. /\ calls'[c].at = "locked" /\ calls'[c].call = call
        /\ calls'[c].held = calls[c].held \cup ClaimRow(call.key) /\ UNCHANGED tables
    BY <1>1, <1>3, ProceedFacts
  <2>2. calls[c].held = {}
    BY <1>1 DEF RestingOK
  <2>3. PayingOK(c)'
    BY <1>1, <1>3, <2>1, <2>2 DEF PayingOK, At, Submittable, ClaimRow, Lock, tables
  <2> QED
    BY <1>1, <1>3, <2>3, PayingProceeds DEF SubmitLock
<1> QED
  BY <1>2, <1>3 DEF SubmitLock, Submittable

LEMMA SubmitCampaignKeeps ==
  ASSUME RepositoryInv, NEW c \in Callers, SubmitCampaign(c)
  PROVE  RepositoryInv' /\ (Interface!SubmitClaimAtomically(c) \/ UNCHANGED Interface!vars)
<1> DEFINE call == calls[c].call
           op == "submitClaimAtomically"
           id == claims[call.key].campaign
<1>1. /\ Interface!Asks(c, op) /\ SeenCalls[c].call = call
      /\ calls[c].at \in Unanswered /\ calls[c].at = "locked" /\ call.op = op /\ PayingOK(c)
  BY PayingCall DEF SubmitCampaign, Unanswered
<1>2. Submittable(call) /\ calls[c].held = ClaimRow(call.key)
  BY <1>1 DEF PayingOK, At
<1>3. CASE ~Claimable(id, call) /\ Only(c, <<"null">>)
  BY <1>1, <1>3, OnlyKeeps DEF Interface!SubmitClaimAtomically, Claimable
<1>4. CASE Claimable(id, call) /\ Proceed(c, "claiming", CampaignRow(id))
  <2>1. /\ calls'[c].at = "claiming" /\ calls'[c].call = call
        /\ calls'[c].held = calls[c].held \cup CampaignRow(id) /\ UNCHANGED tables
    BY <1>1, <1>4, ProceedFacts
  <2>2. PayingOK(c)'
    BY <1>1, <1>2, <1>4, <2>1 DEF PayingOK, At, Submittable, Claimable, ClaimRow, CampaignRow,
       Lock, tables
  <2> QED
    BY <1>1, <1>4, <2>2, PayingProceeds DEF SubmitCampaign
<1> QED
  BY <1>3, <1>4 DEF SubmitCampaign, Claimable

\* Nobody else in the campaign has won.
LEMMA ClaimMoved ==
  ASSUME RepositoryInv, NEW c \in Callers, NEW k \in ClaimKeys, NEW row \in Claim,
         claims[k] # None, row.campaign = claims[k].campaign, Free(c, ClaimRow(k)),
         claims' = [claims EXCEPT ![k] = row],
         row.status \in WonStatus => ~WinnerTaken(k)
  PROVE  ClaimsKept(c)
<1>1. row.status \in WinningStatus =>
         \A l \in Stored(claims) \ {k} :
            claims[l].campaign = row.campaign => claims[l].status \notin WinningStatus
  BY DEF WinnerTaken, WinningStatus, WonStatus
<1> QED
  BY <1>1, ClaimWritten

LEMMA SubmitCommitKeeps ==
  ASSUME RepositoryInv, NEW c \in Callers, SubmitCommit(c)
  PROVE  RepositoryInv' /\ Interface!SubmitClaimAtomically(c)
<1> DEFINE call == calls[c].call
           op == "submitClaimAtomically"
           claim == claims[call.key]
           id == claim.campaign
           row == Moved(claim, "SUBMITTED")
<1>1. /\ Interface!Asks(c, op) /\ SeenCalls[c].call = call
      /\ calls[c].at \in Unanswered /\ call.op = op /\ PayingOK(c) /\ call.key \in ClaimKeys
  BY PayingCall DEF SubmitCommit, Unanswered
<1>2. /\ Submittable(call) /\ Claimable(id, call)
      /\ calls[c].held = ClaimRow(call.key) \cup CampaignRow(id)
  BY <1>1 DEF PayingOK, SubmitCommit
<1>3. claim \in Claim /\ id \in Campaigns /\ claim # None /\ campaigns[id] # None
      /\ claim.version = call.version
  BY <1>1, <1>2 DEF RepositoryInv, TablesTyped, Submittable, Claimable, Claim
<1>4. Free(c, CampaignRow(id)) /\ Free(c, ClaimRow(call.key))
  BY <1>2 DEF RepositoryInv, LocksExclusive, Free
<1>5. CASE WinnerTaken(call.key) /\ Only(c, <<"refused">>)
  BY <1>1, <1>2, <1>3, <1>5, OnlyKeeps, SameClaims
  DEF Interface!SubmitClaimAtomically, Submittable, Claimable
<1>6. CASE /\ ~WinnerTaken(call.key)
           /\ campaigns' = [campaigns EXCEPT ![id] = Moved(@, "CLAIMING")]
           /\ claims' = [claims EXCEPT ![call.key] = Moved(@, "SUBMITTED")]
           /\ Answer(c, <<"done", claims'[call.key], campaigns'[id]>>)
           /\ UNCHANGED <<fundingOrders, idempotency, jobs, events, workload>>
  <2>1. /\ campaigns' = [campaigns EXCEPT ![id] = Moved(campaigns[id], "CLAIMING")]
        /\ claims' = [claims EXCEPT ![call.key] = row]
    BY <1>1, <1>3, <1>6 DEF RepositoryInv, TablesTyped
  <2>2. row \in Claim /\ row.campaign = id
    <3>1. claim.version + 1 \in Nat \ {0}
      BY <1>3 DEF Claim
    <3> QED
      BY <1>3, <3>1 DEF Claim, ClaimStatus, Moved
  <2>3. CampaignsKept(c)
    BY <1>3, <1>4, <2>1, CampaignMoved DEF CampaignStatus
  <2>4. ClaimsKept(c)
    <3> HIDE DEF row
    <3> QED
      BY <1>1, <1>3, <1>4, <1>6, <2>1, <2>2, ClaimMoved
  <2>5. RepositoryInv' /\ Interface!Answer(c, <<"done", claims'[call.key], campaigns'[id]>>)
    BY <1>1, <1>6, <2>3, <2>4, Unwritten, WriteKeeps
  <2> QED
    BY <1>1, <1>2, <1>3, <1>6, <2>5, SameCampaigns
    DEF Interface!SubmitClaimAtomically, Submittable, Claimable
<1> QED
  BY <1>3, <1>5, <1>6 DEF SubmitCommit

LEMMA PatchedType ==
  ASSUME NEW row \in Claim, NEW call, call.settles \in BOOLEAN, call.deposits \in BOOLEAN,
         NEW to \in ClaimStatus
  PROVE  /\ Patched(row, call, to) \in Claim /\ Patched(row, call, to).campaign = row.campaign
         /\ Patched(row, call, to).status = to
<1> DEFINE moved == Moved(row, to)
<1>1. moved \in Claim /\ moved.campaign = row.campaign /\ moved.status = to
  <2>1. row.version + 1 \in Nat \ {0}
    BY DEF Claim
  <2> QED
    BY <2>1 DEF Claim, Moved
<1>2. (moved.settled \/ call.settles) \in BOOLEAN /\ (moved.deposited \/ call.deposits) \in BOOLEAN
  OBVIOUS
<1> HIDE DEF moved
<1>3. Patched(row, call, to) = [moved EXCEPT !.settled = moved.settled \/ call.settles,
                                            !.deposited = moved.deposited \/ call.deposits]
  BY <1>1 DEF Patched, moved, Claim
<1> QED
  BY <1>1, <1>2, <1>3 DEF Claim

LEMMA TransitionClaimKeeps ==
  ASSUME RepositoryInv, NEW c \in Callers, TransitionClaim(c)
  PROVE  RepositoryInv' /\ Interface!TransitionClaim(c)
<1> DEFINE call == calls[c].call
           row == claims[call.key]
           new == Patched(row, call, call.to)
           barred == call.to \in WonStatus /\ WinnerTaken(call.key)
<1>1. /\ Interface!Asks(c, "transitionClaim") /\ SeenCalls[c].call = call
      /\ calls[c].at \in Unanswered /\ calls[c].at # "idle" /\ call.op = "transitionClaim"
  BY AsksFor DEF TransitionClaim, Unanswered, At
<1>2. /\ call.key \in ClaimKeys /\ call.to \in ClaimStatus
      /\ call.settles \in BOOLEAN /\ call.deposits \in BOOLEAN
  BY <1>1, CallOf, ClaimCalls
<1>3. CASE ~Matches(row, call) /\ Only(c, <<"null">>)
  BY <1>1, <1>3, OnlyKeeps DEF Interface!TransitionClaim, Matches
<1>4. CASE Matches(row, call) /\ barred /\ Only(c, <<"refused">>)
  BY <1>1, <1>4, OnlyKeeps, SameClaims DEF Interface!TransitionClaim, Matches
<1>5. CASE /\ Matches(row, call) /\ ~barred
           /\ claims' = [claims EXCEPT ![call.key] = new]
           /\ Answer(c, <<"done", claims'[call.key]>>)
           /\ UNCHANGED allButClaims
  <2>1. row \in Claim /\ row # None /\ DOMAIN claims = ClaimKeys
    BY <1>2, <1>5 DEF RepositoryInv, TablesTyped, Matches
  <2>2. new \in Claim /\ new.campaign = row.campaign /\ new.status = call.to
    BY <1>2, <2>1, PatchedType
  <2>3. ClaimsKept(c)
    <3>1. Free(c, ClaimRow(call.key))
      BY DEF TransitionClaim
    <3> HIDE DEF new
    <3> QED
      BY <1>2, <1>5, <2>1, <2>2, <3>1, ClaimMoved
  <2>4. RepositoryInv' /\ Interface!Answer(c, <<"done", claims'[call.key]>>)
    BY <1>1, <1>5, <2>3, Unwritten, WriteKeeps DEF allButClaims
  <2>5. [claims EXCEPT ![call.key] = Patched(@, call, call.to)] = [claims EXCEPT ![call.key] = new]
    BY <1>2, <2>1
  <2> QED
    BY <1>1, <1>5, <2>4, <2>5, SameClaims DEF Interface!TransitionClaim, Matches, allButClaims
<1> QED
  BY <1>3, <1>4, <1>5 DEF TransitionClaim

LEMMA FinalizeLockClaimKeeps ==
  ASSUME RepositoryInv, NEW c \in Callers, FinalizeLockClaim(c)
  PROVE  /\ RepositoryInv'
         /\ Interface!FinalizeOneClickPayoutAtomically(c) \/ UNCHANGED Interface!vars
<1> DEFINE call == calls[c].call
           op == "finalizeOneClickPayoutAtomically"
<1>1. /\ Interface!Asks(c, op) /\ SeenCalls[c].call = call
      /\ calls[c].at \in Unanswered /\ calls[c].at = "called" /\ call.op = op /\ RestingOK(c)
  BY PayingCall DEF FinalizeLockClaim, Unanswered
<1>2. CASE claims[call.key] = None /\ Only(c, <<"null">>)
  BY <1>1, <1>2, OnlyKeeps DEF Interface!FinalizeOneClickPayoutAtomically
<1>3. CASE claims[call.key] # None /\ Proceed(c, "claim locked", ClaimRow(call.key))
  <2>1. /\ calls'[c].at = "claim locked" /\ calls'[c].call = call
        /\ calls'[c].held = calls[c].held \cup ClaimRow(call.key) /\ UNCHANGED tables
    BY <1>1, <1>3, ProceedFacts
  <2>2. calls[c].held = {}
    BY <1>1 DEF RestingOK
  <2>3. PayingOK(c)'
    BY <1>1, <1>3, <2>1, <2>2 DEF PayingOK, At, ClaimRow, Lock, tables
  <2> QED
    BY <1>1, <1>3, <2>3, PayingProceeds DEF FinalizeLockClaim
<1> QED
  BY <1>2, <1>3 DEF FinalizeLockClaim

LEMMA FinalizeLockCampaignKeeps ==
  ASSUME RepositoryInv, NEW c \in Callers, FinalizeLockCampaign(c)
  PROVE  /\ RepositoryInv'
         /\ Interface!FinalizeOneClickPayoutAtomically(c) \/ UNCHANGED Interface!vars
<1> DEFINE call == calls[c].call
           op == "finalizeOneClickPayoutAtomically"
<1>1. /\ Interface!Asks(c, op) /\ SeenCalls[c].call = call
      /\ calls[c].at \in Unanswered /\ calls[c].at = "claim locked" /\ call.op = op /\ PayingOK(c)
  BY PayingCall DEF FinalizeLockCampaign, Unanswered
<1>2. claims[call.key] # None /\ calls[c].held = ClaimRow(call.key)
  BY <1>1 DEF PayingOK, At
<1>3. CASE ~Payable(call) /\ Only(c, <<"null">>)
  BY <1>1, <1>3, OnlyKeeps DEF Interface!FinalizeOneClickPayoutAtomically, Payable
<1>4. CASE Payable(call) /\ Proceed(c, "both locked", ForUpdate(call.campaign))
  <2>1. /\ calls'[c].at = "both locked" /\ calls'[c].call = call
        /\ calls'[c].held = calls[c].held \cup ForUpdate(call.campaign) /\ UNCHANGED tables
    BY <1>1, <1>4, ProceedFacts
  <2>2. PayingOK(c)'
    BY <1>1, <1>2, <1>4, <2>1 DEF PayingOK, At, Payable, ClaimRow, ForUpdate, Lock, tables
  <2> QED
    BY <1>1, <1>4, <2>2, PayingProceeds DEF FinalizeLockCampaign
<1> QED
  BY <1>3, <1>4 DEF FinalizeLockCampaign, Payable

LEMMA FinalizeCommitKeeps ==
  ASSUME RepositoryInv, NEW c \in Callers, FinalizeCommit(c)
  PROVE  RepositoryInv' /\ Interface!FinalizeOneClickPayoutAtomically(c)
<1> DEFINE call == calls[c].call
           op == "finalizeOneClickPayoutAtomically"
           claim == claims[call.key]
           row == campaigns[call.campaign]
           new == Patched(claim, call, call.target)
           ended == claim.status = call.target
<1>1. /\ Interface!Asks(c, op) /\ SeenCalls[c].call = call
      /\ calls[c].at \in Unanswered /\ call.op = op /\ PayingOK(c) /\ calls[c].at # "idle"
      /\ call.key \in ClaimKeys /\ call.campaign \in Campaigns
      /\ call.target \in {"PAID", "RECOVERED"}
  BY PayingCall DEF FinalizeCommit, Unanswered
<1>2. call.settles \in BOOLEAN /\ call.deposits \in BOOLEAN
  BY <1>1, CallOf, ClaimCalls
<1>3. /\ claim # None /\ Payable(call)
      /\ calls[c].held = ClaimRow(call.key) \cup ForUpdate(call.campaign)
  BY <1>1 DEF PayingOK, FinalizeCommit
<1>4. /\ claim \in Claim /\ row \in Campaign /\ row # None
      /\ DOMAIN claims = ClaimKeys /\ DOMAIN campaigns = Campaigns
  BY <1>1, <1>3 DEF RepositoryInv, TablesTyped, Payable
<1>5. Free(c, CampaignRow(call.campaign)) /\ Free(c, ClaimRow(call.key))
  BY <1>3 DEF RepositoryInv, LocksExclusive, Free, ForUpdate, CampaignRow
<1>6. CASE ~ended /\ WinnerTaken(call.key) /\ Only(c, <<"refused">>)
  BY <1>1, <1>3, <1>6, OnlyKeeps, SameClaims
  DEF Interface!FinalizeOneClickPayoutAtomically, Payable
<1>7. CASE /\ ~(~ended /\ WinnerTaken(call.key))
           /\ claims' = IF ended THEN claims ELSE [claims EXCEPT ![call.key] = new]
           /\ campaigns' = IF row.status = "CLAIMED" THEN campaigns
                           ELSE [campaigns EXCEPT ![call.campaign] = Moved(row, "CLAIMED")]
           /\ Answer(c, <<"done", claims'[call.key], campaigns'[call.campaign]>>)
           /\ UNCHANGED <<fundingOrders, idempotency, jobs, events, workload>>
  <2>1. new \in Claim /\ new.campaign = claim.campaign /\ new.status = call.target
    <3>1. call.target \in ClaimStatus
      BY <1>1 DEF ClaimStatus
    <3> QED
      BY <1>2, <1>4, <3>1, PatchedType
  <2>2. ClaimsKept(c)
    <3>1. CASE ended
      BY <1>7, <3>1, Unwritten
    <3>2. CASE ~ended
      <4>1. claims' = [claims EXCEPT ![call.key] = new] /\ ~WinnerTaken(call.key)
        BY <1>7, <3>2
      <4> HIDE DEF new
      <4> QED
        BY <1>1, <1>3, <1>5, <2>1, <4>1, ClaimMoved
    <3> QED
      BY <3>1, <3>2
  <2>3. CampaignsKept(c)
    <3>1. CASE row.status = "CLAIMED"
      BY <1>7, <3>1, Unwritten
    <3>2. CASE row.status # "CLAIMED"
      BY <1>1, <1>4, <1>5, <1>7, <3>2, CampaignMoved DEF CampaignStatus
    <3> QED
      BY <3>1, <3>2
  <2>4. /\ RepositoryInv'
        /\ Interface!Answer(c, <<"done", claims'[call.key], campaigns'[call.campaign]>>)
    BY <1>1, <1>7, <2>2, <2>3, Unwritten, WriteKeeps
  <2>5. /\ [claims EXCEPT ![call.key] = Patched(@, call, call.target)]
              = [claims EXCEPT ![call.key] = new]
        /\ [campaigns EXCEPT ![call.campaign] = Moved(@, "CLAIMED")]
              = [campaigns EXCEPT ![call.campaign] = Moved(row, "CLAIMED")]
    BY <1>1, <1>4
  <2>6. claim.settled \/ (~ended /\ call.settles)
    BY <1>3 DEF Payable
  <2> QED
    BY <1>1, <1>3, <1>7, <2>4, <2>5, <2>6, SameClaims, SameCampaigns
    DEF Interface!FinalizeOneClickPayoutAtomically, Payable
<1> QED
  BY <1>6, <1>7 DEF FinalizeCommit

LEMMA GetLiveLiabilitiesKeeps ==
  ASSUME RepositoryInv, NEW c \in Callers, GetLiveLiabilities(c)
  PROVE  RepositoryInv' /\ Interface!GetLiveLiabilities(c)
<1> DEFINE live == {x \in Stored(campaigns) : campaigns[x].status \in
                       {"SCHEDULED", "ACTIVE", "CLAIMING", "REFUNDING"}}
           escrow == {x \in live : ~ReleasedFromEscrow(x)}
           routing == {x \in live : RoutingInFlight(x)}
<1>1. /\ Interface!Asks(c, "getLiveLiabilities") /\ calls[c].at \in Unanswered
  BY AsksFor DEF GetLiveLiabilities, Unanswered
<1>2. Only(c, <<"done", escrow, routing>>)
  BY DEF GetLiveLiabilities
<1>3. /\ Interface!Live = live
      /\ Interface!Claiming = {x \in live : campaigns[x].status = "CLAIMING"}
  BY DEF Interface!Live, Interface!Claiming, Interface!Stored, Stored
<1>4. \A x : /\ Interface!Deposited(x) # {} <=>
                   \E k \in Stored(claims) :
                      /\ claims[k].campaign = x /\ claims[k].payout = "ONE_CLICK"
                      /\ claims[k].status \in {"PAYING", "FAILED"} /\ claims[k].deposited
             /\ Interface!Terminal(x) # {} <=>
                   \E k \in Stored(claims) :
                      /\ claims[k].campaign = x /\ claims[k].payout = "ONE_CLICK"
                      /\ claims[k].status \in {"PAID", "RECOVERED"} /\ claims[k].settled
  BY DEF Interface!Deposited, Interface!Terminal, Interface!Stored, Stored
<1> HIDE DEF live
<1>5. Interface!RoutingCampaigns = routing
  BY <1>3, <1>4 DEF Interface!RoutingCampaigns, RoutingInFlight
<1>6. Interface!EscrowCampaigns = escrow
  <2>1. \A x : ReleasedFromEscrow(x) <=>
                  /\ campaigns[x].status = "CLAIMING"
                  /\ Interface!Deposited(x) # {} \/ Interface!Terminal(x) # {}
    BY <1>4 DEF ReleasedFromEscrow
  <2>2. \A x : Interface!Deposited(x) \cup Interface!Terminal(x) # {} <=>
                  Interface!Deposited(x) # {} \/ Interface!Terminal(x) # {}
    OBVIOUS
  <2> QED
    BY <1>3, <2>1, <2>2 DEF Interface!EscrowCampaigns
<1>7. RepositoryInv' /\ Interface!Only(c, <<"done", escrow, routing>>)
  BY <1>1, <1>2, OnlyKeeps
<1> QED
  BY <1>1, <1>5, <1>6, <1>7 DEF Interface!GetLiveLiabilities

-----------------------------------------------------------------------------
(* The calls about idempotency records.                                     *)

LEMMA ReservingCall ==
  ASSUME RepositoryInv, NEW c \in Callers, NEW at \in Unanswered,
         NEW op \in {"reserveIdempotency", "acquireIdempotencyProcessingLease"}, At(c, op, at)
  PROVE  /\ Interface!Asks(c, op)
         /\ SeenCalls[c].call = calls[c].call /\ calls[c].at \in Unanswered /\ calls[c].at = at
         /\ calls[c].call.op = op /\ calls[c].call.key \in RecordKeys
         /\ op = "reserveIdempotency" =>
               /\ calls[c].call.request \in Requests /\ calls[c].call.processing \in BOOLEAN
         /\ op = "acquireIdempotencyProcessingLease" => calls[c].call.actor \in Actors
         /\ ReservingOK(c) /\ RestingOK(c)
<1>1. calls[c].at # "idle" /\ calls[c].at = at /\ calls[c].call.op = op
  BY DEF At, Unanswered
<1> QED
  BY <1>1, AsksFor, CallOf, IdempotencyCalls DEF RepositoryInv, CallOK

LEMMA ReservingProceeds ==
  ASSUME RepositoryInv, NEW c \in Callers, NEW at \in {"deleted", "inserted", "conflict", "updated"},
         NEW locks, calls[c].at \in Unanswered, Proceed(c, at, locks), locks = {} \/ Free(c, locks),
         calls[c].call.op \in {"reserveIdempotency", "acquireIdempotencyProcessingLease"},
         ReservingOK(c)'
  PROVE  RepositoryInv' /\ UNCHANGED Interface!vars
<1>1. /\ calls'[c].at = at /\ calls'[c].call = calls[c].call /\ calls[c].call \in Calls
      /\ at \in Unanswered
  BY ProceedFacts DEF Unanswered
<1>2. CreatingOK(c)' /\ PayingOK(c)' /\ LeasingOK(c)' /\ RestingOK(c)' /\ FreezingOK(c)'
  BY <1>1 DEF CreatingOK, FreezingOK, PayingOK, LeasingOK, RestingOK, At
<1>3. CallOK(c)'
  BY <1>2 DEF CallOK
<1> QED
  BY <1>1, <1>3, ProceedKeeps

LEMMA ReserveDeleteKeeps ==
  ASSUME RepositoryInv, NEW c \in Callers, ReserveDelete(c)
  PROVE  RepositoryInv' /\ UNCHANGED Interface!vars
<1> DEFINE k == calls[c].call.key
           op == "reserveIdempotency"
           gone == idempotency[k] # None /\ ~Kept(k)
<1>1. /\ calls[c].at \in Unanswered /\ calls[c].at = "called" /\ calls[c].call.op = op
      /\ RestingOK(c)
  BY ReservingCall DEF ReserveDelete, Unanswered
<1>2. calls[c].held = {}
  BY <1>1 DEF RestingOK
<1>3. CASE gone /\ Free(c, RecordRow(k)) /\ Proceed(c, "deleted", RecordRow(k))
  <2>1. /\ calls'[c].at = "deleted" /\ calls'[c].call = calls[c].call
        /\ calls'[c].held = calls[c].held \cup RecordRow(k) /\ UNCHANGED tables
    BY <1>1, <1>3, ProceedFacts
  <2>2. ReservingOK(c)'
    BY <1>1, <1>2, <1>3, <2>1 DEF ReservingOK, At, Kept, RecordRow, Lock, tables
  <2> QED
    BY <1>1, <1>3, <2>2, ReservingProceeds
<1>4. CASE Proceed(c, "deleted", {})
  <2>1. /\ calls'[c].at = "deleted" /\ calls'[c].call = calls[c].call
        /\ calls'[c].held = calls[c].held \cup {}
    BY <1>1, <1>4, ProceedFacts
  <2>2. ReservingOK(c)'
    BY <1>1, <1>2, <2>1 DEF ReservingOK, At
  <2> QED
    BY <1>1, <1>4, <2>2, ReservingProceeds
<1> QED
  BY <1>3, <1>4 DEF ReserveDelete

LEMMA ReserveInsertKeeps ==
  ASSUME RepositoryInv, NEW c \in Callers, ReserveInsert(c)
  PROVE  RepositoryInv' /\ UNCHANGED Interface!vars
<1> DEFINE k == calls[c].call.key
           op == "reserveIdempotency"
           gone == idempotency[k] # None /\ ~Kept(k)
           absent == idempotency[k] = None \/ RecordRow(k) \subseteq calls[c].held
<1>1. /\ calls[c].at \in Unanswered /\ calls[c].at = "deleted" /\ calls[c].call.op = op
      /\ ReservingOK(c)
  BY ReservingCall DEF ReserveInsert, Unanswered
<1>2. calls[c].held = {} \/ (gone /\ calls[c].held = RecordRow(k))
  BY <1>1 DEF ReservingOK, At
<1>3. CASE absent
  <2>1. Proceed(c, "inserted", RecordRow(k)) /\ Free(c, RecordRow(k))
    BY <1>3 DEF ReserveInsert
  <2>2. /\ calls'[c].at = "inserted" /\ calls'[c].call = calls[c].call
        /\ calls'[c].held = calls[c].held \cup RecordRow(k) /\ UNCHANGED tables
    BY <1>1, <2>1, ProceedFacts
  <2>3. calls'[c].held = RecordRow(k) /\ (idempotency[k] = None \/ gone)
    BY <1>2, <1>3, <2>2 DEF RecordRow
  <2>4. ReservingOK(c)'
    BY <1>1, <2>2, <2>3 DEF ReservingOK, At, Kept, RecordRow, Lock, tables
  <2> QED
    BY <1>1, <2>1, <2>4, ReservingProceeds
<1>4. CASE ~absent
  <2>1. Proceed(c, "conflict", {})
    BY <1>4 DEF ReserveInsert
  <2>2. /\ calls'[c].at = "conflict" /\ calls'[c].call = calls[c].call
        /\ calls'[c].held = calls[c].held \cup {} /\ UNCHANGED tables
    BY <1>1, <2>1, ProceedFacts
  <2>3. ReservingOK(c)'
    BY <1>1, <1>2, <1>4, <2>2 DEF ReservingOK, At, tables
  <2> QED
    BY <1>1, <2>1, <2>3, ReservingProceeds
<1> QED
  BY <1>3, <1>4

LEMMA ReserveCommitKeeps ==
  ASSUME RepositoryInv, NEW c \in Callers, ReserveCommit(c)
  PROVE  RepositoryInv' /\ Interface!ReserveIdempotency(c)
<1> DEFINE call == calls[c].call
           op == "reserveIdempotency"
           row == NewRecord(call)
<1>1. /\ Interface!Asks(c, op) /\ SeenCalls[c].call = call
      /\ calls[c].at \in Unanswered /\ call.op = op /\ call.key \in RecordKeys
      /\ call.request \in Requests /\ call.processing \in BOOLEAN /\ ReservingOK(c)
  BY ReservingCall DEF ReserveCommit, Unanswered
<1>2. /\ idempotency[call.key] = None \/ ~Kept(call.key)
      /\ calls[c].held = RecordRow(call.key)
  BY <1>1 DEF ReservingOK, ReserveCommit
<1>3. Free(c, RecordRow(call.key))
  BY <1>2 DEF RepositoryInv, LocksExclusive, Free
<1>4. row \in IdempotencyRecord
  BY <1>1 DEF NewRecord, IdempotencyRecord, Stages
<1>5. RecordsKept(c)
  <2> HIDE DEF row
  <2> QED
    BY <1>1, <1>3, <1>4, RecordWritten DEF ReserveCommit, row
<1>6. RepositoryInv' /\ Interface!Answer(c, <<"created">>)
  BY <1>1, <1>5, Unwritten, WriteKeeps DEF ReserveCommit, allButRecords
<1> QED
  BY <1>1, <1>2, <1>6, SameRecords DEF Interface!ReserveIdempotency, ReserveCommit, allButRecords

LEMMA ReserveSelectKeeps ==
  ASSUME RepositoryInv, NEW c \in Callers, ReserveSelect(c)
  PROVE  RepositoryInv' /\ Interface!ReserveIdempotency(c)
<1> DEFINE call == calls[c].call
           op == "reserveIdempotency"
<1>1. /\ Interface!Asks(c, op) /\ SeenCalls[c].call = call
      /\ calls[c].at \in Unanswered /\ call.op = op /\ ReservingOK(c)
  BY ReservingCall DEF ReserveSelect, Unanswered
<1>2. idempotency[call.key] # None
  BY <1>1 DEF ReservingOK, ReserveSelect
<1>3. Only(c, <<"existing", idempotency[call.key].request>>)
  BY DEF ReserveSelect
<1> QED
  BY <1>1, <1>2, <1>3, OnlyKeeps DEF Interface!ReserveIdempotency

LEMMA GetIdempotencyKeeps ==
  ASSUME RepositoryInv, NEW c \in Callers, GetIdempotency(c)
  PROVE  RepositoryInv' /\ Interface!GetIdempotency(c)
<1> DEFINE k == calls[c].call.key
           answer == IF idempotency[k] # None /\ Kept(k) THEN <<"done", idempotency[k]>>
                     ELSE <<"null">>
<1>1. /\ Interface!Asks(c, "getIdempotency") /\ SeenCalls[c].call = calls[c].call
      /\ calls[c].at \in Unanswered
  BY AsksFor DEF GetIdempotency, Unanswered
<1>2. RepositoryInv' /\ Interface!Only(c, answer)
  BY <1>1, OnlyKeeps DEF GetIdempotency
<1> QED
  BY <1>1, <1>2, SameRecords DEF Interface!GetIdempotency

\* An UPDATE of one record that commits.
LEMMA UpdateKeeps ==
  ASSUME RepositoryInv, NEW c \in Callers, calls[c].at \in Unanswered,
         calls[c].call.key \in RecordKeys, NEW row \in IdempotencyRecord,
         UpdateRecord(c, row), Free(c, RecordRow(calls[c].call.key))
  PROVE  RepositoryInv' /\ Interface!WriteRecord(c, row)
<1>1. RecordsKept(c)
  BY RecordWritten DEF UpdateRecord
<1>2. RepositoryInv' /\ Interface!Answer(c, <<"done", row>>)
  BY <1>1, Unwritten, WriteKeeps DEF UpdateRecord, allButRecords
<1>3. SeenCalls[c].call = calls[c].call
  BY SeenFacts
<1> QED
  BY <1>2, <1>3 DEF Interface!WriteRecord, UpdateRecord, allButRecords

LEMMA AcquireUpdateKeeps ==
  ASSUME RepositoryInv, NEW c \in Callers, AcquireUpdate(c)
  PROVE  /\ RepositoryInv'
         /\ Interface!AcquireIdempotencyProcessingLease(c) \/ UNCHANGED Interface!vars
<1> DEFINE call == calls[c].call
           op == "acquireIdempotencyProcessingLease"
<1>1. /\ Interface!Asks(c, op) /\ SeenCalls[c].call = call
      /\ calls[c].at \in Unanswered /\ calls[c].at = "called" /\ call.op = op
      /\ ReservingOK(c) /\ RestingOK(c)
  BY ReservingCall DEF AcquireUpdate, Unanswered
<1>2. idempotency[call.key] # None /\ calls[c].held = {}
  BY <1>1 DEF ReservingOK, RestingOK, At
<1>3. CASE Takeable(call) /\ Proceed(c, "updated", RecordRow(call.key))
  <2>1. /\ calls'[c].at = "updated" /\ calls'[c].call = call
        /\ calls'[c].held = calls[c].held \cup RecordRow(call.key) /\ UNCHANGED tables
    BY <1>1, <1>3, ProceedFacts
  <2>2. ReservingOK(c)'
    BY <1>1, <1>2, <1>3, <2>1 DEF ReservingOK, At, Takeable, RecordRow, Lock, tables
  <2> QED
    BY <1>1, <1>3, <2>2, ReservingProceeds DEF AcquireUpdate
<1>4. CASE ~Takeable(call) /\ Decide(c, <<"null">>)
  BY <1>1, <1>2, <1>4, OnlyKeeps
  DEF Interface!AcquireIdempotencyProcessingLease, Takeable, Unowned
<1> QED
  BY <1>2, <1>3, <1>4 DEF AcquireUpdate, Takeable

LEMMA AcquireCommitKeeps ==
  ASSUME RepositoryInv, NEW c \in Callers, AcquireCommit(c)
  PROVE  RepositoryInv' /\ Interface!AcquireIdempotencyProcessingLease(c)
<1> DEFINE call == calls[c].call
           op == "acquireIdempotencyProcessingLease"
           row == idempotency[call.key]
           new == [row EXCEPT !.owner = call.actor, !.lapsed = FALSE, !.version = @ + 1]
<1>1. /\ Interface!Asks(c, op) /\ SeenCalls[c].call = call
      /\ calls[c].at \in Unanswered /\ call.op = op /\ call.key \in RecordKeys
      /\ call.actor \in Actors /\ ReservingOK(c)
  BY ReservingCall DEF AcquireCommit, Unanswered
<1>2. Takeable(call) /\ calls[c].held = RecordRow(call.key)
  BY <1>1 DEF ReservingOK, AcquireCommit
<1>3. Free(c, RecordRow(call.key))
  BY <1>2 DEF RepositoryInv, LocksExclusive, Free
<1>4. row \in IdempotencyRecord
  BY <1>1, <1>2 DEF RepositoryInv, TablesTyped, Takeable
<1>5. new \in IdempotencyRecord
  <2>1. row.version + 1 \in Nat
    BY <1>4 DEF IdempotencyRecord
  <2> QED
    BY <1>1, <1>4, <2>1 DEF IdempotencyRecord
<1>6. UpdateRecord(c, new)
  BY DEF AcquireCommit
<1>7. RepositoryInv' /\ Interface!WriteRecord(c, new)
  <2> HIDE DEF new
  <2> QED
    BY <1>1, <1>3, <1>5, <1>6, UpdateKeeps
<1> QED
  BY <1>1, <1>2, <1>7 DEF Interface!AcquireIdempotencyProcessingLease, Takeable, Unowned

LEMMA RecordCall ==
  ASSUME RepositoryInv, NEW c \in Callers,
         NEW op \in {"advanceIdempotencyProcessing", "finishOwnedIdempotency", "finishIdempotency"},
         At(c, op, "called")
  PROVE  /\ Interface!Asks(c, op)
         /\ SeenCalls[c].call = calls[c].call /\ calls[c].at \in Unanswered
         /\ calls[c].call.op = op /\ calls[c].call.key \in RecordKeys
         /\ op = "advanceIdempotencyProcessing" =>
               /\ calls[c].call.actor \in Actors /\ calls[c].call.to \in Stages
               /\ calls[c].call.renews \in BOOLEAN
         /\ op # "advanceIdempotencyProcessing" =>
               calls[c].call.result \in {"COMPLETED", "FAILED"}
<1>1. calls[c].at = "called" /\ calls[c].call.op = op /\ "called" \in Unanswered
  BY DEF At, Unanswered
<1> QED
  BY <1>1, AsksFor, CallOf, IdempotencyCalls

LEMMA AdvanceIdempotencyProcessingKeeps ==
  ASSUME RepositoryInv, NEW c \in Callers, AdvanceIdempotencyProcessing(c)
  PROVE  RepositoryInv' /\ Interface!AdvanceIdempotencyProcessing(c)
<1> DEFINE call == calls[c].call
           op == "advanceIdempotencyProcessing"
           row == idempotency[call.key]
           unknown == call.to = "SETTLEMENT_UNKNOWN"
           found == /\ OwnedAt(row, call) /\ row.request = call.request /\ row.authorized
                    /\ StageFollows(call.stage, call.to)
                    /\ call.renews = ~unknown
           owner == IF unknown THEN None ELSE call.actor
           new == [row EXCEPT !.stage = call.to, !.lapsed = FALSE, !.owner = owner,
                              !.version = @ + 1]
<1>1. /\ Interface!Asks(c, op) /\ SeenCalls[c].call = call
      /\ calls[c].at \in Unanswered /\ call.op = op /\ call.key \in RecordKeys
      /\ call.actor \in Actors /\ call.to \in Stages
  BY RecordCall DEF AdvanceIdempotencyProcessing
<1>2. CASE ~found /\ Only(c, <<"null">>)
  BY <1>1, <1>2, OnlyKeeps, SameRecords DEF Interface!AdvanceIdempotencyProcessing
<1>3. CASE found /\ UpdateRecord(c, new)
  <2>1. row \in IdempotencyRecord /\ row.owner = call.actor
    BY <1>1, <1>3 DEF RepositoryInv, TablesTyped, OwnedAt
  <2>2. new \in IdempotencyRecord
    <3>1. row.version + 1 \in Nat /\ owner \in Actors \cup {None}
      BY <1>1, <2>1 DEF IdempotencyRecord
    <3> QED
      BY <1>1, <2>1, <3>1 DEF IdempotencyRecord
  <2>3. RepositoryInv' /\ Interface!WriteRecord(c, new)
    <3> HIDE DEF new
    <3> QED
      BY <1>1, <1>3, <2>2, UpdateKeeps DEF AdvanceIdempotencyProcessing
  <2>4. new = [row EXCEPT !.stage = call.to, !.lapsed = FALSE,
                          !.owner = IF unknown THEN None ELSE @, !.version = @ + 1]
    BY <2>1
  <2> QED
    BY <1>1, <1>3, <2>3, <2>4, SameRecords DEF Interface!AdvanceIdempotencyProcessing
<1> QED
  BY <1>2, <1>3 DEF AdvanceIdempotencyProcessing

LEMMA FinishedType ==
  ASSUME NEW row \in IdempotencyRecord, NEW result \in {"COMPLETED", "FAILED"}
  PROVE  Finished(row, result) \in IdempotencyRecord
<1>1. row.version + 1 \in Nat
  BY DEF IdempotencyRecord
<1> QED
  BY <1>1 DEF Finished, IdempotencyRecord

LEMMA FinishOwnedIdempotencyKeeps ==
  ASSUME RepositoryInv, NEW c \in Callers, FinishOwnedIdempotency(c)
  PROVE  RepositoryInv' /\ Interface!FinishOwnedIdempotency(c)
<1> DEFINE call == calls[c].call
           op == "finishOwnedIdempotency"
           row == idempotency[call.key]
<1>1. /\ Interface!Asks(c, op) /\ SeenCalls[c].call = call
      /\ calls[c].at \in Unanswered /\ call.op = op /\ call.key \in RecordKeys
      /\ call.result \in {"COMPLETED", "FAILED"}
  BY RecordCall DEF FinishOwnedIdempotency
<1>2. CASE ~OwnedAt(row, call) /\ Only(c, <<"null">>)
  BY <1>1, <1>2, OnlyKeeps, SameRecords DEF Interface!FinishOwnedIdempotency
<1>3. CASE OwnedAt(row, call) /\ UpdateRecord(c, Finished(row, call.result))
  <2>1. row \in IdempotencyRecord
    BY <1>1, <1>3 DEF RepositoryInv, TablesTyped, OwnedAt
  <2>2. RepositoryInv' /\ Interface!WriteRecord(c, Finished(row, call.result))
    BY <1>1, <1>3, <2>1, FinishedType, UpdateKeeps DEF FinishOwnedIdempotency
  <2> QED
    BY <1>1, <1>3, <2>2, SameRecords DEF Interface!FinishOwnedIdempotency
<1> QED
  BY <1>2, <1>3 DEF FinishOwnedIdempotency

LEMMA FinishIdempotencyKeeps ==
  ASSUME RepositoryInv, NEW c \in Callers, FinishIdempotency(c)
  PROVE  RepositoryInv' /\ Interface!FinishIdempotency(c)
<1> DEFINE call == calls[c].call
           op == "finishIdempotency"
           row == idempotency[call.key]
           found == row # None /\ row.state = "PROCESSING" /\ row.owner = None
<1>1. /\ Interface!Asks(c, op) /\ SeenCalls[c].call = call
      /\ calls[c].at \in Unanswered /\ call.op = op /\ call.key \in RecordKeys
      /\ call.result \in {"COMPLETED", "FAILED"}
  BY RecordCall DEF FinishIdempotency
<1>2. CASE ~found /\ Only(c, <<"refused">>)
  BY <1>1, <1>2, OnlyKeeps DEF Interface!FinishIdempotency
<1>3. CASE found /\ UpdateRecord(c, Finished(row, call.result))
  <2>1. row \in IdempotencyRecord
    BY <1>1, <1>3 DEF RepositoryInv, TablesTyped
  <2>2. RepositoryInv' /\ Interface!WriteRecord(c, Finished(row, call.result))
    BY <1>1, <1>3, <2>1, FinishedType, UpdateKeeps DEF FinishIdempotency
  <2> QED
    BY <1>1, <1>3, <2>2, SameRecords DEF Interface!FinishIdempotency
<1> QED
  BY <1>2, <1>3 DEF FinishIdempotency

-----------------------------------------------------------------------------
(* The calls about jobs and events.                                         *)

LEMMA LeasingCall ==
  ASSUME RepositoryInv, NEW c \in Callers, NEW at \in Unanswered,
         NEW op \in {"enqueueJob", "leaseJobs", "endJob"}, At(c, op, at)
  PROVE  /\ Interface!Asks(c, op)
         /\ SeenCalls[c].call = calls[c].call /\ calls[c].at \in Unanswered /\ calls[c].at = at
         /\ calls[c].call.op = op
         /\ op \in {"enqueueJob", "endJob"} => calls[c].call.key \in JobKeys
         /\ op = "leaseJobs" => calls[c].call.actor \in Actors /\ calls[c].call.limit \in Nat
         /\ op = "endJob" => calls[c].call.how \in {"complete", "reschedule", "fail"}
         /\ LeasingOK(c) /\ RestingOK(c)
<1>1. calls[c].at # "idle" /\ calls[c].at = at /\ calls[c].call.op = op
  BY DEF At, Unanswered
<1> QED
  BY <1>1, AsksFor, CallOf, OtherCalls DEF RepositoryInv, CallOK

LEMMA LeasingProceeds ==
  ASSUME RepositoryInv, NEW c \in Callers, NEW at \in {"conflict", "updated"},
         NEW locks, calls[c].at \in Unanswered, Proceed(c, at, locks), locks = {} \/ Free(c, locks),
         calls[c].call.op \in {"enqueueJob", "leaseJobs"}, LeasingOK(c)'
  PROVE  RepositoryInv' /\ UNCHANGED Interface!vars
<1>1. /\ calls'[c].at = at /\ calls'[c].call = calls[c].call /\ calls[c].call \in Calls
      /\ at \in Unanswered
  BY ProceedFacts DEF Unanswered
<1>2. CreatingOK(c)' /\ PayingOK(c)' /\ ReservingOK(c)' /\ RestingOK(c)' /\ FreezingOK(c)'
  BY <1>1 DEF CreatingOK, FreezingOK, PayingOK, ReservingOK, RestingOK, At
<1>3. CallOK(c)'
  BY <1>2 DEF CallOK
<1> QED
  BY <1>1, <1>3, ProceedKeeps

LEMMA OneJobWritten ==
  ASSUME RepositoryInv, NEW c \in Callers, NEW k \in JobKeys, NEW row \in Job,
         jobs' = [jobs EXCEPT ![k] = row], jobs[k] # None => Free(c, JobRow(k))
  PROVE  JobsKept(c)
<1>1. jobs \in [JobKeys -> Job \cup {None}] /\ row # None
  BY AbsenceAssumption DEF RepositoryInv, TablesTyped
<1>2. /\ jobs' \in [JobKeys -> Job \cup {None}] /\ jobs'[k] = row
      /\ \A l \in JobKeys \ {k} : jobs'[l] = jobs[l]
  BY <1>1
<1> QED
  BY <1>1, <1>2, JobsWritten

LEMMA NewJobType == NewJob \in Job
  BY RowsAssumption DEF NewJob, Job, JobStatus

LEMMA EnqueueInsertKeeps ==
  ASSUME RepositoryInv, NEW c \in Callers, EnqueueInsert(c)
  PROVE  RepositoryInv' /\ (Interface!EnqueueJob(c) \/ UNCHANGED Interface!vars)
<1> DEFINE call == calls[c].call
           op == "enqueueJob"
<1>1. /\ Interface!Asks(c, op) /\ SeenCalls[c].call = call
      /\ calls[c].at \in Unanswered /\ call.op = op /\ call.key \in JobKeys
      /\ calls[c].at = "called" /\ RestingOK(c)
  BY LeasingCall DEF EnqueueInsert, Unanswered
<1>2. CASE /\ jobs[call.key] = None
           /\ jobs' = [jobs EXCEPT ![call.key] = NewJob]
           /\ Answer(c, <<"created">>)
           /\ UNCHANGED allButJobs
  <2>1. JobsKept(c)
    BY <1>1, <1>2, NewJobType, OneJobWritten
  <2>2. RepositoryInv' /\ Interface!Answer(c, <<"created">>)
    BY <1>1, <1>2, <2>1, Unwritten, WriteKeeps DEF allButJobs
  <2> QED
    BY <1>1, <1>2, <2>2, SameJobs DEF Interface!EnqueueJob, allButJobs
<1>3. CASE jobs[call.key] # None /\ call.reactivateDead /\ Proceed(c, "conflict", {})
  <2>1. /\ calls'[c].at = "conflict" /\ calls'[c].call = call
        /\ calls'[c].held = calls[c].held \cup {} /\ UNCHANGED tables
    BY <1>1, <1>3, ProceedFacts
  <2>2. LeasingOK(c)'
    BY <1>1, <1>3, <2>1 DEF LeasingOK, RestingOK, At, tables
  <2> QED
    BY <1>1, <1>3, <2>2, LeasingProceeds
<1>4. CASE jobs[call.key] # None /\ ~call.reactivateDead /\ Decide(c, <<"existing">>)
  <2>1. RepositoryInv' /\ Interface!Only(c, <<"existing">>)
    BY <1>1, <1>4, OnlyKeeps
  <2> QED
    BY <1>1, <1>4, <2>1 DEF Interface!EnqueueJob, Interface!Only, Interface!tables
<1> QED
  BY <1>2, <1>3, <1>4 DEF EnqueueInsert

LEMMA EnqueueReviveKeeps ==
  ASSUME RepositoryInv, NEW c \in Callers, EnqueueRevive(c)
  PROVE  RepositoryInv' /\ Interface!EnqueueJob(c)
<1> DEFINE call == calls[c].call
           op == "enqueueJob"
<1>1. /\ Interface!Asks(c, op) /\ SeenCalls[c].call = call
      /\ calls[c].at \in Unanswered /\ call.op = op /\ call.key \in JobKeys /\ LeasingOK(c)
  BY LeasingCall DEF EnqueueRevive, Unanswered
<1>2. call.reactivateDead /\ jobs[call.key] # None
  BY <1>1 DEF LeasingOK, EnqueueRevive
<1>3. CASE jobs[call.key].status # "DEAD" /\ Decide(c, <<"existing">>)
  <2>1. RepositoryInv' /\ Interface!Only(c, <<"existing">>)
    BY <1>1, <1>3, OnlyKeeps
  <2> QED
    BY <1>1, <1>2, <1>3, <2>1 DEF Interface!EnqueueJob, Interface!Only, Interface!tables
<1>4. CASE /\ jobs[call.key].status = "DEAD"
           /\ jobs' = [jobs EXCEPT ![call.key] = NewJob]
           /\ Answer(c, <<"existing">>)
           /\ UNCHANGED allButJobs
  <2>1. JobsKept(c)
    BY <1>1, <1>4, NewJobType, OneJobWritten DEF EnqueueRevive
  <2>2. RepositoryInv' /\ Interface!Answer(c, <<"existing">>)
    BY <1>1, <1>4, <2>1, Unwritten, WriteKeeps DEF allButJobs
  <2> QED
    BY <1>1, <1>2, <1>4, <2>2, SameJobs DEF Interface!EnqueueJob, allButJobs
<1> QED
  BY <1>3, <1>4 DEF EnqueueRevive

LEMMA LeaseUpdateKeeps ==
  ASSUME RepositoryInv, NEW c \in Callers, LeaseUpdate(c)
  PROVE  RepositoryInv' /\ UNCHANGED Interface!vars
<1> DEFINE call == calls[c].call
           op == "leaseJobs"
<1>1. /\ calls[c].at \in Unanswered /\ calls[c].at = "called" /\ call.op = op /\ RestingOK(c)
  BY LeasingCall DEF LeaseUpdate, Unanswered
<1>2. PICK taken \in SUBSET {k \in JobKeys : Leasable(k) /\ Unlocked(c, k)} :
         /\ Cardinality(taken) <= call.limit
         /\ Proceed(c, "updated", UNION {JobRow(k) : k \in taken})
  BY DEF LeaseUpdate
<1> DEFINE locks == UNION {JobRow(k) : k \in taken}
<1>3. /\ calls'[c].at = "updated" /\ calls'[c].call = call
      /\ calls'[c].held = calls[c].held \cup locks /\ UNCHANGED tables
  BY <1>1, <1>2, ProceedFacts
<1>4. calls'[c].held = locks
  BY <1>1, <1>3 DEF RestingOK
<1>5. Taken(c)' = taken
  BY <1>2, <1>4 DEF Taken, JobRow, Lock
<1>6. \A k \in taken : Leasable(k)'
  BY <1>2, <1>3 DEF Leasable, tables
<1>7. LeasingOK(c)'
  BY <1>1, <1>2, <1>3, <1>5, <1>6 DEF LeasingOK, At
<1>8. Free(c, locks)
  BY <1>2 DEF Unlocked, Free
<1> QED
  BY <1>1, <1>2, <1>7, <1>8, LeasingProceeds

LEMMA LeaseCommitKeeps ==
  ASSUME RepositoryInv, NEW c \in Callers, LeaseCommit(c)
  PROVE  RepositoryInv' /\ Interface!LeaseJobs(c)
<1> DEFINE call == calls[c].call
           op == "leaseJobs"
           taken == Taken(c)
           leased(k) == [status |-> "RUNNING", attempts |-> jobs[k].attempts + 1,
                         owner |-> call.actor, lapsed |-> FALSE]
<1>1. /\ Interface!Asks(c, op) /\ SeenCalls[c].call = call
      /\ calls[c].at \in Unanswered /\ call.op = op /\ call.actor \in Actors /\ LeasingOK(c)
  BY LeasingCall DEF LeaseCommit, Unanswered
<1>2. /\ Cardinality(taken) <= call.limit /\ \A k \in taken : Leasable(k)
      /\ taken \subseteq JobKeys
  BY <1>1 DEF LeasingOK, LeaseCommit, Taken
<1>3. /\ jobs' = [k \in JobKeys |-> IF k \notin taken THEN jobs[k] ELSE leased(k)]
      /\ Answer(c, <<"done", taken>>)
      /\ UNCHANGED allButJobs
  BY DEF LeaseCommit, Taken
<1>4. jobs \in [JobKeys -> Job \cup {None}]
  BY DEF RepositoryInv, TablesTyped
<1>5. \A k \in taken : leased(k) \in Job
  <2> SUFFICES ASSUME NEW k \in taken PROVE leased(k) \in Job
    OBVIOUS
  <2>1. jobs[k] \in Job /\ jobs[k].attempts < MaxAttempts
    BY <1>2, <1>4 DEF Leasable
  <2>2. jobs[k].attempts + 1 \in 0 .. MaxAttempts
    BY <2>1, RowsAssumption DEF Job
  <2> QED
    BY <1>1, <2>2 DEF Job, JobStatus
<1>6. \A k \in taken : Free(c, JobRow(k))
  BY DEF Taken, RepositoryInv, LocksExclusive, Free
<1>7. JobsKept(c)
  <2> HIDE DEF leased, taken
  <2>1. jobs' \in [JobKeys -> Job \cup {None}]
    BY <1>3, <1>4, <1>5
  <2>2. \A k \in JobKeys : jobs'[k] = IF k \notin taken THEN jobs[k] ELSE leased(k)
    BY <1>3
  <2>3. \A k \in taken : leased(k) # None
    BY <1>5, AbsenceAssumption
  <2> QED
    BY <1>6, <2>1, <2>2, <2>3, JobsWritten
<1>8. RepositoryInv' /\ Interface!Answer(c, <<"done", taken>>)
  BY <1>1, <1>3, <1>7, Unwritten, WriteKeeps DEF allButJobs
<1>9. taken \in SUBSET {k \in JobKeys : Interface!Leasable(k)}
  BY <1>2, SameJobs
<1>10. Interface!Cardinality(taken) <= SeenCalls[c].call.limit
  BY <1>1, <1>2, SameCardinality
<1>11. jobs' = [k \in JobKeys |->
                  IF k \notin taken THEN jobs[k]
                  ELSE [status |-> "RUNNING", attempts |-> jobs[k].attempts + 1,
                        owner |-> SeenCalls[c].call.actor, lapsed |-> FALSE]]
  BY <1>1, <1>3
<1> HIDE DEF taken
<1>12. \E t \in SUBSET {k \in JobKeys : Interface!Leasable(k)} :
          /\ Interface!Cardinality(t) <= SeenCalls[c].call.limit
          /\ jobs' = [k \in JobKeys |->
                        IF k \notin t THEN jobs[k]
                        ELSE [status |-> "RUNNING", attempts |-> jobs[k].attempts + 1,
                              owner |-> SeenCalls[c].call.actor, lapsed |-> FALSE]]
          /\ Interface!Answer(c, <<"done", t>>)
  BY <1>8, <1>9, <1>10, <1>11, Zenon
<1>13. UNCHANGED <<campaigns, fundingOrders, claims, idempotency, events>>
  BY <1>3 DEF allButJobs
<1> QED
  BY <1>1, <1>8, <1>12, <1>13, Zenon DEF Interface!LeaseJobs

LEMMA EndJobKeeps ==
  ASSUME RepositoryInv, NEW c \in Callers, EndJob(c)
  PROVE  RepositoryInv' /\ Interface!EndJob(c)
<1> DEFINE call == calls[c].call
           op == "endJob"
           row == jobs[call.key]
           new == CASE call.how = "complete" -> Completed(row)
                    [] call.how = "reschedule" -> Rescheduled(row)
                    [] call.how = "fail" -> Failed(row)
<1>1. /\ Interface!Asks(c, op) /\ SeenCalls[c].call = call
      /\ calls[c].at \in Unanswered /\ call.op = op /\ call.key \in JobKeys
      /\ call.how \in {"complete", "reschedule", "fail"}
  BY LeasingCall DEF EndJob, Unanswered
<1>2. CASE ~Owns(call) /\ Only(c, <<"null">>)
  BY <1>1, <1>2, OnlyKeeps DEF Interface!EndJob, Owns
<1>3. CASE /\ Owns(call)
           /\ jobs' = [jobs EXCEPT ![call.key] = new]
           /\ Answer(c, <<"done", jobs'[call.key]>>)
           /\ UNCHANGED allButJobs
  <2>1. row \in Job
    BY <1>1, <1>3 DEF RepositoryInv, TablesTyped, Owns
  <2>2. /\ Completed(row) \in Job /\ Rescheduled(row) \in Job /\ Failed(row) \in Job
        /\ Rescheduled(row) = NewJob
    <3>1. Completed(row) \in Job
      BY <2>1 DEF Completed, Job, JobStatus
    <3>2. 0 \in 0 .. MaxAttempts
      BY RowsAssumption
    <3>3. Rescheduled(row) \in Job
      BY <2>1, <3>2 DEF Rescheduled, Job, JobStatus
    <3>4. Failed(row) \in Job
      BY <2>1 DEF Failed, Job, JobStatus
    <3>5. Rescheduled(row) = NewJob
      <4>1. /\ Rescheduled(row).status = "PENDING" /\ Rescheduled(row).attempts = 0
            /\ Rescheduled(row).owner = None /\ Rescheduled(row).lapsed = FALSE
        BY <2>1 DEF Rescheduled, Job
      <4> QED
        BY <3>3, <4>1, NewJobType DEF NewJob, Job
    <3> QED
      BY <3>1, <3>3, <3>4, <3>5
  <2>3. new \in Job
    BY <1>1, <2>2
  <2>4. JobsKept(c)
    <3> HIDE DEF new
    <3> QED
      BY <1>1, <1>3, <2>3, OneJobWritten DEF EndJob
  <2>5. RepositoryInv' /\ Interface!Answer(c, <<"done", jobs'[call.key]>>)
    BY <1>1, <1>3, <2>4, Unwritten, WriteKeeps DEF allButJobs
  <2>6. Interface!EndedJob(row, call.how) = new
    BY <1>1, <2>2, SameJobs DEF Interface!EndedJob, Completed, Failed
  <2> QED
    BY <1>1, <1>3, <2>5, <2>6 DEF Interface!EndJob, Owns, allButJobs
<1> QED
  BY <1>2, <1>3 DEF EndJob

LEMMA AppendEventKeeps ==
  ASSUME RepositoryInv, NEW c \in Callers, AppendEvent(c)
  PROVE  RepositoryInv' /\ Interface!AppendEvent(c)
<1> DEFINE call == calls[c].call
           event == [key |-> call.key, actor |-> call.actor]
<1>1. /\ Interface!Asks(c, "appendEvent") /\ SeenCalls[c].call = call
      /\ calls[c].at \in Unanswered /\ calls[c].at # "idle" /\ call.op = "appendEvent"
  BY AsksFor DEF AppendEvent, Unanswered, At
<1>2. call.key \in EventKeys \cup {None} /\ call.actor \in Actors
  BY <1>1, CallOf, OtherCalls
<1>3. CASE /\ ~Recorded(call.key)
           /\ events' = Append(events, event)
           /\ Answer(c, <<"done", event>>)
           /\ UNCHANGED <<campaigns, fundingOrders, claims, idempotency, jobs, workload>>
  <2>1. EventsKept
    BY <1>2, <1>3 DEF EventsKept, RepositoryInv, TablesTyped, OperationEvent
  <2>2. RepositoryInv' /\ Interface!Answer(c, <<"done", event>>)
    BY <1>1, <1>3, <2>1, Unwritten, WriteKeeps
  <2> QED
    BY <1>1, <1>3, <2>2, SameJobs DEF Interface!AppendEvent
<1>4. CASE /\ Recorded(call.key)
           /\ \E i \in DOMAIN events : events[i].key = call.key /\ Decide(c, <<"done", events[i]>>)
  <2>1. PICK i \in DOMAIN events : events[i].key = call.key /\ Decide(c, <<"done", events[i]>>)
    BY <1>4
  <2>2. RepositoryInv' /\ Interface!Only(c, <<"done", events[i]>>)
    BY <1>1, <2>1, OnlyKeeps
  <2> QED
    BY <1>1, <1>4, <2>1, <2>2, SameJobs DEF Interface!AppendEvent
<1> QED
  BY <1>3, <1>4 DEF AppendEvent

-----------------------------------------------------------------------------
(* The reads.                                                               *)

LEMMA GetCampaignKeeps ==
  ASSUME RepositoryInv, NEW c \in Callers, GetCampaign(c)
  PROVE  RepositoryInv' /\ Interface!GetCampaign(c)
<1> DEFINE name == calls[c].call.name
           found == {x \in Stored(campaigns) : x = name \/ campaigns[x].slug = name}
<1>1. /\ Interface!Asks(c, "getCampaign") /\ SeenCalls[c].call = calls[c].call
      /\ calls[c].at \in Unanswered
  BY AsksFor DEF GetCampaign, Unanswered
<1>2. {x \in Interface!Stored(campaigns) : name \in {x, campaigns[x].slug}} = found
  BY DEF Interface!Stored, Stored
<1>3. CASE found = {} /\ Only(c, <<"null">>)
  BY <1>1, <1>2, <1>3, OnlyKeeps DEF Interface!GetCampaign
<1>4. ASSUME NEW x \in found, Only(c, <<"done", x, campaigns[x]>>)
      PROVE  RepositoryInv' /\ Interface!GetCampaign(c)
  <2>1. RepositoryInv' /\ Interface!Only(c, <<"done", x, campaigns[x]>>)
    BY <1>1, <1>4, OnlyKeeps
  <2> QED
    BY <1>1, <1>2, <1>4, <2>1 DEF Interface!GetCampaign
<1> QED
  BY <1>3, <1>4 DEF GetCampaign

\* The total of the list is known.
Counting(c, total) ==
    [at |-> "counted", call |-> calls[c].call, answer |-> calls[c].answer, met |-> calls[c].met,
     total |-> total, held |-> calls[c].held]

LEMMA CountingBecomes ==
  ASSUME CallsShaped, NEW c \in Callers, NEW total, calls[c].at \in Unanswered,
         calls' = [calls EXCEPT ![c].at = "counted", ![c].total = total]
  PROVE  /\ Becomes(c, Counting(c, total))
         /\ SeenCalls' = [SeenCalls EXCEPT ![c].total = total]
<1> DEFINE s == calls[c]
           t == [s EXCEPT !.at = "counted", !.total = total]
           R == [at : {s.at, "counted"}, call : {s.call}, answer : {s.answer}, met : {s.met},
                 total : {s.total, total}, held : {s.held}]
           v == SeenCalls[c]
           w == [v EXCEPT !.total = total]
           V == [at : {"called"}, call : {v.call}, answer : {v.answer}, met : {v.met},
                 total : {v.total, total}]
           seen == Seen(Counting(c, total))
<1>1. s \in R /\ Counting(c, total) \in R /\ DOMAIN calls = Callers
  BY DEF CallsShaped, Counting
<1>2. /\ Counting(c, total).at = "counted" /\ Counting(c, total).call = s.call
      /\ Counting(c, total).answer = s.answer /\ Counting(c, total).met = s.met
      /\ Counting(c, total).total = total /\ Counting(c, total).held = s.held
  BY DEF Counting
<1>3. calls' = [calls EXCEPT ![c] = t]
  BY <1>1
<1>4. v \in V /\ seen \in V /\ seen.total = total
  BY DEF SeenCalls, Seen, Counting, Unanswered
<1>5. DOMAIN SeenCalls = Callers
  BY DEF SeenCalls
<1>6. [SeenCalls EXCEPT ![c].total = total] = [SeenCalls EXCEPT ![c] = w]
  BY <1>5
<1> HIDE DEF s, v, seen
<1>7. t \in R
  BY <1>1
<1>8. /\ t.at = "counted" /\ t.call = s.call /\ t.answer = s.answer /\ t.met = s.met
      /\ t.total = total /\ t.held = s.held
  BY <1>1
<1>9. t = Counting(c, total)
  BY <1>1, <1>2, <1>7, <1>8
<1>10. w \in V /\ w.total = total
  BY <1>4
<1>11. w = seen
  BY <1>4, <1>10
<1>12. Becomes(c, Counting(c, total))
  BY <1>3, <1>9 DEF Becomes
<1>13. SeenCalls' = [SeenCalls EXCEPT ![c] = seen]
  BY <1>12, BecomesFacts DEF seen
<1> QED
  BY <1>6, <1>11, <1>12, <1>13

LEMMA WhereIs ==
  ASSUME RepositoryInv, NEW call \in Calls, call.op = "listCampaigns"
  PROVE  /\ Interface!Listed(call) = Where(call)
         /\ IsFiniteSet(Where(call)) /\ Cardinality(Where(call)) \in Nat
<1>1. Interface!Listed(call) = Where(call)
  BY CampaignCalls DEF Interface!Listed, Where, Interface!Stored, Stored
<1>2. Where(call) \subseteq Campaigns
  BY DEF Where, Stored, RepositoryInv, TablesTyped
<1>3. IsFiniteSet(Where(call))
  BY <1>2, RowsAssumption, FS_Subset
<1> QED
  BY <1>1, <1>3, FS_CardinalityType

LEMMA CountCampaignsKeeps ==
  ASSUME RepositoryInv, NEW c \in Callers, CountCampaigns(c)
  PROVE  RepositoryInv' /\ Interface!CountCampaigns(c)
<1> DEFINE call == calls[c].call
           total == Cardinality(Where(call))
           state == Counting(c, total)
<1>1. /\ Interface!Asks(c, "listCampaigns") /\ SeenCalls[c].call = call
      /\ calls[c].at \in Unanswered /\ calls[c].at = "called" /\ call.op = "listCampaigns"
      /\ calls[c].at # "idle"
  BY AsksFor DEF CountCampaigns, Unanswered, At
<1>2. call \in Calls /\ calls[c].held = {}
  BY <1>1, CallOf DEF RepositoryInv, CallOK, RestingOK
<1>3. total # None /\ total = Interface!Cardinality(Interface!Listed(call))
  BY <1>1, <1>2, WhereIs, SameCardinality, AbsenceAssumption
<1>4. Becomes(c, state) /\ SeenCalls' = [SeenCalls EXCEPT ![c].total = total]
  BY <1>1, CountingBecomes DEF CountCampaigns, RepositoryInv
<1>5. UNCHANGED <<tables, workload>>
  BY DEF CountCampaigns
<1> HIDE DEF total
<1>6. /\ Shaped(state) /\ state.held = {} /\ state.call = call /\ state.at = "counted"
      /\ state.total = total
  BY <1>2 DEF Shaped, Counting
<1>7. calls'[c] = state
  BY <1>4, BecomesFacts DEF RepositoryInv
<1>8. CallOK(c)'
  BY <1>1, <1>2, <1>3, <1>6, <1>7 DEF CallOK, CreatingOK, FreezingOK, PayingOK, ReservingOK,
     LeasingOK, RestingOK, At, Unanswered
<1>9. RepositoryInv'
  BY <1>1, <1>4, <1>5, <1>6, <1>8, CallStep, NothingBehind, TablesStill DEF RepositoryInv
<1> QED
  BY <1>1, <1>3, <1>4, <1>5, <1>9 DEF Interface!CountCampaigns, Interface!tables, tables

LEMMA ListCampaignsKeeps ==
  ASSUME RepositoryInv, NEW c \in Callers, ListCampaigns(c)
  PROVE  RepositoryInv' /\ Interface!ListCampaigns(c)
<1> DEFINE call == calls[c].call
           rows == Where(call)
           answer(page) == <<"done", {<<x, campaigns[x]>> : x \in page}, calls[c].total>>
<1>1. /\ Interface!Asks(c, "listCampaigns") /\ SeenCalls[c].call = call
      /\ calls[c].at \in Unanswered /\ calls[c].at = "counted" /\ call.op = "listCampaigns"
      /\ calls[c].at # "idle" /\ SeenCalls[c].total = calls[c].total
  BY AsksFor, SeenFacts DEF ListCampaigns, Unanswered, At
<1>2. calls[c].total # None /\ call.limit \in Nat /\ call \in Calls
  BY <1>1, CallOf, CampaignCalls DEF RepositoryInv, CallOK, RestingOK
<1>3. PICK page \in SUBSET rows :
         /\ \/ page = rows /\ Cardinality(rows) <= call.limit
            \/ Cardinality(page) = call.limit
         /\ Only(c, answer(page))
  BY DEF ListCampaigns
<1>4. /\ IsFiniteSet(rows) /\ Cardinality(rows) \in Nat /\ Cardinality(page) \in Nat
      /\ Cardinality(page) <= Cardinality(rows)
  BY <1>1, <1>2, <1>3, WhereIs, FS_Subset, FS_CardinalityType
<1>5. Cardinality(page) = IF Cardinality(rows) < call.limit THEN Cardinality(rows) ELSE call.limit
  BY <1>2, <1>3, <1>4
<1>6. RepositoryInv' /\ Interface!Only(c, answer(page))
  BY <1>1, <1>3, OnlyKeeps
<1>7. Interface!Listed(SeenCalls[c].call) = rows
  BY <1>1, <1>2, WhereIs
<1>8. Interface!Cardinality(page) =
         IF Interface!Cardinality(rows) < SeenCalls[c].call.limit
         THEN Interface!Cardinality(rows) ELSE SeenCalls[c].call.limit
  BY <1>1, <1>5, SameCardinality
<1> HIDE DEF rows
<1>9. \E p \in SUBSET Interface!Listed(SeenCalls[c].call) :
         /\ Interface!Cardinality(p) =
               IF Interface!Cardinality(Interface!Listed(SeenCalls[c].call))
                     < SeenCalls[c].call.limit
               THEN Interface!Cardinality(Interface!Listed(SeenCalls[c].call))
               ELSE SeenCalls[c].call.limit
         /\ Interface!Only(c, <<"done", {<<x, campaigns[x]>> : x \in p}, SeenCalls[c].total>>)
  BY <1>1, <1>3, <1>6, <1>7, <1>8, Zenon
<1> QED
  BY <1>1, <1>2, <1>6, <1>9, Zenon DEF Interface!ListCampaigns

LEMMA GetFundingOrderKeeps ==
  ASSUME RepositoryInv, NEW c \in Callers, GetFundingOrder(c)
  PROVE  RepositoryInv' /\ Interface!GetFundingOrder(c)
<1>1. /\ Interface!Asks(c, "getFundingOrder") /\ SeenCalls[c].call = calls[c].call
      /\ calls[c].at \in Unanswered
  BY AsksFor DEF GetFundingOrder, Unanswered
<1>2. RepositoryInv' /\ Interface!Only(c, Selected(fundingOrders, calls[c].call.key))
  BY <1>1, OnlyKeeps DEF GetFundingOrder
<1> QED
  BY <1>1, <1>2 DEF Interface!GetFundingOrder, Interface!RowAnswer, Selected

LEMMA GetClaimKeeps ==
  ASSUME RepositoryInv, NEW c \in Callers, GetClaim(c)
  PROVE  RepositoryInv' /\ Interface!GetClaim(c)
<1>1. /\ Interface!Asks(c, "getClaim") /\ SeenCalls[c].call = calls[c].call
      /\ calls[c].at \in Unanswered
  BY AsksFor DEF GetClaim, Unanswered
<1>2. RepositoryInv' /\ Interface!Only(c, Selected(claims, calls[c].call.key))
  BY <1>1, OnlyKeeps DEF GetClaim
<1> QED
  BY <1>1, <1>2 DEF Interface!GetClaim, Interface!RowAnswer, Selected

LEMMA GetFundingOrderForCampaignKeeps ==
  ASSUME RepositoryInv, NEW c \in Callers, GetFundingOrderForCampaign(c)
  PROVE  RepositoryInv' /\ Interface!GetFundingOrderForCampaign(c)
<1> DEFINE of == {k \in Stored(fundingOrders) : fundingOrders[k].campaign = calls[c].call.campaign}
<1>1. /\ Interface!Asks(c, "getFundingOrderForCampaign") /\ SeenCalls[c].call = calls[c].call
      /\ calls[c].at \in Unanswered
  BY AsksFor DEF GetFundingOrderForCampaign, Unanswered
<1>2. {k \in Interface!Stored(fundingOrders) :
         fundingOrders[k].campaign = calls[c].call.campaign} = of
  BY DEF Interface!Stored, Stored
<1>3. CASE of = {} /\ Only(c, <<"null">>)
  BY <1>1, <1>2, <1>3, OnlyKeeps DEF Interface!GetFundingOrderForCampaign
<1>4. ASSUME NEW k \in of, Only(c, <<"done", k, fundingOrders[k]>>)
      PROVE  RepositoryInv' /\ Interface!GetFundingOrderForCampaign(c)
  <2>1. RepositoryInv' /\ Interface!Only(c, <<"done", k, fundingOrders[k]>>)
    BY <1>1, <1>4, OnlyKeeps
  <2> QED
    BY <1>1, <1>2, <1>4, <2>1 DEF Interface!GetFundingOrderForCampaign
<1> QED
  BY <1>3, <1>4 DEF GetFundingOrderForCampaign

LEMMA ListEventsKeeps ==
  ASSUME RepositoryInv, NEW c \in Callers, ListEvents(c)
  PROVE  RepositoryInv' /\ Interface!ListEvents(c)
<1>1. Interface!Asks(c, "listEvents") /\ calls[c].at \in Unanswered
  BY AsksFor DEF ListEvents, Unanswered
<1> QED
  BY <1>1, OnlyKeeps DEF ListEvents, Interface!ListEvents

-----------------------------------------------------------------------------
(* The start and the end of a call, and the passing of time.                 *)

LEMMA ReadDecidedKeeps ==
  ASSUME RepositoryInv, NEW c \in Callers, ReadDecided(c)
  PROVE  RepositoryInv' /\ UNCHANGED Interface!vars
<1> DEFINE answer == calls[c].answer
           state == Ended(c, "answered", answer)
<1>1. Only(c, answer) /\ calls[c].at = "reading"
  BY DEF ReadDecided
<1>2. RepositoryInv' /\ UNCHANGED tables
  BY <1>1, EndKeeps DEF Only
<1>3. SeenCalls' = [SeenCalls EXCEPT ![c] = Seen(state)]
  BY <1>1, AnswerBecomes, BecomesFacts DEF RepositoryInv, Only
<1>4. Seen(state) = SeenCalls[c]
  BY <1>1 DEF Seen, Ended, SeenCalls
<1>5. SeenCalls = [d \in Callers |-> SeenCalls[d]]
  BY DEF SeenCalls
<1> HIDE DEF state
<1>6. UNCHANGED SeenCalls
  BY <1>3, <1>4, <1>5
<1> QED
  BY <1>2, <1>6 DEF Interface!vars, Interface!tables, tables

LEMMA ThrowKeeps ==
  ASSUME RepositoryInv, NEW c \in Callers, Throw(c)
  PROVE  RepositoryInv' /\ Interface!Throw(c)
<1>1. RepositoryInv' /\ Interface!Only(c, <<"thrown">>)
  BY EndKeeps DEF Throw
<1>2. SeenCalls[c].at # "idle" /\ SeenCalls[c].answer # <<"thrown">>
  BY SeenFacts DEF Throw
<1> QED
  BY <1>1, <1>2 DEF Interface!Throw

LEMMA IdleFacts ==
  /\ Idle.at = "idle" /\ Idle.held = {} /\ Idle.met = FALSE /\ Shaped(Idle)
  /\ Seen(Idle) = Interface!Idle
  BY DEF Idle, Shaped, Seen, Interface!Idle

LEMMA ReturnKeeps ==
  ASSUME RepositoryInv, NEW c \in Callers, Return(c)
  PROVE  RepositoryInv' /\ Interface!Return(c)
<1>1. Becomes(c, Idle) /\ UNCHANGED <<tables, workload>> /\ calls[c].at = "answered"
  BY DEF Return, Becomes
<1>2. calls'[c] = Idle /\ SeenCalls' = [SeenCalls EXCEPT ![c] = Interface!Idle]
  BY <1>1, BecomesFacts, IdleFacts DEF RepositoryInv
<1>3. CallOK(c)'
  <2>1. calls'[c].at = "idle" /\ calls'[c].held = {}
    BY <1>2, IdleFacts
  <2> QED
    BY <1>2, <2>1 DEF CallOK, CreatingOK, FreezingOK, PayingOK, ReservingOK, LeasingOK, RestingOK,
       At, Unanswered
<1>4. RepositoryInv'
  BY <1>1, <1>3, IdleFacts, CallStep, NothingBehind, TablesStill DEF RepositoryInv
<1>5. SeenCalls[c].at = "answered"
  BY <1>1, SeenFacts
<1> QED
  BY <1>1, <1>2, <1>4, <1>5 DEF Interface!Return, Interface!tables, tables

\* The call has begun.
Begun(c, call) ==
    [at |-> "called", call |-> call, answer |-> calls[c].answer, met |-> calls[c].met,
     total |-> calls[c].total, held |-> calls[c].held]

LEMMA BegunBecomes ==
  ASSUME CallsShaped, NEW c \in Callers, NEW call,
         calls' = [calls EXCEPT ![c].at = "called", ![c].call = call]
  PROVE  /\ Becomes(c, Begun(c, call))
         /\ SeenCalls' = [SeenCalls EXCEPT ![c].at = "called", ![c].call = call]
<1> DEFINE s == calls[c]
           t == [s EXCEPT !.at = "called", !.call = call]
           R == [at : {s.at, "called"}, call : {s.call, call}, answer : {s.answer},
                 met : {s.met}, total : {s.total}, held : {s.held}]
           v == SeenCalls[c]
           w == [v EXCEPT !.at = "called", !.call = call]
           V == [at : {v.at, "called"}, call : {v.call, call}, answer : {v.answer},
                 met : {v.met}, total : {v.total}]
           seen == Seen(Begun(c, call))
<1>1. s \in R /\ Begun(c, call) \in R /\ DOMAIN calls = Callers
  BY DEF CallsShaped, Begun
<1>2. /\ Begun(c, call).at = "called" /\ Begun(c, call).call = call
      /\ Begun(c, call).answer = s.answer /\ Begun(c, call).met = s.met
      /\ Begun(c, call).total = s.total /\ Begun(c, call).held = s.held
  BY DEF Begun
<1>3. calls' = [calls EXCEPT ![c] = t]
  BY <1>1
<1>4. v \in V /\ seen \in V /\ seen.at = "called" /\ seen.call = call
  BY DEF SeenCalls, Seen, Begun
<1>5. DOMAIN SeenCalls = Callers
  BY DEF SeenCalls
<1>6. [SeenCalls EXCEPT ![c].at = "called", ![c].call = call] = [SeenCalls EXCEPT ![c] = w]
  BY <1>5
<1> HIDE DEF s, v, seen
<1>7. t \in R
  BY <1>1
<1>8. /\ t.at = "called" /\ t.call = call /\ t.answer = s.answer /\ t.met = s.met
      /\ t.total = s.total /\ t.held = s.held
  BY <1>1
<1>9. t = Begun(c, call)
  BY <1>1, <1>2, <1>7, <1>8
<1>10. w \in V /\ w.at = "called" /\ w.call = call
  BY <1>4
<1>11. w = seen
  BY <1>4, <1>10
<1>12. Becomes(c, Begun(c, call))
  BY <1>3, <1>9 DEF Becomes
<1>13. SeenCalls' = [SeenCalls EXCEPT ![c] = seen]
  BY <1>12, BecomesFacts DEF seen
<1> QED
  BY <1>6, <1>11, <1>12, <1>13

LEMMA InvokeKeeps ==
  ASSUME RepositoryInv, NEW c \in Callers, Invoke(c)
  PROVE  RepositoryInv' /\ Interface!Invoke(c)
<1>1. PICK call \in Asked[workload] :
         /\ Fresh(call) /\ Found(call)
         /\ calls' = [calls EXCEPT ![c].at = "called", ![c].call = call]
  BY DEF Invoke
<1>2. UNCHANGED <<tables, workload>> /\ calls[c].at = "idle"
  BY DEF Invoke
<1>3. call \in Calls
  BY <1>1, WorkloadsAssumption DEF RepositoryInv
<1>4. calls[c] = Idle
  BY <1>2 DEF RepositoryInv, CallOK, RestingOK
<1> DEFINE state == Begun(c, call)
<1>5. Becomes(c, state) /\ SeenCalls' = [SeenCalls EXCEPT ![c].at = "called", ![c].call = call]
  BY <1>1, BegunBecomes DEF RepositoryInv
<1>6. state.at = "called" /\ state.call = call /\ state.held = {} /\ state.met = FALSE /\ Shaped(state)
  BY <1>4, IdleFacts DEF Begun, Shaped
<1> HIDE DEF state
<1>7. calls'[c] = state /\ \A d \in Callers \ {c} : calls'[d] = calls[d]
  BY <1>5, BecomesFacts DEF RepositoryInv
<1>8. /\ calls'[c].at = "called" /\ calls'[c].call = call /\ calls'[c].held = {}
      /\ calls'[c].met = FALSE
  BY <1>6, <1>7
<1>9. CallOK(c)'
  <2>1. CreatingOK(c)'
    BY <1>1, <1>2, <1>8 DEF CreatingOK, At, Fresh, tables
  <2>2. FreezingOK(c)'
    BY <1>8 DEF FreezingOK, At
  <2>3. PayingOK(c)'
    BY <1>8 DEF PayingOK, At
  <2>4. ReservingOK(c)'
    BY <1>1, <1>2, <1>8 DEF ReservingOK, At, Found, tables
  <2>5. LeasingOK(c)'
    BY <1>8 DEF LeasingOK, At
  <2>6. RestingOK(c)'
    BY <1>3, <1>8 DEF RestingOK, Unanswered
  <2> QED
    BY <2>1, <2>2, <2>3, <2>4, <2>5, <2>6 DEF CallOK
<1>10. RepositoryInv'
  <2>1. CallsShaped'
    BY <1>5, <1>6, ShapedStep DEF RepositoryInv, Shaped
  <2>2. LocksExclusive'
    BY <1>7, <1>8 DEF RepositoryInv, LocksExclusive
  <2>3. NewIds'
    <3>1. \A d \in Callers \ {c}, x \in Campaigns : Creates(d, x)' => Creates(d, x)
      BY <1>7 DEF Creates
    <3>2. \A d \in Callers \ {c}, x \in Campaigns : Creates(c, x)' => ~Creates(d, x)
      BY <1>1, <1>8 DEF Creates, Fresh
    <3> QED
      BY <3>1, <3>2 DEF RepositoryInv, NewIds
  <2>4. \A d \in Callers : CallOK(d)'
    BY <1>2, <1>7, <1>9, CallStays, NothingBehind, TablesStill
  <2> QED
    BY <1>2, <2>1, <2>2, <2>3, <2>4, TablesStill DEF RepositoryInv
<1>11. SeenCalls[c].at = "idle"
  BY <1>2, SeenFacts
<1> QED
  BY <1>2, <1>3, <1>5, <1>10, <1>11 DEF Interface!Invoke, Interface!tables, tables

\* Time changes flags only, and only in the direction that nobody waits for.
LEMMA AgedRecords ==
  ASSUME RepositoryInv, NEW k \in Stored(idempotency),
         \/ idempotency' = [idempotency EXCEPT ![k].expired = TRUE]
         \/ idempotency' = [idempotency EXCEPT ![k].lapsed = TRUE]
  PROVE  /\ idempotency' \in [RecordKeys -> IdempotencyRecord \cup {None}]
         /\ \A c \in Callers : BehindRecords(c)
<1>1. k \in RecordKeys /\ idempotency[k] \in IdempotencyRecord
  BY DEF Stored, RepositoryInv, TablesTyped
<1>2. idempotency \in [RecordKeys -> IdempotencyRecord \cup {None}]
  BY DEF RepositoryInv, TablesTyped
<1> DEFINE row == idempotency[k]
           old == [row EXCEPT !.expired = TRUE]
           late == [row EXCEPT !.lapsed = TRUE]
<1>3. PICK later \in {old, late} : idempotency' = [idempotency EXCEPT ![k] = later]
  BY <1>1, <1>2
<1>4. later \in IdempotencyRecord /\ later # None
  <2>1. old \in IdempotencyRecord /\ late \in IdempotencyRecord
    BY <1>1 DEF IdempotencyRecord
  <2> QED
    BY <1>3, <2>1, AbsenceAssumption
<1>5. Ages(row, later)
  <2>1. row # None
    BY DEF Stored
  <2>2. /\ old.state = row.state /\ old.request = row.request /\ old.authorized = row.authorized
        /\ old.expired = TRUE /\ old.owner = row.owner /\ old.lapsed = row.lapsed
    BY <1>1 DEF IdempotencyRecord
  <2>3. /\ late.state = row.state /\ late.request = row.request
        /\ late.authorized = row.authorized /\ late.expired = row.expired
        /\ late.owner = row.owner /\ late.lapsed = TRUE
    BY <1>1 DEF IdempotencyRecord
  <2> HIDE DEF old, late
  <2> QED
    BY <1>3, <1>4, <2>1, <2>2, <2>3 DEF Ages, Unowned
<1> HIDE DEF old, late
<1>6. /\ idempotency'[k] = later /\ \A l \in RecordKeys \ {k} : idempotency'[l] = idempotency[l]
      /\ idempotency' \in [RecordKeys -> IdempotencyRecord \cup {None}]
  BY <1>1, <1>2, <1>3, <1>4
<1>7. \A l \in RecordKeys \ {k} : Ages(idempotency[l], idempotency'[l])
  BY <1>6 DEF Ages
<1> QED
  BY <1>4, <1>5, <1>6, <1>7 DEF BehindRecords

LEMMA AgedJobs ==
  ASSUME RepositoryInv, NEW k \in Stored(jobs), jobs[k].status = "RUNNING",
         jobs' = [jobs EXCEPT ![k].lapsed = TRUE]
  PROVE  /\ jobs' \in [JobKeys -> Job \cup {None}]
         /\ \A c \in Callers : BehindJobs(c)
<1> DEFINE row == jobs[k]
           later == [row EXCEPT !.lapsed = TRUE]
<1>1. k \in JobKeys /\ row \in Job /\ jobs \in [JobKeys -> Job \cup {None}]
  BY DEF Stored, RepositoryInv, TablesTyped
<1>2. jobs' = [jobs EXCEPT ![k] = later]
  BY <1>1
<1>3. /\ later \in Job /\ later.status = row.status /\ later.attempts = row.attempts
      /\ later.lapsed = TRUE
  BY <1>1 DEF Job
<1> HIDE DEF later
<1>4. later # None
  BY <1>3, AbsenceAssumption
<1>5. /\ jobs'[k] = later /\ \A l \in JobKeys \ {k} : jobs'[l] = jobs[l]
      /\ jobs' \in [JobKeys -> Job \cup {None}]
  BY <1>1, <1>2, <1>3
<1>6. \A l \in JobKeys : Leasable(l) => Leasable(l)'
  BY <1>3, <1>4, <1>5 DEF Leasable
<1> QED
  BY <1>4, <1>5, <1>6 DEF BehindJobs

LEMMA ElapseKeeps ==
  ASSUME RepositoryInv, Elapse
  PROVE  RepositoryInv' /\ Interface!Elapse
<1>1. UNCHANGED <<campaigns, fundingOrders, claims, events, calls, workload>>
  BY DEF Elapse
<1>2. /\ idempotency' \in [RecordKeys -> IdempotencyRecord \cup {None}]
      /\ jobs' \in [JobKeys -> Job \cup {None}]
      /\ \A c \in Callers : BehindRecords(c) /\ BehindJobs(c)
  <2>1. CASE \E k \in Stored(idempotency) :
                /\ \/ idempotency' = [idempotency EXCEPT ![k].expired = TRUE]
                   \/ idempotency' = [idempotency EXCEPT ![k].lapsed = TRUE]
                /\ UNCHANGED jobs
    <3>1. \A c \in Callers : BehindJobs(c)
      BY <2>1 DEF BehindJobs, Leasable
    <3> QED
      BY <2>1, <3>1, AgedRecords DEF RepositoryInv, TablesTyped
  <2>2. CASE \E k \in Stored(jobs) :
                /\ jobs[k].status = "RUNNING"
                /\ jobs' = [jobs EXCEPT ![k].lapsed = TRUE]
                /\ UNCHANGED idempotency
    <3>1. \A c \in Callers : BehindRecords(c)
      BY <2>2 DEF BehindRecords, Ages
    <3> QED
      BY <2>2, <3>1, AgedJobs DEF RepositoryInv, TablesTyped
  <2> QED
    BY <2>1, <2>2 DEF Elapse
<1>3. /\ TablesTyped' /\ OpenOrdersUnique' /\ WinnersUnique' /\ NamesUnique'
  BY <1>1, <1>2 DEF RepositoryInv, TablesTyped, OpenOrdersUnique, WinnersUnique, NamesUnique, Stored
<1>4. \A c \in Callers : BehindCampaigns(c) /\ BehindOrders(c) /\ BehindClaims(c)
  BY <1>1 DEF BehindCampaigns, BehindOrders, BehindClaims
<1>5. \A c \in Callers : CallOK(c)'
  BY <1>1, <1>2, <1>3, <1>4, CallStays DEF Behind
<1>6. CallsShaped' /\ LocksExclusive' /\ NewIds'
  BY <1>1 DEF RepositoryInv, CallsShaped, LocksExclusive, NewIds, Creates
<1>7. RepositoryInv'
  BY <1>1, <1>3, <1>5, <1>6 DEF RepositoryInv
<1>8. UNCHANGED SeenCalls
  BY <1>1 DEF SeenCalls
<1>9. Interface!Elapse
  BY <1>1, <1>8 DEF Elapse, Interface!Elapse, Interface!Stored, Stored
<1> QED
  BY <1>7, <1>9

-----------------------------------------------------------------------------
(* The system.                                                              *)

LEMMA LedgerKeeps ==
  ASSUME RepositoryInv, NEW c \in Callers, Ledger(c)
  PROVE  RepositoryInv' /\ (Interface!Perform(c) \/ UNCHANGED Interface!vars)
  BY InsertCampaignKeeps, LockReceiptKeeps, InsertLinkedCampaignKeeps, CommitCampaignKeeps,
     UpdateCampaignDraftKeeps, TransitionCampaignKeeps, CreateFundingOrderIdempotentKeeps,
     FreezeLookupKeeps, FreezeLockKeeps, FreezeInsertKeeps, FreezeCommitKeeps,
     FreezeLookAgainKeeps, TransitionFundingOrderKeeps, CreateClaimIdempotentKeeps,
     SubmitLockKeeps, SubmitCampaignKeeps, SubmitCommitKeeps, TransitionClaimKeeps,
     FinalizeLockClaimKeeps, FinalizeLockCampaignKeeps, FinalizeCommitKeeps
  DEF Ledger, Interface!Perform

LEMMA OperationsKeep ==
  ASSUME RepositoryInv, NEW c \in Callers, Operations(c)
  PROVE  RepositoryInv' /\ (Interface!Perform(c) \/ UNCHANGED Interface!vars)
  BY ReserveDeleteKeeps, ReserveInsertKeeps, ReserveCommitKeeps, ReserveSelectKeeps,
     AcquireUpdateKeeps, AcquireCommitKeeps, AdvanceIdempotencyProcessingKeeps,
     FinishOwnedIdempotencyKeeps, FinishIdempotencyKeeps, EnqueueInsertKeeps, EnqueueReviveKeeps,
     LeaseUpdateKeeps, LeaseCommitKeeps, EndJobKeeps, AppendEventKeeps
  DEF Operations, Interface!Perform

LEMMA ReadsKeep ==
  ASSUME RepositoryInv, NEW c \in Callers, Reads(c)
  PROVE  RepositoryInv' /\ Interface!Perform(c)
  BY GetCampaignKeeps, CountCampaignsKeeps, ListCampaignsKeeps, GetFundingOrderKeeps,
     GetFundingOrderForCampaignKeeps, GetClaimKeeps, GetLiveLiabilitiesKeeps, GetIdempotencyKeeps,
     ListEventsKeeps
  DEF Reads, Interface!Perform, Interface!Read

\* Whatever the step, the invariant holds after it, and the interface sees a step of its own
\* or nothing.
LEMMA StepKeeps ==
  ASSUME RepositoryInv, [Next]_vars
  PROVE  RepositoryInv' /\ [Interface!Next]_Interface!vars
<1>1. CASE Elapse
  BY <1>1, ElapseKeeps DEF Interface!Next
<1>2. ASSUME NEW c \in Callers, Invoke(c) \/ Statement(c) \/ Throw(c) \/ Return(c)
      PROVE  RepositoryInv' /\ [Interface!Next]_Interface!vars
  <2>1. CASE Invoke(c)
    BY <2>1, InvokeKeeps DEF Interface!Next
  <2>2. CASE Statement(c)
    BY <2>2, LedgerKeeps, OperationsKeep, ReadsKeep, ReadDecidedKeeps DEF Statement, Interface!Next
  <2>3. CASE Throw(c)
    BY <2>3, ThrowKeeps DEF Interface!Next
  <2>4. CASE Return(c)
    BY <2>4, ReturnKeeps DEF Interface!Next
  <2> QED
    BY <1>2, <2>1, <2>2, <2>3, <2>4
<1>3. CASE UNCHANGED vars
  <2>1. UNCHANGED <<tables, calls, workload>>
    BY <1>3 DEF vars
  <2>2. \A c \in Callers : CallOK(c)'
    BY <2>1, CallStays, NothingBehind, TablesStill
  <2>3. CallsShaped' /\ LocksExclusive' /\ NewIds'
    BY <2>1 DEF RepositoryInv, CallsShaped, LocksExclusive, NewIds, Creates
  <2>4. UNCHANGED Interface!vars
    BY <2>1 DEF Interface!vars, Interface!tables, tables, SeenCalls
  <2> QED
    BY <2>1, <2>2, <2>3, <2>4, TablesStill DEF RepositoryInv
<1> QED
  BY <1>1, <1>2, <1>3 DEF Next

LEMMA InitKeeps ==
  ASSUME Init
  PROVE  RepositoryInv /\ Interface!Init
<1>1. /\ workload \in Workloads /\ calls = [c \in Callers |-> Idle] /\ events = <<>>
      /\ campaigns = Start[workload].campaigns /\ fundingOrders = Start[workload].fundingOrders
      /\ claims = Start[workload].claims /\ idempotency = Start[workload].idempotency
      /\ jobs = Start[workload].jobs
  BY DEF Init
<1>2. TablesTyped
  BY <1>1, WorkloadsAssumption DEF TablesTyped
<1>3. OpenOrdersUnique /\ WinnersUnique /\ NamesUnique
  <2>1. UniqueRows(Start[workload])
    BY <1>1, WorkloadsAssumption
  <2>2. RowsUnique
    BY <1>1, <2>1 DEF RowsUnique, UniqueRows
  <2> QED
    BY <2>2, RowsUniqueIs
<1>4. \A c \in Callers : calls[c] = Idle /\ calls[c].at = "idle" /\ calls[c].held = {}
  BY <1>1, IdleFacts
<1>5. CallsShaped
  BY <1>1, <1>4, IdleFacts DEF CallsShaped, Shaped
<1>6. LocksExclusive /\ NewIds
  BY <1>4 DEF LocksExclusive, NewIds, Creates
<1>7. \A c \in Callers : CallOK(c)
  BY <1>4 DEF CallOK, CreatingOK, FreezingOK, PayingOK, ReservingOK, LeasingOK, RestingOK, At,
     Unanswered
<1>8. RepositoryInv
  BY <1>1, <1>2, <1>3, <1>5, <1>6, <1>7 DEF RepositoryInv
<1>9. SeenCalls = [c \in Callers |-> Interface!Idle]
  <2>1. SeenCalls = [c \in Callers |-> Seen(calls[c])]
    BY DEF SeenCalls, Seen
  <2> QED
    BY <1>4, <2>1, IdleFacts
<1>10. Interface!TypeOK
  BY <1>8, InvTyped
<1> QED
  BY <1>8, <1>9, <1>10 DEF Interface!Init

\* The rows keep the shape and the uniqueness that the tables declare, no lock has two
\* holders, and of the transactions that hold locks one waits for nobody, whatever the
\* statements that run between those of a transaction.
THEOREM RepositoryIsSafe == Spec => []RepositorySafe
<1>1. Init => RepositoryInv
  BY InitKeeps
<1>2. RepositoryInv /\ [Next]_vars => RepositoryInv'
  BY StepKeeps
<1>3. RepositoryInv => RepositorySafe
  BY RepositoryInvSafe
<1> QED
  BY <1>1, <1>2, <1>3, PTL DEF Spec

\* The calls of the repository in Postgres, whose statements interleave and may fail anywhere,
\* behave as if each had taken place at one moment.
THEOREM RepositoryRefined == Spec => ImplementsRepository
<1>1. Init => RepositoryInv /\ Interface!Init
  BY InitKeeps
<1>2. RepositoryInv /\ [Next]_vars => RepositoryInv' /\ [Interface!Next]_Interface!vars
  BY StepKeeps
<1> QED
  BY <1>1, <1>2, PTL DEF Spec, ImplementsRepository, Interface!Spec
===============================================================================
