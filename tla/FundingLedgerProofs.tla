-------------------------- MODULE FundingLedgerProofs --------------------------
(***************************************************************************)
(* Proofs about FundingLedger, for any number of requests, calls and workers, *)
(* and every bound.                                                         *)
(***************************************************************************)
EXTENDS FundingLedger, FiniteSetTheorems, TLAPS

-----------------------------------------------------------------------------
(* What has happened to an order, for good.                                 *)

Ordered(q) == orders[q].status # "NONE"

Opened == cstatus \in {"SCHEDULED", "ACTIVE"}

\* What the escrow was told of a prize is what the order says.
Quoted(q, spec, amount, r) ==
    Ordered(q) /\ spec = orders[q].terms /\ amount = Prize /\ r = ReferenceOf[q]

\* The creator has committed itself to the terms under the reference of the order, or has
\* spent the reference.
Committed(q) ==
    /\ Ordered(q)
    /\ LET auth == authorizations[ReferenceOf[q]]
       IN  \/ ReferenceOf[q] \in used
           \/ auth # None /\ auth.campaign.spec = terms /\ auth.campaign.amount = Prize

\* The order is closed, and its prize has not come into escrow.
GivenUp(q) ==
    /\ orders[q].status = IF q \in OneClick THEN "FAILED" ELSE "EXPIRED"
    /\ ~InEscrow(q)

\* What the reconciliation of an order leaves behind that has succeeded.
Concluded(q) ==
    \/ orders[q].status = "ALLOCATED" /\ jobs[LifecycleKey].status # "NONE"
    \/ GivenUp(q)

-----------------------------------------------------------------------------
(* The invariant.                                                           *)

\* A routed order follows its provider, and a direct one is given up only when the
\* transfer would be too late.
StatusOK(q) ==
    LET status == orders[q].status
    IN  /\ q \in OneClick =>
              /\ provider[q] \in {"AWAITING_DEPOSIT", "SETTLED", "FAILED"}
              /\ status \in {"NONE", "AWAITING_DEPOSIT", "SETTLED", "ALLOCATING", "INCOMPLETE",
                             "ALLOCATED", "FAILED"}
              /\ status \in {"SETTLED", "ALLOCATING", "INCOMPLETE"} => provider[q] = "SETTLED"
              /\ status = "FAILED" => provider[q] = "FAILED"
        /\ q \notin OneClick =>
              /\ status \in {"NONE", "AWAITING_DEPOSIT", "DEPOSIT_DETECTED", "EXPIRED", "ALLOCATED"}
              /\ status = "EXPIRED" => now > orders[q].expires
        /\ status = "ALLOCATED" => InEscrow(q)

\* An order is for the terms of the frozen campaign.
OrderOK(q) ==
    /\ Ordered(q) => cstatus # "DRAFT" /\ orders[q].terms = terms
    /\ ~Ordered(q) => orders[q].terms = None
    /\ StatusOK(q)

OneOpen == \A q, p \in OpenOrders : q = p

\* Every prize that is in escrow or on its way there is one of an order, and a routed one
\* was paid for before it was asked for.
EscrowOK ==
    /\ campaigns[Id] # None =>
          \E q \in Requests : /\ Ordered(q) /\ InEscrow(q)
                              /\ q \in OneClick => provider[q] = "SETTLED"
    /\ \A r \in References, a \in Authorization :
          authorizations[r] = a =>
             \E q \in OneClick : Quoted(q, a.campaign.spec, a.campaign.amount, r)
    /\ \A r \in References, a \in Authorization :
          pending[r] = a =>
             \E q \in OneClick : Quoted(q, a.campaign.spec, a.campaign.amount, r) /\ provider[q] = "SETTLED"
    /\ \A r \in References, a \in Authorization :
          authorizations[r] = a \/ pending[r] = a => a.campaign.reference = r
    /\ \A t \in inbound :
          \E q \in Direct : Quoted(q, t.spec, t.amount, t.reference) /\ t.deadline = orders[q].expires

\* The campaign is opened for a prize in escrow.
OpeningOK == Opened => \E q \in Requests : InEscrow(q)

JobOK(k) ==
    /\ jobs[k].status # "NONE" /\ k[1] \in {"reconcile", "allocate"} => Ordered(k[2])
    /\ jobs[k].status # "NONE" /\ k[1] = "lifecycle" =>
          Opened /\ \E q \in Requests : orders[q].status = "ALLOCATED"
    /\ jobs[k].status = "SUCCEEDED" /\ k[1] = "reconcile" => Concluded(k[2])

\* What a run may rely on, however long ago it got to its stage.
RunOK(r) ==
    LET q == r.job[2]
    IN  /\ r.job[1] \in {"reconcile", "allocate"} /\ Ordered(q)
        /\ r.at <= now
        /\ r.stage \in {"activate", "verify"} =>
              r.job[1] = "allocate" /\ provider[q] = "SETTLED"
        /\ r.stage = "ensure" => q \in OneClick
        /\ r.stage \in {"campaign", "order", "lifecycle"} => InEscrow(q)
        /\ r.stage = "campaign" => r.target \in {"SCHEDULED", "ACTIVE"}
        /\ r.stage \in {"order", "lifecycle"} => Opened
        /\ r.stage = "lifecycle" => orders[q].status = "ALLOCATED"
        /\ r.stage = "done" /\ r.job[1] = "reconcile" => Concluded(q)

\* What a call may rely on.
CallOK(c) ==
    /\ c.fresh => c.seen = cstatus /\ c.terms = terms
    /\ c.stage \in {"loaded", "reserved"} =>
          /\ c.terms # None
          /\ c.seen = "FUNDING" => cstatus # "DRAFT" /\ c.terms = terms
    /\ c.stage \in {"created", "enqueued", "revive", "ensure"} => Ordered(c.q)
    /\ c.stage \in {"ensure", "persist"} => c.q \in OneClick
    /\ c.stage = "persist" => Committed(c.q)

Quoting == {"reserved", "created", "enqueued"}

\* A call that makes a quote holds the reservation of its request, alone, and no order's
\* reservation has failed.
ReservationsOK ==
    /\ \A k \in Calls : InCall(k, Quoting) =>
          Reserved(calls[k].q) /\ reservations[calls[k].q].state # "FAILED"
    /\ \A k, l \in Calls :
          InCall(k, Quoting) /\ InCall(l, Quoting) /\ calls[k].q = calls[l].q => k = l
    /\ \A q \in Requests : Ordered(q) => Replayable(q)

OrdersInv == (\A q \in Requests : OrderOK(q)) /\ OneOpen
JobsInv == \A k \in Keys : JobOK(k)
RunsInv == \A w \in Workers, r \in Run : runs[w] = r /\ runs[w] # None => RunOK(r)
CallsInv == \A k \in Calls, c \in Call : calls[k] = c /\ calls[k] # None => CallOK(c)
RevealedInv == \A q \in revealed : Committed(q)

FundingInv ==
    /\ FundingTypeOK
    /\ OrdersInv /\ EscrowOK /\ OpeningOK /\ JobsInv /\ RunsInv /\ CallsInv /\ ReservationsOK
    /\ RevealedInv
\* The parts of FundingTypeOK, the escrow's aside.
JobsTyped == jobs \in [Keys -> JobRow]
CampaignTyped == cstatus \in {"DRAFT", "FUNDING", "SCHEDULED", "ACTIVE"} /\ terms \in Specs
OrdersTyped == orders \in [Requests -> OrderRow]
ReservationsTyped == reservations \in [Requests -> Reservation \cup {None}]
ProviderTyped == provider \in [OneClick -> OrderStatuses] /\ revealed \subseteq OneClick
CallsTyped == calls \in [Calls -> Call \cup {None}]
RunsTyped == runs \in [Workers -> Run \cup {None}]

LEMMA Typed ==
  FundingTypeOK <=> /\ TypeOK /\ JobsTyped /\ CampaignTyped /\ OrdersTyped /\ ReservationsTyped
                    /\ ProviderTyped /\ CallsTyped /\ RunsTyped
  BY DEF FundingTypeOK, JobsTyped, CampaignTyped, OrdersTyped, ReservationsTyped, ProviderTyped,
     CallsTyped, RunsTyped

LEMMA TypedNext ==
  FundingTypeOK' <=> /\ TypeOK' /\ JobsTyped' /\ CampaignTyped' /\ OrdersTyped' /\ ReservationsTyped'
                     /\ ProviderTyped' /\ CallsTyped' /\ RunsTyped'
  BY DEF FundingTypeOK, JobsTyped, CampaignTyped, OrdersTyped, ReservationsTyped, ProviderTyped,
     CallsTyped, RunsTyped

-----------------------------------------------------------------------------
(* The constants.                                                           *)

LEMMA KeyFacts ==
  /\ \A q \in Requests : ReconcileKey(q) \in Keys /\ ReconcileKey(q)[1] = "reconcile"
                         /\ ReconcileKey(q)[2] = q
  /\ \A q \in OneClick : AllocateKey(q) \in Keys /\ AllocateKey(q)[1] = "allocate"
                         /\ AllocateKey(q)[2] = q
  /\ LifecycleKey \in Keys /\ LifecycleKey[1] = "lifecycle"
  BY FundingAssumption DEF ReconcileKey, AllocateKey, LifecycleKey

LEMMA KindsOfKeys ==
  ASSUME NEW k \in Keys
  PROVE  /\ k[1] \in {"reconcile", "allocate", "lifecycle"}
         /\ k[1] \in {"reconcile", "allocate"} => k[2] \in Requests
         /\ k[1] = "reconcile" => k = ReconcileKey(k[2])
         /\ k[1] = "allocate" => k[2] \in OneClick
         /\ k[1] = "lifecycle" <=> k = LifecycleKey
  BY FundingAssumption DEF ReconcileKey, AllocateKey, LifecycleKey

LEMMA SpecFacts ==
  /\ None \notin Spec0
  /\ \A spec \in Specs : spec \in Spec0 /\ spec # None /\ spec.id = Id
  /\ \A a \in Authorization : a # None /\ a.campaign \in Campaign /\ a.campaign.spec \in Spec0
  /\ \A c \in Campaign : c # None /\ c.spec \in Spec0
  BY FundingAssumption, SpecsAssumption, NoneAssumption DEF Authorization, Campaign

\* The id of the campaign is one, since it has a draft.
LEMMA IdTyped ==
  ASSUME CampaignTyped
  PROVE  Id \in CampaignIds
  BY SpecFacts DEF CampaignTyped, Spec0

LEMMA RequestFacts ==
  /\ OneClick \subseteq Requests
  /\ \A q \in Requests : ReferenceOf[q] \in References /\ (q \in Direct <=> q \notin OneClick)
  /\ \A q, p \in Requests : ReferenceOf[q] = ReferenceOf[p] => q = p
  BY FundingAssumption DEF Direct

-----------------------------------------------------------------------------
(* The invariant implies what the run checks.                                *)

\* Something of a campaign in escrow names its order.
LEMMA InEscrowOrdered ==
  ASSUME FundingInv, NEW q \in Requests, InEscrow(q)
  PROVE  Ordered(q)
<1>1. campaigns[Id] \in Campaign
  BY IdTyped, Typed DEF FundingInv, InEscrow, TypeOK
<1> QED
  BY <1>1, SpecFacts DEF FundingInv, OrdersInv, OrderOK, InEscrow

LEMMA FundingInvAgrees == FundingInv => FundingAgrees
<1> SUFFICES ASSUME FundingInv PROVE FundingAgrees
  OBVIOUS
<1>1. QuotedIsFrozen
  <2>1. Cardinality(OpenOrders) <= 1
    <3>1. CASE OpenOrders = {}
      BY <3>1, FS_EmptySet
    <3>2. CASE OpenOrders # {}
      <4>1. PICK q : q \in OpenOrders
        BY <3>2
      <4>2. OpenOrders = {q}
        BY <4>1 DEF FundingInv, OrdersInv, OneOpen
      <4>3. Cardinality({q}) = 1
        BY FS_Singleton
      <4> QED
        BY <4>2, <4>3
    <3> QED
      BY <3>1, <3>2
  <2> QED
    BY <2>1 DEF FundingInv, OrdersInv, OrderOK, Ordered, QuotedIsFrozen
<1>2. RecordedIsEscrowed
  <2>1. \A q \in Requests : orders[q].status = "ALLOCATED" => InEscrow(q)
    BY DEF FundingInv, OrdersInv, OrderOK, StatusOK
  <2> QED
    BY <2>1, KeyFacts DEF FundingInv, OpeningOK, Opened, JobsInv, JobOK, RecordedIsEscrowed
<1>3. RevealedIsAuthorized
  BY DEF FundingInv, RevealedInv, Committed, RevealedIsAuthorized
<1> QED
  BY <1>1, <1>2, <1>3 DEF FundingInv, FundingAgrees

LEMMA FundingInvCarriedOn == FundingInv => FundingCarriedOn
<1> SUFFICES ASSUME FundingInv, NEW q \in Requests,
                    ~Unfinished(ReconcileKey(q)),
                    ~(orders[q].status \in Closed /\ ~InEscrow(q)),
                    ~(orders[q].status = "ALLOCATED" /\ jobs[LifecycleKey].status # "NONE")
             PROVE  jobs[ReconcileKey(q)].status = "NONE" /\ Replayable(q)
  BY DEF FundingCarriedOn
<1>1. ~Concluded(q)
  BY DEF Concluded, GivenUp, Closed
<1>2. jobs[ReconcileKey(q)].status # "SUCCEEDED"
  BY <1>1, KeyFacts DEF FundingInv, JobsInv, JobOK
<1>3. jobs[ReconcileKey(q)].status = "NONE"
  BY <1>2, KeyFacts DEF FundingInv, FundingTypeOK, JobRow, Unfinished
<1>4. Ordered(q)
  BY InEscrowOrdered DEF Closed, Ordered
<1> QED
  BY <1>3, <1>4 DEF FundingInv, ReservationsOK

-----------------------------------------------------------------------------
(* What a step leaves in force: time grows, terms are frozen with the first   *)
(* order, and what has happened to an order, on chain, at its provider or in   *)
(* the queue, is not undone.                                                *)

OrderGrows(q) ==
    /\ Ordered(q) => /\ Ordered(q)' /\ orders'[q].terms = orders[q].terms
                     /\ orders'[q].expires = orders[q].expires
    /\ orders[q].status = "ALLOCATED" => orders'[q].status = "ALLOCATED"
    /\ InEscrow(q) => InEscrow(q)'
    /\ GivenUp(q) => GivenUp(q)'
    /\ Committed(q) => Committed(q)'

Grows ==
    /\ now <= now'
    /\ cstatus # "DRAFT" => cstatus' # "DRAFT" /\ terms' = terms
    /\ Opened => Opened'
    /\ \A q \in Requests : OrderGrows(q)
    /\ \A q \in OneClick :
          \/ provider'[q] = provider[q]
          \/ provider[q] = "AWAITING_DEPOSIT" /\ provider'[q] \in {"SETTLED", "FAILED"}
    /\ \A k \in Keys : jobs[k].status # "NONE" => jobs'[k].status # "NONE"

Lawful == FundingInv /\ FundingTypeOK' /\ Grows

LEMMA ConcludedStays ==
  ASSUME Lawful, NEW q \in Requests, Concluded(q)
  PROVE  Concluded(q)'
  BY KeyFacts DEF Lawful, Grows, OrderGrows, Concluded

LEMMA OrderStays ==
  ASSUME Lawful, NEW q \in Requests, orders'[q] = orders[q]
  PROVE  OrderOK(q)'
<1>1. now \in Nat /\ now' \in Nat /\ orders[q].expires \in Nat /\ now <= now'
  BY Typed, TypedNext DEF Lawful, FundingInv, Grows, TypeOK, OrdersTyped, OrderRow
<1>2. OrderOK(q) /\ OrderGrows(q)
  BY DEF Lawful, FundingInv, OrdersInv, Grows
<1>3. q \in OneClick =>
         \/ provider'[q] = provider[q]
         \/ provider[q] = "AWAITING_DEPOSIT" /\ provider'[q] \in {"SETTLED", "FAILED"}
  BY DEF Lawful, Grows
<1>4. StatusOK(q)'
  BY <1>1, <1>2, <1>3 DEF OrderOK, StatusOK, OrderGrows
<1> QED
  BY <1>2, <1>4 DEF Lawful, Grows, OrderOK, OrderGrows, Ordered

LEMMA OrdersKept ==
  ASSUME Lawful, UNCHANGED orders
  PROVE  OrdersInv'
<1>1. OneOpen'
  BY DEF Lawful, FundingInv, OrdersInv, OneOpen, OpenOrders
<1> QED
  BY <1>1, OrderStays DEF OrdersInv

LEMMA QuotedStays ==
  ASSUME Lawful, NEW q \in Requests, NEW spec, NEW amount, NEW r, Quoted(q, spec, amount, r)
  PROVE  Quoted(q, spec, amount, r)'
  BY DEF Lawful, Grows, OrderGrows, Quoted

LEMMA SettledStays ==
  ASSUME Lawful, NEW q \in OneClick, provider[q] = "SETTLED"
  PROVE  provider'[q] = "SETTLED"
  BY DEF Lawful, Grows
-----------------------------------------------------------------------------
(* What a lawful step leaves alone stays in order.                          *)

LEMMA EscrowKept ==
  ASSUME Lawful, UNCHANGED <<campaigns, authorizations, pending, inbound>>
  PROVE  EscrowOK'
<1>1. EscrowOK
  BY DEF Lawful, FundingInv
<1>2. campaigns'[Id] # None =>
        \E q \in Requests : /\ Ordered(q)' /\ InEscrow(q)'
                            /\ q \in OneClick => provider'[q] = "SETTLED"
  BY <1>1, SettledStays DEF EscrowOK, Lawful, Grows, OrderGrows
<1>3. ASSUME NEW r \in References, NEW a \in Authorization, authorizations'[r] = a
      PROVE  \E q \in OneClick : Quoted(q, a.campaign.spec, a.campaign.amount, r)'
  BY <1>1, <1>3, QuotedStays, RequestFacts DEF EscrowOK
<1>4. ASSUME NEW r \in References, NEW a \in Authorization, pending'[r] = a
      PROVE  \E q \in OneClick : Quoted(q, a.campaign.spec, a.campaign.amount, r)' /\ provider'[q] = "SETTLED"
  BY <1>1, <1>4, QuotedStays, SettledStays, RequestFacts DEF EscrowOK
<1>5. ASSUME NEW t \in inbound'
      PROVE  \E q \in Direct : /\ Quoted(q, t.spec, t.amount, t.reference)'
                               /\ t.deadline = orders'[q].expires
  <2>1. PICK q \in Direct : Quoted(q, t.spec, t.amount, t.reference) /\ t.deadline = orders[q].expires
    BY <1>1, <1>5 DEF EscrowOK
  <2>2. orders'[q].expires = orders[q].expires
    BY <2>1 DEF Lawful, Grows, OrderGrows, Quoted, Direct
  <2> QED
    BY <2>1, <2>2, QuotedStays DEF Direct
<1> QED
  BY <1>1, <1>2, <1>3, <1>4, <1>5 DEF EscrowOK

LEMMA OpeningKept ==
  ASSUME Lawful, Opened' => Opened
  PROVE  OpeningOK'
  BY DEF Lawful, FundingInv, Grows, OrderGrows, OpeningOK

LEMMA JobStays ==
  ASSUME Lawful, NEW k \in Keys, jobs'[k] = jobs[k]
  PROVE  JobOK(k)'
<1>1. JobOK(k)
  BY DEF Lawful, FundingInv, JobsInv
<1>2. \A q \in Requests : OrderGrows(q) /\ (Concluded(q) => Concluded(q)')
  BY ConcludedStays DEF Lawful, Grows
<1>3. k[1] \in {"reconcile", "allocate"} => k[2] \in Requests
  BY KindsOfKeys
<1>4. Opened => Opened'
  BY DEF Lawful, Grows
<1> QED
  BY <1>1, <1>2, <1>3, <1>4 DEF JobOK, OrderGrows

LEMMA JobsUnmoved ==
  ASSUME Lawful, UNCHANGED jobs
  PROVE  JobsInv'
  BY JobStays DEF JobsInv

LEMMA JobSet ==
  ASSUME Lawful, NEW k \in Keys, NEW row, jobs' = [jobs EXCEPT ![k] = row], JobOK(k)'
  PROVE  JobsInv'
<1> SUFFICES ASSUME NEW i \in Keys PROVE JobOK(i)'
  BY DEF JobsInv
<1>1. i # k => jobs'[i] = jobs[i]
  BY Typed DEF Lawful, FundingInv, JobsTyped
<1> QED
  BY <1>1, JobStays

LEMMA RunStays ==
  ASSUME Lawful, NEW r \in Run, RunOK(r)
  PROVE  RunOK(r)'
<1> DEFINE q == r.job[2]
<1>1. r.at \in Nat /\ now \in Nat /\ now' \in Nat /\ now <= now'
  BY Typed, TypedNext DEF Lawful, FundingInv, Grows, TypeOK, Run
<1>2. q \in Requests
  BY KindsOfKeys DEF RunOK, Run
<1>3. OrderGrows(q) /\ (Concluded(q) => Concluded(q)')
  BY <1>2, ConcludedStays DEF Lawful, Grows
<1>4. r.stage \in {"activate", "verify"} => provider'[q] = "SETTLED"
  <2>1. r.job[1] = "allocate" => q \in OneClick
    BY KindsOfKeys DEF Run
  <2> QED
    BY <2>1, SettledStays DEF RunOK
<1>5. Opened => Opened'
  BY DEF Lawful, Grows
<1> HIDE DEF q
<1>6. r.at <= now'
  BY <1>1 DEF RunOK
<1> QED
  BY <1>3, <1>4, <1>5, <1>6 DEF RunOK, OrderGrows, q

LEMMA RunsUnmoved ==
  ASSUME Lawful, UNCHANGED runs
  PROVE  RunsInv'
  BY RunStays DEF Lawful, FundingInv, RunsInv

LEMMA RunSet ==
  ASSUME Lawful, NEW w \in Workers, NEW x, runs' = [runs EXCEPT ![w] = x],
         x \in Run /\ x # None => RunOK(x)'
  PROVE  RunsInv'
<1> SUFFICES ASSUME NEW v \in Workers, NEW r \in Run, runs'[v] = r, runs'[v] # None
             PROVE  RunOK(r)'
  BY DEF RunsInv
<1>1. CASE v = w
  BY <1>1, Typed DEF Lawful, FundingInv, RunsTyped
<1>2. CASE v # w
  <2>1. runs[v] = r
    BY <1>2, Typed DEF Lawful, FundingInv, RunsTyped
  <2> QED
    BY <2>1, RunStays DEF Lawful, FundingInv, RunsInv
<1> QED
  BY <1>1, <1>2

\* A call whose row is not fresher than before.
LEMMA CallStays ==
  ASSUME Lawful, NEW c \in Call, CallOK(c), NEW d \in Call,
         d.q = c.q, d.stage = c.stage, d.seen = c.seen, d.terms = c.terms,
         d.fresh => c.fresh /\ UNCHANGED <<cstatus, terms>>
  PROVE  CallOK(d)'
<1>1. c.q \in Requests
  BY DEF Call
<1>2. OrderGrows(c.q)
  BY <1>1 DEF Lawful, Grows
<1>3. cstatus # "DRAFT" => cstatus' # "DRAFT" /\ terms' = terms
  BY DEF Lawful, Grows
<1> QED
  BY <1>2, <1>3 DEF CallOK, OrderGrows

LEMMA StaleFacts ==
  ASSUME CallsTyped, NEW k, NEW c \in Calls, NEW d, d = Stale(k)[c]
  PROVE  /\ d \in Call \cup {None}
         /\ d # None => calls[c] # None /\ calls[c] \in Call /\ d \in Call
         /\ d # None => /\ d.q = calls[c].q /\ d.stage = calls[c].stage
                        /\ d.seen = calls[c].seen /\ d.terms = calls[c].terms
         /\ d # None /\ c # k => (d.fresh => calls[c].fresh /\ UNCHANGED <<cstatus, terms>>)
         /\ c = k => d = calls[c]
<1>1. CASE c = k \/ calls[c] = None
  BY <1>1 DEF Stale, CallsTyped
<1>2. CASE c # k /\ calls[c] # None
  <2> DEFINE kept == <<cstatus, terms>>' = <<cstatus, terms>>
  <2>1. d = [calls[c] EXCEPT !.fresh = @ /\ kept]
    BY <1>2 DEF Stale
  <2>2. calls[c] \in Call /\ calls[c].fresh \in BOOLEAN
    BY <1>2 DEF CallsTyped, Call
  <2>3. kept => UNCHANGED <<cstatus, terms>>
    OBVIOUS
  <2> HIDE DEF kept
  <2>4. (calls[c].fresh /\ kept) \in BOOLEAN
    OBVIOUS
  <2>5. d \in Call
    BY <2>1, <2>2, <2>4 DEF Call
  <2>6. d.fresh => calls[c].fresh /\ kept
    BY <2>1, <2>2 DEF Call
  <2>7. d.q = calls[c].q /\ d.stage = calls[c].stage /\ d.seen = calls[c].seen /\ d.terms = calls[c].terms
    BY <2>1, <2>2 DEF Call
  <2> QED
    BY <1>2, <2>2, <2>3, <2>5, <2>6, <2>7
<1> QED
  BY <1>1, <1>2

LEMMA CallsUnmoved ==
  ASSUME Lawful, UNCHANGED <<calls, cstatus, terms>>
  PROVE  CallsInv'
<1> SUFFICES ASSUME NEW k \in Calls, NEW c \in Call, calls'[k] = c, calls'[k] # None
             PROVE  CallOK(c)'
  BY DEF CallsInv
<1>1. CallOK(c)
  BY DEF Lawful, FundingInv, CallsInv
<1> QED
  BY <1>1, CallStays

\* One call moves and the others notice what has become of the campaign row.
LEMMA CallSet ==
  ASSUME Lawful, NEW k \in Calls, NEW x, calls' = [Stale(k) EXCEPT ![k] = x],
         x \in Call /\ x # None => CallOK(x)'
  PROVE  CallsInv'
<1> SUFFICES ASSUME NEW l \in Calls, NEW c \in Call, calls'[l] = c, calls'[l] # None
             PROVE  CallOK(c)'
  BY DEF CallsInv
<1>1. DOMAIN Stale(k) = Calls
  BY DEF Stale
<1>2. CASE l = k
  BY <1>1, <1>2
<1>3. CASE l # k
  <2>1. c = Stale(k)[l]
    BY <1>1, <1>3
  <2>2. CallsTyped
    BY Typed DEF Lawful, FundingInv
  <2>3. /\ calls[l] # None /\ calls[l] \in Call
        /\ c.q = calls[l].q /\ c.stage = calls[l].stage
        /\ c.seen = calls[l].seen /\ c.terms = calls[l].terms
        /\ c.fresh => calls[l].fresh /\ UNCHANGED <<cstatus, terms>>
    BY <1>3, <2>1, <2>2, StaleFacts
  <2>4. CallOK(calls[l])
    BY <2>3 DEF Lawful, FundingInv, CallsInv
  <2>5. PICK b \in Call : b = calls[l]
    BY <2>3
  <2>6. CallOK(b)
    BY <2>4, <2>5
  <2> QED
    BY <2>3, <2>5, <2>6, CallStays
<1> QED
  BY <1>2, <1>3

LEMMA CallsStale ==
  ASSUME Lawful, calls' = Stale(None)
  PROVE  CallsInv'
<1> SUFFICES ASSUME NEW l \in Calls, NEW c \in Call, calls'[l] = c, calls'[l] # None
             PROVE  CallOK(c)'
  BY DEF CallsInv
<1>1. CallsTyped /\ l # None
  BY Typed, AbsenceAssumption DEF Lawful, FundingInv
<1>2. /\ calls[l] # None /\ calls[l] \in Call
      /\ c.q = calls[l].q /\ c.stage = calls[l].stage
      /\ c.seen = calls[l].seen /\ c.terms = calls[l].terms
      /\ c.fresh => calls[l].fresh /\ UNCHANGED <<cstatus, terms>>
  BY <1>1, StaleFacts
<1>3. PICK b \in Call : b = calls[l]
  BY <1>2
<1>4. CallOK(b)
  BY <1>2, <1>3 DEF Lawful, FundingInv, CallsInv
<1> QED
  BY <1>2, <1>3, <1>4, CallStays

LEMMA RevealedKept ==
  ASSUME Lawful, UNCHANGED revealed
  PROVE  RevealedInv'
<1>1. revealed \subseteq Requests
  BY Typed, RequestFacts DEF Lawful, FundingInv, ProviderTyped
<1> QED
  BY <1>1 DEF Lawful, FundingInv, Grows, OrderGrows, RevealedInv

\* No call starts a quote, what is written of a reservation is not its failure, and an
\* order is new only where a quote is made.
QuotesGoOn ==
    \A k \in Calls :
       InCall(k, Quoting)' => InCall(k, Quoting) /\ calls'[k].q = calls[k].q

LEMMA ReservationsKept ==
  ASSUME ReservationsOK, QuotesGoOn,
         \A q \in Requests : \/ reservations'[q] = reservations[q]
                             \/ Reserved(q)' /\ reservations'[q].state # "FAILED",
         \A q \in Requests : Ordered(q)' => \/ Ordered(q)
                                            \/ \E k \in Calls : InCall(k, Quoting) /\ calls[k].q = q,
         CallsTyped
  PROVE  ReservationsOK'
<1>1. \A k \in Calls : InCall(k, Quoting) => calls[k].q \in Requests
  BY DEF InCall, CallsTyped, Call
<1>2. ASSUME NEW k \in Calls, InCall(k, Quoting)'
      PROVE  Reserved(calls[k].q)' /\ reservations'[calls'[k].q].state # "FAILED" /\ calls'[k].q = calls[k].q
  BY <1>1, <1>2 DEF QuotesGoOn, ReservationsOK, Reserved
<1>3. ASSUME NEW q \in Requests, Ordered(q)'
      PROVE  Replayable(q)'
  BY <1>1, <1>3 DEF ReservationsOK, Reserved, Replayable
<1>4. \A k, l \in Calls :
         InCall(k, Quoting)' /\ InCall(l, Quoting)' /\ calls'[k].q = calls'[l].q => k = l
  BY DEF QuotesGoOn, ReservationsOK
<1> QED
  BY <1>2, <1>3, <1>4 DEF ReservationsOK, Reserved
-----------------------------------------------------------------------------
(* Steps that write a job, a reservation or a call, and no order.            *)

LEMMA TypeKept ==
  ASSUME TypeOK, UNCHANGED vars
  PROVE  TypeOK'
  BY DEF TypeOK, vars, escrow, token

JobsGrow == \A k \in Keys : jobs[k].status # "NONE" => jobs'[k].status # "NONE"

\* The escrow and the orders stay as they are, and so does what depends on them.
LEMMA QuietStep ==
  ASSUME FundingInv, UNCHANGED <<vars, provider, cstatus, terms, orders, runs>>,
         JobsTyped', ReservationsTyped', revealed' \subseteq OneClick, CallsTyped', JobsGrow
  PROVE  Lawful /\ OrdersInv' /\ EscrowOK' /\ OpeningOK' /\ RunsInv'
<1>1. FundingTypeOK'
  BY Typed, TypedNext, TypeKept
     DEF FundingInv, CampaignTyped, OrdersTyped, ProviderTyped, RunsTyped
<1>2. UNCHANGED <<now, campaigns, used, authorizations, pending, inbound>> /\ now \in Nat
  BY Typed DEF vars, escrow, token, FundingInv, TypeOK
<1>3. \A q \in Requests : OrderGrows(q)
  BY <1>2 DEF OrderGrows, Ordered, InEscrow, GivenUp, Committed
<1>4. Grows
  BY <1>2, <1>3 DEF Grows, Opened, JobsGrow
<1>5. Lawful
  BY <1>1, <1>4 DEF Lawful
<1> QED
  BY <1>2, <1>5, OrdersKept, EscrowKept, OpeningKept, RunsUnmoved DEF Opened

LEMMA JobEnqueued ==
  ASSUME JobsTyped, NEW k \in Keys, NEW revive \in BOOLEAN, jobs' = Enqueued(k, revive)
  PROVE  /\ JobsTyped' /\ JobsGrow /\ jobs'[k].status # "NONE"
         /\ \A i \in Keys : i # k => jobs'[i] = jobs[i]
         /\ jobs'[k] = jobs[k] \/ jobs'[k].status = "PENDING"
<1>1. Row("PENDING", 0) \in JobRow /\ Row("PENDING", 0).status = "PENDING"
  BY QueueAssumption DEF Row, JobRow
<1> QED
  BY <1>1 DEF JobsTyped, JobsGrow, Enqueued

\* A job is enqueued for an order that is there.
LEMMA JobEnqueuedKeeps ==
  ASSUME Lawful, NEW k \in Keys, NEW revive \in BOOLEAN, jobs' = Enqueued(k, revive),
         k[1] \in {"reconcile", "allocate"}, Ordered(k[2])'
  PROVE  JobsInv'
<1> SUFFICES ASSUME NEW i \in Keys PROVE JobOK(i)'
  BY DEF JobsInv
<1>1. /\ i # k => jobs'[i] = jobs[i]
      /\ jobs'[k] = jobs[k] \/ jobs'[k].status = "PENDING"
  BY Typed, JobEnqueued DEF Lawful, FundingInv
<1> QED
  BY <1>1, JobStays DEF JobOK

\* What one call of several does to all of them.
LEMMA CallMoved ==
  ASSUME CallsTyped, NEW k \in Calls, NEW x \in Call \cup {None},
         calls' = [Stale(k) EXCEPT ![k] = x]
  PROVE  /\ CallsTyped' /\ calls'[k] = x
         /\ \A l \in Calls \ {k} : InCall(l, Quoting)' => InCall(l, Quoting) /\ calls'[l].q = calls[l].q
<1>1. DOMAIN Stale(k) = Calls
  BY DEF Stale
<1>2. \A l \in Calls \ {k} : calls'[l] = Stale(k)[l]
  BY <1>1
<1>3. \A l \in Calls : calls'[l] \in Call \cup {None}
  BY <1>1, <1>2, StaleFacts
<1>4. calls' \in [Calls -> Call \cup {None}] /\ calls'[k] = x
  BY <1>1, <1>3
<1>5. ASSUME NEW l \in Calls \ {k}, InCall(l, Quoting)'
      PROVE  InCall(l, Quoting) /\ calls'[l].q = calls[l].q
  <2>1. calls'[l] # None /\ calls'[l].stage \in Quoting
    BY <1>5 DEF InCall
  <2> QED
    BY <1>2, <2>1, StaleFacts DEF InCall
<1> QED
  BY <1>4, <1>5 DEF CallsTyped

LEMMA QuietCall ==
  ASSUME FundingInv, UNCHANGED <<vars, provider, cstatus, terms, orders, runs>>,
         JobsTyped', ReservationsTyped', revealed' \subseteq OneClick, JobsGrow,
         NEW k \in Calls, NEW x \in Call \cup {None}, calls' = [Stale(k) EXCEPT ![k] = x],
         Lawful /\ x \in Call /\ x # None => CallOK(x)',
         Lawful => JobsInv' /\ RevealedInv',
         ReservationsOK'
  PROVE  FundingInv'
<1>1. CallsTyped'
  BY Typed, CallMoved DEF FundingInv
<1>2. Lawful /\ OrdersInv' /\ EscrowOK' /\ OpeningOK' /\ RunsInv'
  BY <1>1, QuietStep
<1>3. CallsInv'
  BY <1>2, CallSet
<1> QED
  BY <1>2, <1>3 DEF Lawful, FundingInv

\* The call that moves and its row.
LEMMA CallFacts ==
  ASSUME FundingInv, NEW k \in Calls, calls[k] # None
  PROVE  calls[k] \in Call /\ calls[k].q \in Requests /\ CallOK(calls[k])
<1>1. calls[k] \in Call
  BY Typed DEF FundingInv, CallsTyped
<1> QED
  BY <1>1 DEF FundingInv, CallsInv, Call

CallStages == {"loaded", "reserved", "created", "enqueued", "revive", "ensure", "persist"}

LEMMA CallGoesOn ==
  ASSUME FundingInv, NEW k \in Calls, calls[k] # None, NEW stage \in CallStages, GotoCall(k, stage)
  PROVE  \E x \in Call : /\ x = [calls[k] EXCEPT !.stage = stage] /\ x.stage = stage
                         /\ x.q = calls[k].q /\ x.seen = calls[k].seen
                         /\ x.terms = calls[k].terms /\ x.fresh = calls[k].fresh
                         /\ calls' = [Stale(k) EXCEPT ![k] = x]
<1> DEFINE x == [calls[k] EXCEPT !.stage = stage]
<1>1. calls[k] \in Call
  BY CallFacts
<1>2. x \in Call
  BY <1>1 DEF Call, CallStages
<1>3. calls' = [Stale(k) EXCEPT ![k] = x]
  BY DEF GotoCall, Stale
<1>4. /\ x.stage = stage /\ x.q = calls[k].q /\ x.seen = calls[k].seen
      /\ x.terms = calls[k].terms /\ x.fresh = calls[k].fresh
  BY <1>1 DEF Call
<1> HIDE DEF x
<1>5. x = [calls[k] EXCEPT !.stage = stage]
  BY DEF x
<1> QED
  BY <1>2, <1>3, <1>4, <1>5

Forgetting(q, stage) ==
    [q |-> q, stage |-> stage, seen |-> None, terms |-> None, fresh |-> FALSE, at |-> 0]

LEMMA CallForgets ==
  ASSUME NEW k \in Calls, NEW q \in Requests, NEW stage \in CallStages,
         GotoForgetting(k, q, stage), NEW x, x = Forgetting(q, stage)
  PROVE  /\ x \in Call /\ x.q = q /\ x.stage = stage /\ ~x.fresh
         /\ calls' = [Stale(k) EXCEPT ![k] = x]
  BY DEF GotoForgetting, Forgetting, Call, CallStages

\* A call that has forgotten all but its request relies on its order only.
LEMMA ForgottenOK ==
  ASSUME NEW q \in Requests, NEW stage \in {"created", "revive", "ensure", "persist"}, NEW x,
         x.q = q, x.stage = stage, ~x.fresh,
         Ordered(q)', stage \in {"ensure", "persist"} => q \in OneClick,
         stage = "persist" => Committed(q)'
  PROVE  CallOK(x)'
  BY DEF CallOK
-----------------------------------------------------------------------------
(* The quote: reservation, order, reconciliation.                           *)

\* A call that writes no reservation and makes no new quote.
LEMMA ReservationsUnmoved ==
  ASSUME FundingInv, UNCHANGED <<reservations, orders>>,
         NEW k \in Calls, NEW x \in Call \cup {None}, calls' = [Stale(k) EXCEPT ![k] = x],
         x # None /\ x.stage \in Quoting => InCall(k, Quoting) /\ x.q = calls[k].q
  PROVE  ReservationsOK'
<1>1. CallsTyped
  BY Typed DEF FundingInv
<1>2. QuotesGoOn
  <2>1. calls'[k] = x /\ \A l \in Calls \ {k} :
           InCall(l, Quoting)' => InCall(l, Quoting) /\ calls'[l].q = calls[l].q
    BY <1>1, CallMoved
  <2> QED
    BY <2>1 DEF QuotesGoOn, InCall
<1> QED
  BY <1>1, <1>2, ReservationsKept DEF FundingInv, Ordered

\* completeIdempotency
LEMMA ReservationCompleted ==
  ASSUME FundingInv, UNCHANGED orders, NEW q \in Requests, Reserved(q),
         reservations' = [reservations EXCEPT ![q].state = "COMPLETED"],
         NEW k \in Calls, NEW x \in Call \cup {None}, calls' = [Stale(k) EXCEPT ![k] = x],
         x = None \/ x.stage \notin Quoting
  PROVE  ReservationsTyped' /\ ReservationsOK'
<1>1. CallsTyped /\ ReservationsTyped
  BY Typed DEF FundingInv
<1>2. reservations[q] \in Reservation
  BY <1>1 DEF ReservationsTyped, Reserved
<1> DEFINE row == [reservations[q] EXCEPT !.state = "COMPLETED"]
<1>3. row \in Reservation /\ row.state = "COMPLETED"
  BY <1>2 DEF Reservation
<1>4. reservations' = [reservations EXCEPT ![q] = row]
  OBVIOUS
<1> HIDE DEF row
<1>5. row # None
  BY <1>3, AbsenceAssumption
<1>6. ReservationsTyped' /\ reservations'[q] = row /\ \A p \in Requests \ {q} : reservations'[p] = reservations[p]
  BY <1>1, <1>3, <1>4 DEF ReservationsTyped
<1>7. QuotesGoOn
  <2>1. calls'[k] = x /\ \A l \in Calls \ {k} :
           InCall(l, Quoting)' => InCall(l, Quoting) /\ calls'[l].q = calls[l].q
    BY <1>1, CallMoved
  <2> QED
    BY <2>1 DEF QuotesGoOn, InCall
<1>8. \A p \in Requests : \/ reservations'[p] = reservations[p]
                          \/ Reserved(p)' /\ reservations'[p].state # "FAILED"
  BY <1>3, <1>5, <1>6 DEF Reserved
<1> QED
  BY <1>1, <1>6, <1>7, <1>8, ReservationsKept DEF FundingInv, Ordered

LEMMA LoadCampaignKeeps ==
  ASSUME FundingInv, NEW k \in Calls, NEW q \in Requests, LoadCampaign(k, q)
  PROVE  FundingInv'
<1> DEFINE row == [q |-> q, stage |-> "loaded", seen |-> cstatus, terms |-> terms,
                   fresh |-> TRUE, at |-> now]
<1>1. /\ calls[k] = None /\ calls' = [calls EXCEPT ![k] = row]
      /\ UNCHANGED <<vars, jobs, rows, provider, revealed, runs>>
  BY DEF LoadCampaign
<1>2. UNCHANGED <<cstatus, terms, orders, reservations>>
  BY <1>1 DEF rows
<1>3. /\ TypeOK /\ JobsTyped /\ CampaignTyped /\ OrdersTyped /\ ReservationsTyped
      /\ ProviderTyped /\ CallsTyped /\ RunsTyped
  BY Typed DEF FundingInv
<1>4. row \in Call
  BY <1>3 DEF Call, CampaignTyped, TypeOK
<1>5. PICK x \in Call : x = row
  BY <1>4
<1>6. /\ x.stage = "loaded" /\ x.seen = cstatus /\ x.terms = terms
  BY <1>5
<1> HIDE DEF row
<1>7. CallsTyped' /\ calls'[k] = x /\ \A l \in Calls \ {k} : calls'[l] = calls[l]
  BY <1>1, <1>3, <1>5 DEF CallsTyped
<1>8. JobsTyped' /\ ReservationsTyped' /\ revealed' \subseteq OneClick /\ JobsGrow
  BY <1>1, <1>2, <1>3 DEF JobsTyped, ReservationsTyped, ProviderTyped, JobsGrow
<1>9. Lawful /\ OrdersInv' /\ EscrowOK' /\ OpeningOK' /\ RunsInv'
  BY <1>1, <1>2, <1>7, <1>8, QuietStep
<1>10. CallOK(x)'
  <2>1. terms # None
    BY <1>3, SpecFacts DEF CampaignTyped
  <2> QED
    BY <1>2, <1>6, <2>1 DEF CallOK
<1>11. CallsInv'
  <2> SUFFICES ASSUME NEW l \in Calls, NEW c \in Call, calls'[l] = c, calls'[l] # None
               PROVE  CallOK(c)'
    BY DEF CallsInv
  <2>1. CASE l = k
    BY <1>7, <1>10, <2>1
  <2>2. CASE l # k
    <3>1. CallOK(c)
      BY <1>7, <2>2 DEF FundingInv, CallsInv
    <3> QED
      BY <1>2, <1>9, <3>1, CallStays
  <2> QED
    BY <2>1, <2>2
<1>12. ReservationsOK'
  <2>1. QuotesGoOn
    BY <1>6, <1>7 DEF QuotesGoOn, InCall, Quoting
  <2> QED
    BY <1>2, <1>3, <2>1, ReservationsKept DEF FundingInv, Ordered
<1> QED
  BY <1>1, <1>9, <1>11, <1>12, JobsUnmoved, RevealedKept DEF Lawful, FundingInv

LEMMA ReserveKeeps ==
  ASSUME FundingInv, NEW k \in Calls, Reserve(k)
  PROVE  FundingInv'
<1>1. PICK c \in Call : c = calls[k] /\ c # None
  BY CallFacts DEF Reserve, InCall
<1>2. PICK q \in Requests : q = c.q
  BY <1>1 DEF Call
<1> DEFINE row == [state |-> "PROCESSING", hash |-> c.terms, until |-> c.at + QuoteWindow + ReservationGrace]
<1>3. /\ c.stage = "loaded" /\ ~Reserved(q) /\ GotoCall(k, "reserved")
      /\ reservations' = [reservations EXCEPT ![q] = row]
      /\ UNCHANGED <<vars, jobs, cstatus, terms, orders, provider, revealed, runs>>
  BY <1>1, <1>2 DEF Reserve, InCall
<1>4. /\ TypeOK /\ JobsTyped /\ ReservationsTyped /\ ProviderTyped /\ CallsTyped
  BY Typed DEF FundingInv
<1>5. CallOK(c)
  BY <1>1 DEF FundingInv, CallsInv
<1>6. row \in Reservation /\ row.state = "PROCESSING"
  <2>1. c.terms \in Specs /\ c.at \in Nat
    BY <1>3, <1>5 DEF CallOK, Call
  <2> QED
    BY <2>1, FundingAssumption DEF Reservation
<1> HIDE DEF row
<1>7. row # None
  BY <1>6, AbsenceAssumption
<1>8. /\ ReservationsTyped' /\ reservations'[q] = row
      /\ \A p \in Requests \ {q} : reservations'[p] = reservations[p]
  BY <1>3, <1>4, <1>6 DEF ReservationsTyped
<1>9. PICK x \in Call : /\ x.stage = "reserved" /\ x.q = q /\ x.seen = c.seen
                        /\ x.terms = c.terms /\ x.fresh = c.fresh
                        /\ calls' = [Stale(k) EXCEPT ![k] = x]
  BY <1>1, <1>2, <1>3, CallGoesOn DEF CallStages
<1>10. /\ calls'[k] = x
       /\ \A l \in Calls \ {k} : InCall(l, Quoting)' => InCall(l, Quoting) /\ calls'[l].q = calls[l].q
  BY <1>4, <1>9, CallMoved
\* Nobody else makes a quote for a request that is not reserved.
<1>11. \A l \in Calls \ {k} : InCall(l, Quoting)' => calls'[l].q # q
  BY <1>3, <1>10 DEF FundingInv, ReservationsOK
<1>12. ReservationsOK'
  <2>1. ASSUME NEW l \in Calls, InCall(l, Quoting)'
        PROVE  reservations'[calls'[l].q] # None /\ reservations'[calls'[l].q].state # "FAILED"
    <3>1. CASE l = k
      BY <1>6, <1>7, <1>8, <1>9, <1>10, <3>1
    <3>2. CASE l # k
      <4>1. InCall(l, Quoting) /\ calls'[l].q = calls[l].q /\ calls[l].q # q
        BY <1>10, <1>11, <2>1, <3>2
      <4>2. calls[l].q \in Requests
        BY <4>1, CallFacts DEF InCall
      <4> QED
        BY <1>8, <4>1, <4>2 DEF FundingInv, ReservationsOK, Reserved
    <3> QED
      BY <3>1, <3>2
  <2>2. ASSUME NEW l \in Calls, NEW m \in Calls, InCall(l, Quoting)', InCall(m, Quoting)',
               calls'[l].q = calls'[m].q
        PROVE  l = m
    <3>1. CASE l = k \/ m = k
      BY <1>9, <1>10, <1>11, <2>2, <3>1
    <3>2. CASE l # k /\ m # k
      BY <1>10, <2>2, <3>2 DEF FundingInv, ReservationsOK
    <3> QED
      BY <3>1, <3>2
  <2>3. \A p \in Requests : Ordered(p)' => Replayable(p)'
    BY <1>3, <1>6, <1>8 DEF FundingInv, ReservationsOK, Ordered, Replayable, Reserved
  <2> QED
    BY <2>1, <2>2, <2>3 DEF ReservationsOK, Reserved
<1>13. CallOK(x)'
  BY <1>3, <1>5, <1>9 DEF CallOK
<1>14. JobsTyped' /\ revealed' \subseteq OneClick /\ JobsGrow
  BY <1>3, <1>4 DEF JobsTyped, ProviderTyped, JobsGrow
<1> QED
  BY <1>3, <1>8, <1>9, <1>12, <1>13, <1>14, QuietCall, JobsUnmoved, RevealedKept
LEMMA RecoverKeeps ==
  ASSUME FundingInv, NEW k \in Calls, Recover(k)
  PROVE  FundingInv'
<1>1. PICK c \in Call : c = calls[k] /\ c # None
  BY CallFacts DEF Recover, InCall
<1>2. PICK q \in Requests : q = c.q
  BY <1>1 DEF Call
<1>3. /\ Reserved(q) /\ Ordered(q)
      /\ \/ c.seen = "DRAFT" /\ c.fresh
         \/ UNCHANGED cstatus
      /\ reservations' = [reservations EXCEPT ![q].state = "COMPLETED"]
      /\ UNCHANGED <<vars, jobs, terms, orders, provider, revealed, runs>>
      /\ GotoForgetting(k, q, "revive")
  BY <1>1, <1>2 DEF Recover, Ordered
\* The order froze the campaign: a call that still sees the draft has a stale row.
<1>4. UNCHANGED cstatus
  BY <1>1, <1>3 DEF FundingInv, OrdersInv, OrderOK, CallsInv, CallOK
<1>5. PICK x : x = Forgetting(q, "revive")
  OBVIOUS
<1>6. x \in Call /\ x.q = q /\ x.stage = "revive" /\ ~x.fresh /\ calls' = [Stale(k) EXCEPT ![k] = x]
  BY <1>3, <1>5, CallForgets DEF CallStages
<1>7. ReservationsTyped' /\ ReservationsOK'
  BY <1>3, <1>6, ReservationCompleted DEF Quoting
<1>8. JobsTyped' /\ revealed' \subseteq OneClick /\ JobsGrow
  BY <1>3, Typed DEF FundingInv, JobsTyped, ProviderTyped, JobsGrow
<1>9. CallOK(x)'
  BY <1>3, <1>6, ForgottenOK DEF Ordered
<1> QED
  BY <1>3, <1>4, <1>6, <1>7, <1>8, <1>9, QuietCall, JobsUnmoved, RevealedKept

LEMMA CompleteQuoteKeeps ==
  ASSUME FundingInv, NEW k \in Calls, CompleteQuote(k)
  PROVE  FundingInv'
<1>1. calls[k].q \in Requests
  BY CallFacts DEF CompleteQuote, InCall
<1>2. /\ Reserved(calls[k].q)
      /\ reservations' = [reservations EXCEPT ![calls[k].q].state = "COMPLETED"]
      /\ UNCHANGED <<vars, jobs, cstatus, terms, orders, provider, revealed, runs>>
      /\ calls' = [Stale(k) EXCEPT ![k] = None]
  BY DEF CompleteQuote, EndOf
<1>3. ReservationsTyped' /\ ReservationsOK'
  BY <1>1, <1>2, ReservationCompleted
<1>4. JobsTyped' /\ revealed' \subseteq OneClick /\ JobsGrow
  BY <1>2, Typed DEF FundingInv, JobsTyped, ProviderTyped, JobsGrow
<1> QED
  BY <1>2, <1>3, <1>4, QuietCall, JobsUnmoved, RevealedKept

LEMMA FailQuoteKeeps ==
  ASSUME FundingInv, NEW k \in Calls, FailQuote(k)
  PROVE  FundingInv'
<1>1. PICK q \in Requests : q = calls[k].q
  BY CallFacts DEF FailQuote, InCall
<1>2. /\ ~Ordered(q) /\ Reserved(q) /\ InCall(k, Quoting)
      /\ reservations' = [reservations EXCEPT ![q].state = "FAILED"]
      /\ UNCHANGED <<vars, jobs, cstatus, terms, orders, provider, revealed, runs>>
      /\ calls' = [Stale(k) EXCEPT ![k] = None]
  BY <1>1 DEF FailQuote, EndOf, Ordered, InCall, Quoting
<1>3. JobsTyped /\ ReservationsTyped /\ ProviderTyped /\ CallsTyped
  BY Typed DEF FundingInv
<1>4. reservations[q] \in Reservation
  BY <1>2, <1>3 DEF ReservationsTyped, Reserved
<1>5. [reservations[q] EXCEPT !.state = "FAILED"] \in Reservation
  BY <1>4 DEF Reservation
<1>6. ReservationsTyped' /\ \A p \in Requests \ {q} : reservations'[p] = reservations[p]
  BY <1>2, <1>3, <1>5 DEF ReservationsTyped
<1>7. /\ calls'[k] = None
      /\ \A l \in Calls \ {k} : InCall(l, Quoting)' => InCall(l, Quoting) /\ calls'[l].q = calls[l].q
  BY <1>2, <1>3, CallMoved
\* The call was alone with its request.
<1>8. ASSUME NEW l \in Calls, InCall(l, Quoting)'
      PROVE  /\ InCall(l, Quoting) /\ calls'[l].q = calls[l].q
             /\ calls[l].q \in Requests \ {q}
  <2>1. l # k
    BY <1>7, <1>8 DEF InCall
  <2>2. InCall(l, Quoting) /\ calls'[l].q = calls[l].q
    BY <1>7, <1>8, <2>1
  <2>3. calls[l].q \in Requests
    BY <2>2, CallFacts DEF InCall
  <2>4. calls[l].q # calls[k].q
    BY <1>2, <2>1, <2>2 DEF FundingInv, ReservationsOK
  <2> QED
    BY <1>1, <2>2, <2>3, <2>4
<1>9. ReservationsOK'
  <2>1. ASSUME NEW l \in Calls, InCall(l, Quoting)'
        PROVE  reservations'[calls'[l].q] # None /\ reservations'[calls'[l].q].state # "FAILED"
    BY <1>6, <1>8, <2>1 DEF FundingInv, ReservationsOK, Reserved
  <2>2. \A l, m \in Calls :
           InCall(l, Quoting)' /\ InCall(m, Quoting)' /\ calls'[l].q = calls'[m].q => l = m
    BY <1>8 DEF FundingInv, ReservationsOK
  <2>3. \A p \in Requests : Ordered(p)' => Replayable(p)'
    BY <1>2, <1>6 DEF FundingInv, ReservationsOK, Ordered, Replayable, Reserved
  <2> QED
    BY <2>1, <2>2, <2>3 DEF ReservationsOK, Reserved
<1>10. JobsTyped' /\ revealed' \subseteq OneClick /\ JobsGrow
  BY <1>2, <1>3 DEF JobsTyped, ProviderTyped, JobsGrow
<1> QED
  BY <1>2, <1>6, <1>9, <1>10, QuietCall, JobsUnmoved, RevealedKept

\* A call that writes no row.
LEMMA ReadingCall ==
  ASSUME FundingInv, UNCHANGED <<vars, rows, provider, runs>>,
         JobsTyped', revealed' \subseteq OneClick, JobsGrow,
         NEW k \in Calls, NEW x \in Call \cup {None}, calls' = [Stale(k) EXCEPT ![k] = x],
         Lawful /\ x \in Call /\ x # None => CallOK(x)',
         Lawful => JobsInv' /\ RevealedInv',
         x # None /\ x.stage \in Quoting => InCall(k, Quoting) /\ x.q = calls[k].q
  PROVE  FundingInv'
<1>1. UNCHANGED <<cstatus, terms, orders, reservations>>
  BY DEF rows
<1>2. ReservationsTyped'
  BY <1>1, Typed DEF FundingInv, ReservationsTyped
<1>3. ReservationsOK'
  BY <1>1, ReservationsUnmoved
<1> QED
  BY <1>1, <1>2, <1>3, QuietCall

\* A call that enqueues a job for an order.
LEMMA EnqueueingCall ==
  ASSUME FundingInv, UNCHANGED <<vars, rows, provider, revealed, runs>>,
         NEW key \in Keys, NEW revive \in BOOLEAN, jobs' = Enqueued(key, revive),
         key[1] \in {"reconcile", "allocate"}, Ordered(key[2]),
         NEW k \in Calls, NEW x \in Call \cup {None}, calls' = [Stale(k) EXCEPT ![k] = x],
         Lawful /\ x \in Call /\ x # None => CallOK(x)',
         x # None /\ x.stage \in Quoting => InCall(k, Quoting) /\ x.q = calls[k].q
  PROVE  FundingInv'
<1>1. JobsTyped' /\ JobsGrow
  BY Typed, JobEnqueued DEF FundingInv
<1>2. revealed' \subseteq OneClick
  BY Typed DEF FundingInv, ProviderTyped
<1>3. Ordered(key[2])'
  BY DEF Ordered, rows
<1>4. Lawful => JobsInv' /\ RevealedInv'
  BY <1>3, JobEnqueuedKeeps, RevealedKept
<1> QED
  BY <1>1, <1>2, <1>4, ReadingCall

LEMMA EnqueueReconciliationKeeps ==
  ASSUME FundingInv, NEW k \in Calls, EnqueueReconciliation(k)
  PROVE  FundingInv'
<1>1. PICK c \in Call : c = calls[k] /\ c # None /\ CallOK(c)
  BY CallFacts DEF EnqueueReconciliation, InCall
<1>2. PICK q \in Requests : q = c.q
  BY <1>1 DEF Call
<1>3. /\ c.stage = "created" /\ InCall(k, Quoting) /\ jobs' = Enqueued(ReconcileKey(q), FALSE)
      /\ UNCHANGED <<vars, rows, provider, revealed, runs>> /\ GotoCall(k, "enqueued")
  BY <1>1, <1>2 DEF EnqueueReconciliation, InCall, Quoting
<1>4. PICK x \in Call : /\ x.stage = "enqueued" /\ x.q = q /\ x.seen = c.seen
                        /\ x.terms = c.terms /\ x.fresh = c.fresh
                        /\ calls' = [Stale(k) EXCEPT ![k] = x]
  BY <1>1, <1>2, <1>3, CallGoesOn DEF CallStages
<1>5. Ordered(q) /\ UNCHANGED <<cstatus, terms, orders>>
  BY <1>1, <1>2, <1>3 DEF CallOK, rows
<1>6. CallOK(x)'
  BY <1>1, <1>4, <1>5 DEF CallOK, Ordered
<1>7. ReconcileKey(q) \in Keys /\ ReconcileKey(q)[1] = "reconcile" /\ ReconcileKey(q)[2] = q
  BY KeyFacts
<1> QED
  BY <1>1, <1>2, <1>3, <1>4, <1>5, <1>6, <1>7, EnqueueingCall

LEMMA ReviveReconciliationKeeps ==
  ASSUME FundingInv, NEW k \in Calls, ReviveReconciliation(k)
  PROVE  FundingInv'
<1>1. PICK q \in Requests : q = calls[k].q /\ Ordered(q)
  BY CallFacts DEF ReviveReconciliation, InCall, CallOK
<1>2. /\ jobs' = Enqueued(ReconcileKey(q), TRUE) /\ calls' = [Stale(k) EXCEPT ![k] = None]
      /\ UNCHANGED <<vars, rows, provider, revealed, runs>>
  BY <1>1 DEF ReviveReconciliation, EndOf
<1>3. ReconcileKey(q) \in Keys /\ ReconcileKey(q)[1] = "reconcile" /\ ReconcileKey(q)[2] = q
  BY KeyFacts
<1> QED
  BY <1>1, <1>2, <1>3, EnqueueingCall

LEMMA EnsureAllocationKeeps ==
  ASSUME FundingInv, NEW k \in Calls, EnsureAllocation(k)
  PROVE  FundingInv'
<1>1. PICK q \in Requests : q = calls[k].q /\ Ordered(q) /\ q \in OneClick
  BY CallFacts DEF EnsureAllocation, InCall, CallOK
<1>2. /\ jobs' = Enqueued(AllocateKey(q), TRUE) /\ calls' = [Stale(k) EXCEPT ![k] = None]
      /\ UNCHANGED <<vars, rows, provider, revealed, runs>>
  BY <1>1 DEF EnsureAllocation, EndOf
<1>3. AllocateKey(q) \in Keys /\ AllocateKey(q)[1] = "allocate" /\ AllocateKey(q)[2] = q
  BY <1>1, KeyFacts
<1> QED
  BY <1>1, <1>2, <1>3, EnqueueingCall

LEMMA NothingEnqueued ==
  ASSUME FundingInv, UNCHANGED jobs
  PROVE  JobsTyped' /\ JobsGrow
  BY Typed DEF FundingInv, JobsTyped, JobsGrow

LEMMA EndCallKeeps ==
  ASSUME FundingInv, NEW k \in Calls, EndCall(k)
  PROVE  FundingInv'
<1>1. /\ calls' = [Stale(k) EXCEPT ![k] = None]
      /\ UNCHANGED <<vars, jobs, rows, provider, revealed, runs>>
  BY DEF EndCall, EndOf
<1>2. revealed' \subseteq OneClick
  BY <1>1, Typed DEF FundingInv, ProviderTyped
<1> QED
  BY <1>1, <1>2, NothingEnqueued, ReadingCall, JobsUnmoved, RevealedKept

LEMMA VerifyAuthorizationKeeps ==
  ASSUME FundingInv, NEW k \in Calls, NEW q \in Requests, VerifyAuthorization(k, q)
  PROVE  FundingInv'
<1>1. /\ q \in OneClick /\ Live(q) /\ Authorized(q) /\ GotoForgetting(k, q, "persist")
      /\ UNCHANGED <<vars, jobs, rows, provider, revealed, runs>>
  BY DEF VerifyAuthorization
<1>2. PICK x : x = Forgetting(q, "persist")
  OBVIOUS
<1>3. x \in Call /\ x.q = q /\ x.stage = "persist" /\ ~x.fresh /\ calls' = [Stale(k) EXCEPT ![k] = x]
  BY <1>1, <1>2, CallForgets DEF CallStages
<1>4. Ordered(q) /\ Committed(q)
  BY <1>1 DEF Live, Ordered, Authorized, Committed
<1>5. Ordered(q)' /\ Committed(q)'
  BY <1>1, <1>4 DEF Ordered, Committed, rows, vars, escrow
<1>6. CallOK(x)'
  BY <1>1, <1>3, <1>5, ForgottenOK
<1>7. revealed' \subseteq OneClick
  BY <1>1, Typed DEF FundingInv, ProviderTyped
<1> QED
  BY <1>1, <1>3, <1>6, <1>7, NothingEnqueued, ReadingCall, JobsUnmoved, RevealedKept DEF Quoting

LEMMA PersistVerificationKeeps ==
  ASSUME FundingInv, NEW k \in Calls, PersistVerification(k)
  PROVE  FundingInv'
<1>1. PICK q \in Requests : q = calls[k].q /\ q \in OneClick /\ Committed(q)
  BY CallFacts DEF PersistVerification, InCall, CallOK
<1>2. /\ revealed' = revealed \cup {q} /\ calls' = [Stale(k) EXCEPT ![k] = None]
      /\ UNCHANGED <<vars, jobs, rows, provider, runs>>
  BY <1>1 DEF PersistVerification, EndOf
<1>3. revealed \subseteq OneClick /\ revealed' \subseteq OneClick
  BY <1>1, <1>2, Typed DEF FundingInv, ProviderTyped
<1>4. ASSUME NEW p \in revealed'
      PROVE  Committed(p)'
  <2>1. Committed(p)
    BY <1>1, <1>2, <1>4 DEF FundingInv, RevealedInv
  <2> QED
    BY <1>2, <2>1 DEF Committed, Ordered, rows, vars, escrow
<1>5. RevealedInv'
  BY <1>4 DEF RevealedInv
<1> QED
  BY <1>2, <1>3, <1>5, NothingEnqueued, ReadingCall, JobsUnmoved
-----------------------------------------------------------------------------
(* Steps that write an order.                                               *)

\* The escrow and the provider stay as they are, the campaign row and the orders move on.
LEMMA LedgerGrows ==
  ASSUME FundingInv, UNCHANGED <<vars, provider>>, JobsGrow,
         cstatus # "DRAFT" => cstatus' # "DRAFT" /\ terms' = terms,
         Opened => Opened',
         \A q \in Requests : Ordered(q) =>
            /\ Ordered(q)' /\ orders'[q].terms = orders[q].terms
            /\ orders'[q].expires = orders[q].expires
            /\ orders[q].status = "ALLOCATED" => orders'[q].status = "ALLOCATED"
            /\ GivenUp(q) => orders'[q].status = orders[q].status
  PROVE  Grows
<1>1. UNCHANGED <<now, campaigns, used, authorizations>> /\ now \in Nat
  BY Typed DEF vars, escrow, FundingInv, TypeOK
<1>2. ASSUME NEW q \in Requests
      PROVE  OrderGrows(q)
  <2>1. InEscrow(q) => Ordered(q)
    BY InEscrowOrdered
  <2>2. CASE ~Ordered(q)
    <3>1. orders[q].status # "ALLOCATED" /\ ~GivenUp(q) /\ ~Committed(q)
      BY <2>2 DEF Ordered, GivenUp, Committed
    <3> QED
      BY <2>1, <2>2, <3>1 DEF OrderGrows
  <2>3. CASE Ordered(q)
    <3>1. cstatus # "DRAFT"
      BY <2>3 DEF FundingInv, OrdersInv, OrderOK
    <3>2. terms' = terms /\ orders'[q].terms = orders[q].terms /\ Ordered(q)'
          /\ orders'[q].expires = orders[q].expires
      BY <2>3, <3>1
    <3>3. InEscrow(q)' <=> InEscrow(q)
      BY <1>1, <3>2 DEF InEscrow
    <3>4. GivenUp(q) => GivenUp(q)'
      BY <2>3, <3>3 DEF GivenUp
    <3>5. Committed(q) => Committed(q)'
      BY <1>1, <3>2 DEF Committed
    <3> QED
      BY <2>3, <3>2, <3>3, <3>4, <3>5 DEF OrderGrows
  <2> QED
    BY <2>2, <2>3
<1> QED
  BY <1>1, <1>2 DEF Grows, JobsGrow

\* The lawful ways to rewrite an order.
Rewrites(q, row) ==
    /\ orders' = [orders EXCEPT ![q] = row] /\ Ordered(q)
    /\ row \in OrderRow /\ row.status # "NONE"
    /\ row.terms = orders[q].terms /\ row.expires = orders[q].expires
    /\ orders[q].status = "ALLOCATED" => row.status = "ALLOCATED"
    /\ GivenUp(q) => row.status = orders[q].status
    /\ row.status \notin Closed => OpenOrders \subseteq {q}

LEMMA OrderStep ==
  ASSUME FundingInv, UNCHANGED <<vars, provider, cstatus, terms, reservations, revealed>>,
         JobsTyped', JobsGrow, CallsTyped', RunsTyped',
         NEW q \in Requests, NEW row, Rewrites(q, row), StatusOK(q)'
  PROVE  /\ Lawful /\ OrdersInv' /\ EscrowOK' /\ OpeningOK' /\ RevealedInv'
         /\ \A p \in Requests : Ordered(p)' => Ordered(p)
<1>1. /\ TypeOK /\ CampaignTyped /\ OrdersTyped /\ ReservationsTyped /\ ProviderTyped
  BY Typed DEF FundingInv
<1>2. OrdersTyped' /\ orders'[q] = row /\ \A p \in Requests \ {q} : orders'[p] = orders[p]
  BY <1>1 DEF OrdersTyped, Rewrites
<1>3. FundingTypeOK'
  <2>1. TypeOK'
    BY <1>1, TypeKept
  <2> QED
    BY <1>1, <1>2, <2>1, TypedNext DEF CampaignTyped, ReservationsTyped, ProviderTyped
<1>4. \A p \in Requests : Ordered(p)' <=> Ordered(p)
  BY <1>2 DEF Ordered, Rewrites
<1>5. ASSUME NEW p \in Requests, Ordered(p)
      PROVE  /\ Ordered(p)' /\ orders'[p].terms = orders[p].terms
             /\ orders'[p].expires = orders[p].expires
             /\ orders[p].status = "ALLOCATED" => orders'[p].status = "ALLOCATED"
             /\ GivenUp(p) => orders'[p].status = orders[p].status
  BY <1>2, <1>4, <1>5 DEF Rewrites
<1>6. Grows
  <2>1. Opened => Opened'
    BY DEF Opened
  <2> QED
    BY <1>5, <2>1, LedgerGrows
<1>7. Lawful
  BY <1>3, <1>6 DEF Lawful
<1>8. OrderOK(q)'
  BY <1>2, <1>4 DEF FundingInv, OrdersInv, OrderOK, Rewrites, Ordered
<1>9. \A p \in Requests : OrderOK(p)'
  BY <1>2, <1>7, <1>8, OrderStays
<1>10. OneOpen'
  <2>1. \A p \in Requests \ {q} : p \in OpenOrders' => p \in OpenOrders
    BY <1>2 DEF OpenOrders
  <2>2. q \in OpenOrders' => OpenOrders \subseteq {q}
    BY <1>2 DEF OpenOrders, Rewrites
  <2>3. OpenOrders' \subseteq Requests
    BY DEF OpenOrders
  <2> QED
    BY <2>1, <2>2, <2>3 DEF FundingInv, OrdersInv, OneOpen
<1>11. EscrowOK'
  BY <1>7, EscrowKept DEF vars, escrow, token
<1>12. OpeningOK'
  BY <1>7, OpeningKept DEF Opened
<1> QED
  BY <1>4, <1>7, <1>9, <1>10, <1>11, <1>12, RevealedKept DEF OrdersInv

\* A call that has looked at an order goes on with it.
LEMMA ForgetfulCall ==
  ASSUME FundingInv, NEW k \in Calls, NEW q \in Requests, NEW stage \in {"revive", "ensure"},
         GotoForgetting(k, q, stage), Ordered(q), stage = "ensure" => q \in OneClick
  PROVE  CallsTyped' /\ QuotesGoOn /\ (Lawful => CallsInv')
<1>1. PICK x : x = Forgetting(q, stage)
  OBVIOUS
<1>2. x \in Call /\ x.q = q /\ x.stage = stage /\ ~x.fresh /\ calls' = [Stale(k) EXCEPT ![k] = x]
  BY <1>1, CallForgets DEF CallStages
<1>3. CallsTyped' /\ QuotesGoOn
  <2>1. /\ CallsTyped' /\ calls'[k] = x
        /\ \A l \in Calls \ {k} : InCall(l, Quoting)' => InCall(l, Quoting) /\ calls'[l].q = calls[l].q
    BY <1>2, Typed, CallMoved DEF FundingInv
  <2> QED
    BY <1>2, <2>1 DEF QuotesGoOn, InCall, Quoting
<1>4. ASSUME Lawful
      PROVE  CallsInv'
  <2>1. Ordered(q)'
    BY <1>4 DEF Lawful, Grows, OrderGrows
  <2>2. CallOK(x)'
    BY <1>2, <2>1, ForgottenOK
  <2> QED
    BY <1>2, <1>4, <2>2, CallSet
<1> QED
  BY <1>3, <1>4

\* A call rewrites an order.
LEMMA RewritingCall ==
  ASSUME FundingInv, UNCHANGED <<vars, jobs, cstatus, terms, reservations, provider, revealed, runs>>,
         NEW q \in Requests, NEW row, Rewrites(q, row), StatusOK(q)',
         CallsTyped', QuotesGoOn, Lawful => CallsInv'
  PROVE  FundingInv'
<1>1. JobsTyped' /\ JobsGrow /\ RunsTyped'
  BY Typed DEF FundingInv, JobsTyped, JobsGrow, RunsTyped
<1>2. /\ Lawful /\ OrdersInv' /\ EscrowOK' /\ OpeningOK' /\ RevealedInv'
      /\ \A p \in Requests : Ordered(p)' => Ordered(p)
  BY <1>1, OrderStep
<1>3. ReservationsOK'
  BY <1>2, ReservationsKept, Typed DEF FundingInv
<1> QED
  BY <1>2, <1>3, JobsUnmoved, RunsUnmoved DEF Lawful, FundingInv

LEMMA RecordDirectReceiptKeeps ==
  ASSUME FundingInv, NEW k \in Calls, NEW q \in Requests, RecordDirectReceipt(k, q)
  PROVE  FundingInv'
<1> DEFINE row == [orders[q] EXCEPT !.receipt = TRUE,
                       !.status = IF @ = "ALLOCATED" THEN @ ELSE "DEPOSIT_DETECTED"]
<1>1. /\ calls[k] = None /\ q \in Direct /\ Matches(q) /\ SetOrder(q, row)
      /\ orders[q].status \in {"AWAITING_DEPOSIT", "DEPOSIT_DETECTED", "EXPIRED", "ALLOCATED"}
      /\ UNCHANGED <<vars, jobs, cstatus, terms, reservations, provider, revealed, runs>>
      /\ GotoForgetting(k, q, "revive")
  BY DEF RecordDirectReceipt
<1>2. orders[q] \in OrderRow /\ CallsTyped /\ orders \in [Requests -> OrderRow]
  BY Typed DEF FundingInv, OrdersTyped
<1>3. /\ row \in OrderRow /\ row.terms = orders[q].terms /\ row.expires = orders[q].expires
      /\ row.status \in {"ALLOCATED", "DEPOSIT_DETECTED"}
      /\ row.status = "ALLOCATED" <=> orders[q].status = "ALLOCATED"
  BY <1>2 DEF OrderRow, OrderStatuses
<1> HIDE DEF row
<1>4. orders' = [orders EXCEPT ![q] = row] /\ (row.status \notin Closed => OpenOrders \subseteq {q})
  BY <1>1 DEF SetOrder
<1>5. Ordered(q) /\ orders[q].terms = terms /\ InEscrow(q)
  BY <1>1 DEF FundingInv, OrdersInv, OrderOK, Ordered, Matches, InEscrow
<1>6. ~GivenUp(q)
  BY <1>5 DEF GivenUp
<1>7. Rewrites(q, row)
  BY <1>3, <1>4, <1>5, <1>6 DEF Rewrites
<1>8. StatusOK(q)'
  <2>1. InEscrow(q)'
    BY <1>1, <1>2, <1>3, <1>4, <1>5 DEF InEscrow, vars, escrow
  <2>2. orders'[q].status \in {"ALLOCATED", "DEPOSIT_DETECTED"} /\ q \notin OneClick
    BY <1>1, <1>2, <1>3, <1>4 DEF Direct
  <2> QED
    BY <2>1, <2>2 DEF StatusOK
<1> QED
  BY <1>1, <1>5, <1>7, <1>8, ForgetfulCall, RewritingCall
LEMMA OpenAlone ==
  ASSUME FundingInv, NEW q \in Requests, orders[q].status \notin Closed
  PROVE  OpenOrders \subseteq {q}
  BY DEF FundingInv, OrdersInv, OneOpen, OpenOrders

\* An order that is open is rewritten with its observation.
LEMMA OpenRewritten ==
  ASSUME FundingInv, NEW q \in Requests, NEW row \in OrderRow, orders' = [orders EXCEPT ![q] = row],
         orders[q].status \notin Closed \cup {"ALLOCATED"}, row.status # "NONE",
         row.terms = orders[q].terms, row.expires = orders[q].expires
  PROVE  Rewrites(q, row)
<1>1. Ordered(q) /\ ~GivenUp(q) /\ OpenOrders \subseteq {q}
  BY OpenAlone DEF Ordered, GivenUp, Closed
<1> QED
  BY <1>1 DEF Rewrites

\* What the rail says of an order is a status that it may have.
LEMMA ObservedOK ==
  ASSUME FundingInv, NEW q \in Requests, UNCHANGED provider,
         orders'[q].status = Observed(q)
  PROVE  StatusOK(q)'
<1>1. StatusOK(q)
  BY DEF FundingInv, OrdersInv, OrderOK
<1>2. CASE q \in OneClick
  <2>1. orders'[q].status = provider[q] /\ provider'[q] = provider[q]
        /\ provider[q] \in {"AWAITING_DEPOSIT", "SETTLED", "FAILED"}
    BY <1>1, <1>2 DEF StatusOK, Observed
  <2> QED
    BY <1>2, <2>1 DEF StatusOK
<1>3. CASE q \notin OneClick
  BY <1>3 DEF StatusOK, Observed
<1> QED
  BY <1>2, <1>3

LEMMA RefreshFundingOrderKeeps ==
  ASSUME FundingInv, NEW k \in Calls, NEW q \in Requests, RefreshFundingOrder(k, q)
  PROVE  FundingInv'
<1> DEFINE past == q \in Direct /\ orders[q].status = "AWAITING_DEPOSIT" /\ now >= orders[q].expires + DirectGrace
           given == [orders[q] EXCEPT !.status = "EXPIRED"]
           seen == [orders[q] EXCEPT !.status = Observed(q), !.receipt = FALSE]
<1>1. /\ calls[k] = None /\ Ordered(q)
      /\ orders[q].status \notin {"NONE", "ALLOCATED", "REFUNDED", "FAILED"}
      /\ UNCHANGED <<vars, jobs, cstatus, terms, reservations, provider, revealed, runs>>
  BY DEF RefreshFundingOrder, Ordered
<1>2. \/ orders[q].status = "SETTLED" /\ UNCHANGED orders /\ GotoForgetting(k, q, "ensure")
      \/ orders[q].status = "EXPIRED" /\ q \in Direct /\ UNCHANGED orders /\ GotoForgetting(k, q, "revive")
      \/ past /\ orders' = [orders EXCEPT ![q] = given] /\ UNCHANGED calls
      \/ /\ orders[q].status \notin {"SETTLED", "EXPIRED"}
         /\ orders' = [orders EXCEPT ![q] = seen]
         /\ \/ Observed(q) = "SETTLED" /\ GotoForgetting(k, q, "ensure")
            \/ UNCHANGED calls
  BY DEF RefreshFundingOrder
<1>3. orders[q] \in OrderRow /\ orders \in [Requests -> OrderRow] /\ CallsTyped /\ ProviderTyped /\ now \in Nat
  BY Typed DEF FundingInv, OrdersTyped, TypeOK
<1>4. UNCHANGED calls => CallsTyped' /\ QuotesGoOn /\ (Lawful => CallsInv')
  BY <1>1, <1>3, CallsUnmoved DEF CallsTyped, QuotesGoOn, InCall
<1>5. StatusOK(q)
  BY DEF FundingInv, OrdersInv, OrderOK
<1>6. CASE UNCHANGED orders /\ \E stage \in {"revive", "ensure"} :
               GotoForgetting(k, q, stage) /\ (stage = "ensure" => q \in OneClick)
  <2>1. CallsTyped' /\ QuotesGoOn /\ (Lawful => CallsInv')
    BY <1>1, <1>6, ForgetfulCall
  <2>2. ReservationsTyped' /\ revealed' \subseteq OneClick
    BY <1>1, <1>3, Typed DEF FundingInv, ReservationsTyped, ProviderTyped
  <2>3. Lawful /\ OrdersInv' /\ EscrowOK' /\ OpeningOK' /\ RunsInv'
    BY <1>1, <1>6, <2>1, <2>2, NothingEnqueued, QuietStep
  <2>4. ReservationsOK'
    BY <1>1, <1>3, <1>6, <2>1, ReservationsKept DEF FundingInv, Ordered
  <2> QED
    BY <1>1, <2>1, <2>3, <2>4, JobsUnmoved, RevealedKept DEF Lawful, FundingInv
<1>7. CASE past /\ orders' = [orders EXCEPT ![q] = given] /\ UNCHANGED calls
  <2>1. /\ given \in OrderRow /\ given.status = "EXPIRED"
        /\ given.terms = orders[q].terms /\ given.expires = orders[q].expires
    BY <1>3 DEF OrderRow, OrderStatuses
  <2>2. Rewrites(q, given)
    BY <1>7, <2>1, OpenRewritten DEF Closed
  <2>3. orders[q].expires \in Nat /\ DirectGrace \in Nat \ {0}
    BY <1>3, FundingAssumption DEF OrderRow
  <2>4. UNCHANGED now
    BY <1>1 DEF vars
  <2>5. now > orders[q].expires
    BY <1>3, <1>7, <2>3
  <2>6. orders'[q] = given
    BY <1>3, <1>7
  <2> HIDE DEF given
  <2>7. StatusOK(q)'
    BY <1>7, <2>1, <2>4, <2>5, <2>6 DEF StatusOK, Direct
  <2> QED
    BY <1>1, <1>4, <1>7, <2>2, <2>7, RewritingCall
<1>8. CASE /\ orders[q].status \notin {"SETTLED", "EXPIRED"}
           /\ orders' = [orders EXCEPT ![q] = seen]
           /\ \/ Observed(q) = "SETTLED" /\ GotoForgetting(k, q, "ensure")
              \/ UNCHANGED calls
  <2>1. Observed(q) \in {"AWAITING_DEPOSIT", "SETTLED", "FAILED"}
        /\ (Observed(q) = "SETTLED" => q \in OneClick)
    BY <1>5 DEF StatusOK, Observed
  <2>2. /\ seen \in OrderRow /\ seen.status = Observed(q)
        /\ seen.terms = orders[q].terms /\ seen.expires = orders[q].expires
    BY <1>3, <2>1 DEF OrderRow, OrderStatuses
  <2>3. orders'[q] = seen
    BY <1>3, <1>8
  <2> HIDE DEF seen
  <2>4. Rewrites(q, seen)
    BY <1>1, <1>8, <2>1, <2>2, OpenRewritten DEF Closed
  <2>5. StatusOK(q)'
    BY <1>1, <2>2, <2>3, ObservedOK
  <2>6. CallsTyped' /\ QuotesGoOn /\ (Lawful => CallsInv')
    BY <1>1, <1>4, <1>8, <2>1, ForgetfulCall
  <2> QED
    BY <1>1, <2>4, <2>5, <2>6, RewritingCall
<1>9. orders[q].status = "SETTLED" => q \in OneClick
  BY <1>5 DEF StatusOK
<1> HIDE DEF past, given, seen
<1> QED
  BY <1>2, <1>6, <1>7, <1>8, <1>9
-----------------------------------------------------------------------------
(* The draft changes, and the first order freezes it.                        *)

LEMMA StaleCalls ==
  ASSUME FundingInv, calls' = Stale(None)
  PROVE  CallsTyped' /\ QuotesGoOn
<1>1. CallsTyped /\ \A l \in Calls : l # None
  BY Typed, AbsenceAssumption DEF FundingInv
<1>2. \A l \in Calls : calls'[l] \in Call \cup {None}
  BY <1>1, StaleFacts
<1>3. CallsTyped'
  BY <1>2 DEF CallsTyped, Stale
<1>4. ASSUME NEW l \in Calls, InCall(l, Quoting)'
      PROVE  InCall(l, Quoting) /\ calls'[l].q = calls[l].q
  <2>1. calls'[l] # None /\ calls'[l].stage \in Quoting
    BY <1>4 DEF InCall
  <2> QED
    BY <1>1, <2>1, StaleFacts DEF InCall
<1> QED
  BY <1>3, <1>4 DEF QuotesGoOn

LEMMA PatchCampaignKeeps ==
  ASSUME FundingInv, NEW spec \in Specs, PatchCampaign(spec)
  PROVE  FundingInv'
<1>1. /\ cstatus = "DRAFT" /\ terms' = spec /\ calls' = Stale(None)
      /\ UNCHANGED <<vars, jobs, cstatus, orders, reservations, provider, revealed, runs>>
  BY DEF PatchCampaign
<1>2. CallsTyped' /\ QuotesGoOn
  BY <1>1, StaleCalls
<1>3. FundingTypeOK'
  <2>1. /\ TypeOK /\ JobsTyped /\ CampaignTyped /\ OrdersTyped /\ ReservationsTyped
        /\ ProviderTyped /\ RunsTyped
    BY Typed DEF FundingInv
  <2>2. TypeOK'
    BY <1>1, <2>1, TypeKept
  <2> QED
    BY <1>1, <1>2, <2>1, <2>2, TypedNext
       DEF JobsTyped, CampaignTyped, OrdersTyped, ReservationsTyped, ProviderTyped, RunsTyped
<1>4. \A q \in Requests : ~Ordered(q) /\ ~Ordered(q)'
  BY <1>1 DEF FundingInv, OrdersInv, OrderOK, Ordered
<1>5. Lawful
  <2>1. JobsGrow /\ (Opened => Opened')
    BY <1>1 DEF JobsGrow, Opened
  <2>2. Grows
    BY <1>1, <1>4, <2>1, LedgerGrows
  <2> QED
    BY <1>3, <2>2 DEF Lawful
<1>6. OrdersInv' /\ JobsInv' /\ RunsInv' /\ RevealedInv' /\ CallsInv'
  BY <1>1, <1>5, OrdersKept, JobsUnmoved, RunsUnmoved, RevealedKept, CallsStale
<1>7. EscrowOK' /\ OpeningOK'
  <2>1. UNCHANGED <<campaigns, authorizations, pending, inbound>> /\ (Opened' => Opened)
    BY <1>1 DEF vars, escrow, token, Opened
  <2> QED
    BY <1>5, <2>1, EscrowKept, OpeningKept
<1>8. ReservationsOK'
  BY <1>1, <1>2, <1>4, ReservationsKept, Typed DEF FundingInv
<1> QED
  BY <1>3, <1>6, <1>7, <1>8 DEF FundingInv

\* An order for the terms of the campaign, which is frozen with it or was before.
LEMMA InsertOrderKeeps ==
  ASSUME FundingInv, NEW k \in Calls, InCall(k, {"reserved"}), InsertOrder(k),
         calls[k].terms = terms,
         \/ cstatus # "DRAFT" /\ UNCHANGED cstatus
         \/ cstatus = "DRAFT" /\ cstatus' = "FUNDING"
  PROVE  FundingInv'
<1>1. PICK c \in Call : c = calls[k]
  BY CallFacts DEF InCall
<1>2. PICK q \in Requests : q = c.q
  BY <1>1 DEF Call
<1>3. PICK row : row = NewOrder(c)
  OBVIOUS
<1>4. /\ ~Ordered(q) /\ orders' = [orders EXCEPT ![q] = row]
      /\ row.status \notin Closed => OpenOrders \subseteq {q}
      /\ UNCHANGED <<vars, jobs, terms, reservations, provider, revealed, runs>>
      /\ GotoForgetting(k, q, "created")
  BY <1>1, <1>2, <1>3 DEF InsertOrder, SetOrder, Ordered
<1>5. /\ TypeOK /\ JobsTyped /\ CampaignTyped /\ OrdersTyped /\ ReservationsTyped
      /\ ProviderTyped /\ CallsTyped /\ RunsTyped
  BY Typed DEF FundingInv
<1>6. row \in OrderRow /\ row.status = "AWAITING_DEPOSIT" /\ row.terms = terms
  <2>1. c.at \in Nat /\ c.terms \in Specs
    BY <1>1, <1>5 DEF Call, CampaignTyped
  <2> QED
    BY <1>1, <1>3, <2>1, FundingAssumption DEF NewOrder, OrderRow, OrderStatuses
<1>7. OrdersTyped' /\ orders'[q] = row /\ \A p \in Requests \ {q} : orders'[p] = orders[p]
  BY <1>4, <1>5, <1>6 DEF OrdersTyped
<1>8. PICK x : x = Forgetting(q, "created")
  OBVIOUS
<1>9. x \in Call /\ x.q = q /\ x.stage = "created" /\ ~x.fresh /\ calls' = [Stale(k) EXCEPT ![k] = x]
  BY <1>4, <1>8, CallForgets DEF CallStages
<1>10. /\ CallsTyped' /\ calls'[k] = x
       /\ \A l \in Calls \ {k} : InCall(l, Quoting)' => InCall(l, Quoting) /\ calls'[l].q = calls[l].q
  BY <1>5, <1>9, CallMoved
<1>11. FundingTypeOK'
  <2>1. TypeOK'
    BY <1>4, <1>5, TypeKept
  <2>2. CampaignTyped'
    BY <1>4, <1>5 DEF CampaignTyped
  <2> QED
    BY <1>4, <1>5, <1>7, <1>10, <2>1, <2>2, TypedNext
       DEF JobsTyped, ReservationsTyped, ProviderTyped, RunsTyped
<1>12. cstatus' # "DRAFT" /\ (Opened <=> Opened')
  BY DEF Opened
<1>13. \A p \in Requests : Ordered(p)' <=> Ordered(p) \/ p = q
  BY <1>6, <1>7 DEF Ordered
<1>14. Lawful
  <2>1. \A p \in Requests : Ordered(p) => p # q
    BY <1>4
  <2>2. JobsGrow
    BY <1>4 DEF JobsGrow
  <2>3. Grows
    BY <1>4, <1>7, <1>12, <1>13, <2>1, <2>2, LedgerGrows
  <2> QED
    BY <1>11, <2>3 DEF Lawful
<1>15. OrdersInv'
  <2>1. StatusOK(q)'
    <3>1. q \in OneClick => provider'[q] \in {"AWAITING_DEPOSIT", "SETTLED", "FAILED"}
      BY <1>4 DEF FundingInv, OrdersInv, OrderOK, StatusOK
    <3> QED
      BY <1>6, <1>7, <3>1 DEF StatusOK
  <2>2. OrderOK(q)'
    BY <1>4, <1>6, <1>7, <1>12, <1>13, <2>1 DEF OrderOK
  <2>3. \A p \in Requests : OrderOK(p)'
    BY <1>7, <1>14, <2>2, OrderStays
  <2>4. OneOpen'
    <3>1. OpenOrders \subseteq {q}
      BY <1>4, <1>6 DEF Closed
    <3>2. OpenOrders' \subseteq {q}
      BY <1>7, <3>1 DEF OpenOrders
    <3> QED
      BY <3>2 DEF OneOpen
  <2> QED
    BY <2>3, <2>4 DEF OrdersInv
<1>16. EscrowOK' /\ OpeningOK'
  <2>1. UNCHANGED <<campaigns, authorizations, pending, inbound>>
    BY <1>4 DEF vars, escrow, token
  <2> QED
    BY <1>12, <1>14, <2>1, EscrowKept, OpeningKept
<1>17. CallsInv'
  <2>1. CallOK(x)'
    BY <1>9, <1>13, ForgottenOK
  <2> QED
    BY <1>9, <1>14, <2>1, CallSet
<1>18. ReservationsOK'
  <2>1. InCall(k, Quoting) /\ calls[k].q = q
    BY <1>1, <1>2 DEF InCall, Quoting
  <2>2. QuotesGoOn
    BY <1>9, <1>10, <2>1 DEF QuotesGoOn, InCall
  <2> QED
    BY <1>4, <1>5, <1>13, <2>1, <2>2, ReservationsKept DEF FundingInv
<1> QED
  BY <1>4, <1>11, <1>14, <1>15, <1>16, <1>17, <1>18, JobsUnmoved, RunsUnmoved, RevealedKept
     DEF FundingInv

LEMMA CreateOrderAndFreezeKeeps ==
  ASSUME FundingInv, NEW k \in Calls, CreateOrderAndFreeze(k)
  PROVE  FundingInv'
<1>1. calls[k].terms = terms
  BY CallFacts DEF CreateOrderAndFreeze, InCall, CallOK
<1> QED
  BY <1>1, InsertOrderKeeps DEF CreateOrderAndFreeze

LEMMA CreateOrderKeeps ==
  ASSUME FundingInv, NEW k \in Calls, CreateOrder(k)
  PROVE  FundingInv'
<1>1. calls[k].terms = terms /\ cstatus # "DRAFT"
  BY CallFacts DEF CreateOrder, InCall, CallOK
<1> QED
  BY <1>1, InsertOrderKeeps DEF CreateOrder

\* The services, one call at a time.
LEMMA ServiceKeeps ==
  ASSUME FundingInv, NEW k \in Calls, Service(k)
  PROVE  FundingInv'
<1>1. ASSUME NEW q \in Requests,
             \/ LoadCampaign(k, q) \/ VerifyAuthorization(k, q)
             \/ RecordDirectReceipt(k, q) \/ RefreshFundingOrder(k, q)
      PROVE  FundingInv'
  BY <1>1, LoadCampaignKeeps, VerifyAuthorizationKeeps, RecordDirectReceiptKeeps,
     RefreshFundingOrderKeeps
<1> QED
  BY <1>1, ReserveKeeps, RecoverKeeps, CreateOrderAndFreezeKeeps, CreateOrderKeeps,
     EnqueueReconciliationKeeps, CompleteQuoteKeeps, FailQuoteKeeps, ReviveReconciliationKeeps,
     EndCallKeeps, PersistVerificationKeeps, EnsureAllocationKeeps
     DEF Service
-----------------------------------------------------------------------------
(* The worker: jobs and runs.                                               *)

RunStages == {"leased", "ensure", "activate", "verify", "campaign", "order", "lifecycle",
              "done", "again"}

\* The run that moves.
LEMMA RunFacts ==
  ASSUME FundingInv, NEW w \in Workers, runs[w] # None
  PROVE  /\ runs[w] \in Run /\ RunOK(runs[w])
         /\ runs[w].job \in Keys /\ RequestOf(w) \in Requests
         /\ JobOf(w, "allocate") => RequestOf(w) \in OneClick
<1>1. runs[w] \in Run
  BY Typed DEF FundingInv, RunsTyped
<1>2. RunOK(runs[w])
  BY <1>1 DEF FundingInv, RunsInv
<1> QED
  BY <1>1, <1>2, KindsOfKeys DEF RunOK, Run, RequestOf, JobOf

LEMMA RunGoesOn ==
  ASSUME FundingInv, NEW w \in Workers, runs[w] # None, NEW stage \in RunStages, Goto(w, stage)
  PROVE  \E x \in Run : /\ x.stage = stage /\ x.job = runs[w].job /\ x.at = runs[w].at
                        /\ x.target = runs[w].target
                        /\ runs' = [runs EXCEPT ![w] = x]
<1> DEFINE x == [runs[w] EXCEPT !.stage = stage]
<1>1. runs[w] \in Run
  BY RunFacts
<1>2. x \in Run
  BY <1>1 DEF Run, RunStages
<1>3. runs' = [runs EXCEPT ![w] = x]
  BY DEF Goto
<1>4. /\ x.stage = stage /\ x.job = runs[w].job /\ x.at = runs[w].at
      /\ x.target = runs[w].target
  BY <1>1 DEF Run
<1> HIDE DEF x
<1> QED
  BY <1>2, <1>3, <1>4

LEMMA RunTargeted ==
  ASSUME FundingInv, NEW w \in Workers, runs[w] # None, GotoTarget(w)
  PROVE  \E x \in Run : /\ x.stage = "campaign" /\ x.job = runs[w].job /\ x.at = runs[w].at
                        /\ x.target \in {"SCHEDULED", "ACTIVE"}
                        /\ runs' = [runs EXCEPT ![w] = x]
<1> DEFINE target == IF ChainState = "Scheduled" THEN "SCHEDULED" ELSE "ACTIVE"
           x == [runs[w] EXCEPT !.stage = "campaign", !.target = target]
<1>1. runs[w] \in Run
  BY RunFacts
<1>2. runs' = [runs EXCEPT ![w] = x]
  BY DEF GotoTarget
<1>3. target \in {"SCHEDULED", "ACTIVE"}
  OBVIOUS
<1> HIDE DEF target
<1>4. x \in Run
  BY <1>1, <1>3 DEF Run
<1>5. /\ x.stage = "campaign" /\ x.job = runs[w].job /\ x.at = runs[w].at
      /\ x.target = target
  BY <1>1 DEF Run
<1> HIDE DEF x
<1> QED
  BY <1>2, <1>3, <1>4, <1>5

LEMMA RunsSetTyped ==
  ASSUME FundingInv, NEW w \in Workers, NEW x \in Run \cup {None}, runs' = [runs EXCEPT ![w] = x]
  PROVE  RunsTyped'
  BY Typed DEF FundingInv, RunsTyped

\* No call moves, and no quote is made.
LEMMA CallsAtRest ==
  ASSUME FundingInv, UNCHANGED <<calls, reservations>>,
         \A q \in Requests : Ordered(q)' => Ordered(q)
  PROVE  CallsTyped' /\ ReservationsOK'
<1>1. CallsTyped /\ CallsTyped'
  BY Typed DEF FundingInv, CallsTyped
<1>2. QuotesGoOn
  BY DEF QuotesGoOn, InCall
<1> QED
  BY <1>1, <1>2, ReservationsKept DEF FundingInv

\* A worker's step that writes no row but its job.
LEMMA WorkerStep ==
  ASSUME FundingInv, UNCHANGED <<vars, rows, provider, revealed, calls>>,
         JobsTyped', JobsGrow,
         NEW w \in Workers, NEW x \in Run \cup {None}, runs' = [runs EXCEPT ![w] = x],
         Lawful => JobsInv',
         Lawful /\ x \in Run /\ x # None => RunOK(x)'
  PROVE  FundingInv'
<1>1. UNCHANGED <<cstatus, terms, orders, reservations>>
  BY DEF rows
<1>2. CallsTyped' /\ ReservationsOK'
  BY <1>1, CallsAtRest DEF Ordered
<1>3. FundingTypeOK'
  <2>1. TypeOK' /\ RunsTyped'
    BY TypeKept, RunsSetTyped, Typed DEF FundingInv
  <2> QED
    BY <1>1, <1>2, <2>1, Typed, TypedNext
       DEF FundingInv, CampaignTyped, OrdersTyped, ReservationsTyped, ProviderTyped
<1>4. Lawful
  <2>1. Grows
    BY <1>1, LedgerGrows DEF Ordered, Opened
  <2> QED
    BY <1>3, <2>1 DEF Lawful
<1>5. EscrowOK' /\ OpeningOK'
  BY <1>1, <1>4, EscrowKept, OpeningKept DEF vars, escrow, token, Opened
<1>6. RunsInv'
  BY <1>4, RunSet
<1> QED
  BY <1>1, <1>2, <1>3, <1>4, <1>5, <1>6, OrdersKept, CallsUnmoved, RevealedKept DEF FundingInv

LEMMA LeaseJobKeeps ==
  ASSUME FundingInv, NEW w \in Workers, NEW k \in Keys, LeaseJob(w, k)
  PROVE  FundingInv'
<1> DEFINE x == [job |-> k, last |-> jobs[k].attempts + 1 >= MaxAttempts,
                 at |-> IF k[1] = "reconcile" /\ k[2] \in Direct THEN now ELSE 0,
                 stage |-> "leased", target |-> None]
           row == [status |-> "RUNNING", attempts |-> jobs[k].attempts + 1, owner |-> w]
<1>1. /\ k # LifecycleKey /\ jobs[k].status \in {"PENDING", "RUNNING"}
      /\ jobs[k].attempts < MaxAttempts
      /\ jobs' = [jobs EXCEPT ![k] = row] /\ runs' = [runs EXCEPT ![w] = x]
      /\ UNCHANGED <<vars, rows, provider, revealed, calls>>
  BY DEF LeaseJob, Leasable, Leased
<1>2. JobsTyped /\ now \in Nat /\ jobs[k] \in JobRow
  BY Typed DEF FundingInv, TypeOK, JobsTyped
<1>3. x \in Run /\ x.job = k /\ x.stage = "leased" /\ x.at \in Nat /\ x.at <= now
  BY <1>2 DEF Run
<1>4. PICK y \in Run : y = x
  BY <1>3
<1>5. row \in JobRow /\ row.status = "RUNNING"
  BY <1>1, <1>2, QueueAssumption DEF JobRow
<1> HIDE DEF x, row
<1>6. k[1] \in {"reconcile", "allocate"} /\ k[2] \in Requests /\ Ordered(k[2])
  BY <1>1, KindsOfKeys DEF FundingInv, JobsInv, JobOK
<1>7. Ordered(k[2])' /\ UNCHANGED now
  BY <1>1, <1>6 DEF Ordered, rows, vars
<1>8. JobsTyped' /\ JobsGrow /\ jobs'[k] = row
  BY <1>1, <1>2, <1>5 DEF JobsTyped, JobsGrow
<1>9. JobOK(k)'
  BY <1>5, <1>6, <1>7, <1>8 DEF JobOK
<1>10. RunOK(y)'
  BY <1>3, <1>6, <1>7, <1>4 DEF RunOK
<1> QED
  BY <1>1, <1>8, <1>4, <1>9, <1>10, JobSet, WorkerStep

\* A run gives its job up, or has done it.
LEMMA JobReleased ==
  ASSUME FundingInv, NEW w \in Workers, runs[w] # None,
         \/ UNCHANGED jobs
         \/ \E row \in JobRow :
               /\ row.status # "NONE"
               /\ row.status = "SUCCEEDED" => runs[w].stage = "done"
               /\ jobs' = [jobs EXCEPT ![runs[w].job] = row]
  PROVE  JobsTyped' /\ JobsGrow /\ (Lawful => JobsInv')
<1>1. CASE UNCHANGED jobs
  BY <1>1, NothingEnqueued, JobsUnmoved
<1>2. CASE ~UNCHANGED jobs
  <2>1. PICK row \in JobRow :
           /\ row.status # "NONE"
           /\ row.status = "SUCCEEDED" => runs[w].stage = "done"
           /\ jobs' = [jobs EXCEPT ![runs[w].job] = row]
    BY <1>2
  <2>2. PICK r \in Run : r = runs[w] /\ RunOK(r)
    BY RunFacts
  <2>3. PICK k \in Keys : k = r.job
    BY DEF Run
  <2>4. JobsTyped
    BY Typed DEF FundingInv
  <2>5. jobs'[k] = row /\ jobs' = [jobs EXCEPT ![k] = row] /\ JobsTyped' /\ JobsGrow
    BY <2>1, <2>2, <2>3, <2>4 DEF JobsTyped, JobsGrow
  <2>6. k[1] \in {"reconcile", "allocate"} /\ k[2] \in Requests /\ Ordered(k[2])
    BY <2>2, <2>3, KindsOfKeys DEF RunOK
  <2>7. ASSUME Lawful PROVE JobOK(k)'
    <3>1. Ordered(k[2])'
      BY <2>6, <2>7 DEF Lawful, Grows, OrderGrows
    <3>2. row.status = "SUCCEEDED" /\ k[1] = "reconcile" => Concluded(k[2])'
      BY <2>1, <2>2, <2>3, <2>6, <2>7, ConcludedStays DEF RunOK
    <3> QED
      BY <2>5, <2>6, <3>1, <3>2 DEF JobOK
  <2> QED
    BY <2>5, <2>7, JobSet
<1> QED
  BY <1>1, <1>2

LEMMA RowFacts ==
  /\ Row("SUCCEEDED", 0) \in JobRow /\ Row("SUCCEEDED", 0).status = "SUCCEEDED"
  /\ Row("DEAD", 0) \in JobRow /\ Row("DEAD", 0).status = "DEAD"
  /\ \A n \in 0 .. MaxAttempts : Row("PENDING", n) \in JobRow /\ Row("PENDING", n).status = "PENDING"
  /\ 0 \in 0 .. MaxAttempts
  BY QueueAssumption DEF Row, JobRow

LEMMA FinishKeeps ==
  ASSUME FundingInv, NEW w \in Workers, Finish(w)
  PROVE  FundingInv'
<1>1. /\ runs[w] # None /\ runs' = [runs EXCEPT ![w] = None]
      /\ jobs' = IF runs[w].stage = "done" THEN Completed(runs[w].job, w)
                 ELSE Rescheduled(runs[w].job, w)
      /\ UNCHANGED <<vars, rows, provider, revealed, calls>>
  BY DEF Finish, At
<1>2. \/ UNCHANGED jobs
      \/ \E row \in JobRow :
            /\ row.status # "NONE"
            /\ row.status = "SUCCEEDED" => runs[w].stage = "done"
            /\ jobs' = [jobs EXCEPT ![runs[w].job] = row]
  BY <1>1, RowFacts DEF Completed, Rescheduled
<1> QED
  BY <1>1, <1>2, JobReleased, WorkerStep

LEMMA DieKeeps ==
  ASSUME FundingInv, NEW w \in Workers, Die(w)
  PROVE  FundingInv'
<1>1. /\ runs[w] # None /\ runs' = [runs EXCEPT ![w] = None]
      /\ jobs' = IF Owns(w, runs[w].job)
                 THEN [jobs EXCEPT ![runs[w].job] = Row("PENDING", jobs[runs[w].job].attempts)] ELSE jobs
      /\ UNCHANGED <<vars, rows, provider, revealed, calls>>
  BY DEF Die
<1>2. jobs[runs[w].job].attempts \in 0 .. MaxAttempts
  BY <1>1, RunFacts, Typed DEF FundingInv, JobsTyped, JobRow
<1>3. \/ UNCHANGED jobs
      \/ \E row \in JobRow :
            /\ row.status # "NONE"
            /\ row.status = "SUCCEEDED" => runs[w].stage = "done"
            /\ jobs' = [jobs EXCEPT ![runs[w].job] = row]
  BY <1>1, <1>2, RowFacts
<1> QED
  BY <1>1, <1>3, JobReleased, WorkerStep
\* A run that gets to another stage, with what it relies on there.
LEMMA RunStaged ==
  ASSUME Lawful, NEW r \in Run, RunOK(r), NEW x \in Run, x.job = r.job, x.at = r.at,
         NEW q, q = r.job[2],
         x.stage \in {"activate", "verify"} => r.job[1] = "allocate" /\ provider[q] = "SETTLED",
         x.stage = "ensure" => q \in OneClick,
         x.stage \in {"campaign", "order", "lifecycle"} => InEscrow(q),
         x.stage = "campaign" => x.target \in {"SCHEDULED", "ACTIVE"},
         x.stage \in {"order", "lifecycle"} => Opened',
         x.stage = "lifecycle" => orders'[q].status = "ALLOCATED",
         x.stage = "done" /\ x.job[1] = "reconcile" => Concluded(q)'
  PROVE  RunOK(x)'
<1>1. r.at \in Nat /\ now \in Nat /\ now' \in Nat /\ now <= now'
  BY Typed, TypedNext DEF Lawful, FundingInv, Grows, TypeOK, Run
<1>2. q \in Requests
  BY KindsOfKeys DEF RunOK, Run
<1>3. OrderGrows(q)
  BY <1>2 DEF Lawful, Grows
<1>4. x.stage \in {"activate", "verify"} => provider'[q] = "SETTLED"
  <2>1. r.job[1] = "allocate" => q \in OneClick
    BY KindsOfKeys DEF Run
  <2> QED
    BY <2>1, SettledStays
<1>5. x.at <= now'
  BY <1>1 DEF RunOK
<1> QED
  BY <1>3, <1>4, <1>5 DEF RunOK, OrderGrows

\* What matches the order is the order's prize in escrow.
LEMMA MatchedInEscrow ==
  ASSUME FundingInv, NEW q \in Requests, Ordered(q), Matches(q)
  PROVE  InEscrow(q)
  BY DEF FundingInv, OrdersInv, OrderOK, Matches, InEscrow

\* What has failed is not in escrow: a routed prize is paid for before it gets there.
LEMMA FailedNotInEscrow ==
  ASSUME FundingInv, NEW q \in OneClick, provider[q] = "FAILED"
  PROVE  ~InEscrow(q)
  BY RequestFacts DEF FundingInv, EscrowOK, InEscrow

\* A run that reads, and goes on.
LEMMA ReadingRun ==
  ASSUME FundingInv, UNCHANGED <<vars, jobs, rows, provider, revealed, calls>>,
         NEW w \in Workers, NEW x \in Run \cup {None}, runs' = [runs EXCEPT ![w] = x],
         Lawful /\ x \in Run /\ x # None => RunOK(x)'
  PROVE  FundingInv'
  BY NothingEnqueued, JobsUnmoved, WorkerStep

\* A run that writes its order.
LEMMA RewritingRun ==
  ASSUME FundingInv, UNCHANGED <<vars, cstatus, terms, reservations, provider, revealed, calls>>,
         JobsTyped', JobsGrow, Lawful => JobsInv',
         NEW q \in Requests, NEW row, Rewrites(q, row), StatusOK(q)',
         NEW w \in Workers, NEW x \in Run \cup {None}, runs' = [runs EXCEPT ![w] = x],
         Lawful /\ x \in Run /\ x # None => RunOK(x)'
  PROVE  FundingInv'
<1>1. CallsTyped'
  BY Typed DEF FundingInv, CallsTyped
<1>2. RunsTyped'
  BY RunsSetTyped
<1>3. /\ Lawful /\ OrdersInv' /\ EscrowOK' /\ OpeningOK' /\ RevealedInv'
      /\ \A p \in Requests : Ordered(p)' => Ordered(p)
  BY <1>1, <1>2, OrderStep
<1>4. RunsInv'
  BY <1>3, RunSet
<1> QED
  BY <1>3, <1>4, CallsAtRest, CallsUnmoved DEF Lawful, FundingInv

\* An order gets another status.
LEMMA StatusWritten ==
  ASSUME FundingInv, NEW q \in Requests, NEW status \in OrderStatuses,
         orders' = [orders EXCEPT ![q].status = status]
  PROVE  \E row \in OrderRow : /\ row.status = status /\ row.terms = orders[q].terms
                               /\ row.expires = orders[q].expires
                               /\ orders' = [orders EXCEPT ![q] = row] /\ orders'[q] = row
<1> DEFINE row == [orders[q] EXCEPT !.status = status]
<1>1. orders[q] \in OrderRow /\ orders \in [Requests -> OrderRow]
  BY Typed DEF FundingInv, OrdersTyped
<1>2. /\ row \in OrderRow /\ row.status = status /\ row.terms = orders[q].terms
      /\ row.expires = orders[q].expires
  BY <1>1 DEF OrderRow
<1>3. orders' = [orders EXCEPT ![q] = row]
  OBVIOUS
<1> HIDE DEF row
<1>4. orders'[q] = row
  BY <1>1, <1>3
<1> QED
  BY <1>2, <1>3, <1>4

LEMMA ThrowKeeps ==
  ASSUME FundingInv, NEW w \in Workers, Throw(w)
  PROVE  FundingInv'
<1>1. /\ runs[w] # None /\ runs' = [runs EXCEPT ![w] = None]
      /\ jobs' = Failed(runs[w].job, w)
      /\ UNCHANGED <<vars, cstatus, terms, reservations, provider, revealed, calls>>
  BY DEF Throw
<1>2. \/ UNCHANGED jobs
      \/ \E row \in JobRow :
            /\ row.status # "NONE"
            /\ row.status = "SUCCEEDED" => runs[w].stage = "done"
            /\ jobs' = [jobs EXCEPT ![runs[w].job] = row]
  <2>1. jobs[runs[w].job].attempts \in 0 .. MaxAttempts
    BY <1>1, RunFacts, Typed DEF FundingInv, JobsTyped, JobRow
  <2>2. CASE ~Owns(w, runs[w].job)
    BY <1>1, <2>2 DEF Failed
  <2>3. CASE Owns(w, runs[w].job)
    <3>1. \/ jobs' = [jobs EXCEPT ![runs[w].job] = Row("DEAD", 0)]
          \/ jobs' = [jobs EXCEPT ![runs[w].job] = Row("PENDING", jobs[runs[w].job].attempts)]
      BY <1>1, <2>3 DEF Failed
    <3> QED
      BY <2>1, <3>1, RowFacts
  <2> QED
    BY <2>2, <2>3
<1>3. JobsTyped' /\ JobsGrow /\ (Lawful => JobsInv')
  BY <1>1, <1>2, JobReleased
<1>4. CASE UNCHANGED orders
  BY <1>1, <1>3, <1>4, WorkerStep DEF rows
<1>5. CASE ~UNCHANGED orders
  <2>1. PICK q \in Requests : q = RequestOf(w)
    BY <1>1, RunFacts
  <2>2. /\ q \in OneClick /\ orders[q].status = "ALLOCATING"
        /\ orders' = [orders EXCEPT ![q].status = "INCOMPLETE"]
    BY <1>1, <1>5, <2>1, RunFacts DEF Throw
  <2>3. PICK row \in OrderRow :
           /\ row.status = "INCOMPLETE" /\ row.terms = orders[q].terms
           /\ row.expires = orders[q].expires
           /\ orders' = [orders EXCEPT ![q] = row] /\ orders'[q] = row
    BY <2>2, StatusWritten DEF OrderStatuses
  <2>4. Rewrites(q, row)
    BY <2>2, <2>3, OpenRewritten DEF Closed
  <2>5. StatusOK(q)'
    BY <1>1, <2>2, <2>3 DEF FundingInv, OrdersInv, OrderOK, StatusOK
  <2> QED
    BY <1>1, <1>3, <2>4, <2>5, RewritingRun
<1> QED
  BY <1>4, <1>5

\* A run that finds the prize of its order in escrow goes on to record it.
LEMMA EscrowFound ==
  ASSUME FundingInv, NEW w \in Workers, runs[w] # None, Escrowed(RequestOf(w)), GotoTarget(w),
         UNCHANGED <<vars, jobs, rows, provider, revealed, calls>>
  PROVE  FundingInv'
<1>1. PICK r \in Run : r = runs[w] /\ RunOK(r)
  BY RunFacts
<1>2. PICK q \in Requests : q = RequestOf(w) /\ q = r.job[2]
  BY <1>1, RunFacts DEF RequestOf
<1>3. InEscrow(q)
  BY <1>1, <1>2, MatchedInEscrow DEF Escrowed, RunOK
<1>4. PICK x \in Run : /\ x.stage = "campaign" /\ x.job = r.job /\ x.at = r.at
                       /\ x.target \in {"SCHEDULED", "ACTIVE"}
                       /\ runs' = [runs EXCEPT ![w] = x]
  BY <1>1, RunTargeted
<1>5. Lawful => RunOK(x)'
  BY <1>1, <1>2, <1>3, <1>4, RunStaged
<1> QED
  BY <1>4, <1>5, ReadingRun

LEMMA StartAllocationKeeps ==
  ASSUME FundingInv, NEW w \in Workers, StartAllocation(w)
  PROVE  FundingInv'
<1>1. /\ runs[w] # None /\ JobOf(w, "allocate")
      /\ UNCHANGED <<vars, jobs, cstatus, terms, reservations, provider, revealed, calls>>
  BY DEF StartAllocation, At
<1>2. CASE Escrowed(RequestOf(w)) /\ UNCHANGED orders /\ GotoTarget(w)
  BY <1>1, <1>2, EscrowFound DEF rows
<1>3. CASE /\ orders[RequestOf(w)].status = "SETTLED"
           /\ orders' = [orders EXCEPT ![RequestOf(w)].status = "ALLOCATING"]
           /\ Goto(w, "activate")
  <2>1. PICK r \in Run : r = runs[w] /\ RunOK(r) /\ r.job[1] = "allocate"
    BY <1>1, RunFacts DEF JobOf
  <2>2. PICK q \in Requests : q = RequestOf(w) /\ q = r.job[2] /\ q \in OneClick
    BY <1>1, <2>1, RunFacts DEF RequestOf
  <2>3. PICK row \in OrderRow :
           /\ row.status = "ALLOCATING" /\ row.terms = orders[q].terms
           /\ row.expires = orders[q].expires
           /\ orders' = [orders EXCEPT ![q] = row] /\ orders'[q] = row
    BY <1>3, <2>2, StatusWritten DEF OrderStatuses
  <2>4. Rewrites(q, row)
    BY <1>3, <2>2, <2>3, OpenRewritten DEF Closed
  <2>5. provider[q] = "SETTLED"
    BY <1>3, <2>2 DEF FundingInv, OrdersInv, OrderOK, StatusOK
  <2>6. StatusOK(q)'
    BY <1>1, <2>2, <2>3, <2>5 DEF StatusOK
  <2>7. PICK x \in Run : /\ x.stage = "activate" /\ x.job = r.job /\ x.at = r.at
                         /\ runs' = [runs EXCEPT ![w] = x]
    BY <1>1, <1>3, <2>1, RunGoesOn DEF RunStages
  <2>8. Lawful => RunOK(x)'
    BY <2>1, <2>2, <2>5, <2>7, RunStaged
  <2> QED
    BY <1>1, <2>4, <2>6, <2>7, <2>8, NothingEnqueued, JobsUnmoved, RewritingRun
<1> QED
  BY <1>2, <1>3 DEF StartAllocation

LEMMA VerifyAllocationKeeps ==
  ASSUME FundingInv, NEW w \in Workers, VerifyAllocation(w)
  PROVE  FundingInv'
  BY EscrowFound DEF VerifyAllocation, At

LEMMA ReconcileEscrowedKeeps ==
  ASSUME FundingInv, NEW w \in Workers, ReconcileEscrowed(w)
  PROVE  FundingInv'
  BY EscrowFound DEF ReconcileEscrowed, InReconciliation, At
\* transitionAllocationLedger, the campaign: it is opened for the prize that was found.
LEMMA RecordCampaignKeeps ==
  ASSUME FundingInv, NEW w \in Workers, RecordCampaign(w)
  PROVE  FundingInv'
<1> DEFINE x == [runs[w] EXCEPT !.stage = "order", !.target = None]
<1>1. /\ runs[w] # None /\ runs[w].stage = "campaign" /\ cstatus' = runs[w].target
      /\ UNCHANGED <<vars, jobs, terms, orders, reservations, provider, revealed>>
      /\ calls' = Stale(None) /\ runs' = [runs EXCEPT ![w] = x]
  BY DEF RecordCampaign, At
<1>2. PICK r \in Run : r = runs[w] /\ RunOK(r)
  BY <1>1, RunFacts
<1>3. PICK q \in Requests : q = r.job[2] /\ Ordered(q) /\ InEscrow(q)
  BY <1>1, <1>2, RunFacts DEF RequestOf, RunOK
<1>4. PICK y \in Run : y = x /\ y.stage = "order" /\ y.job = r.job /\ y.at = r.at
  <2>1. x \in Run /\ x.stage = "order" /\ x.job = r.job /\ x.at = r.at
    BY <1>2 DEF Run
  <2> HIDE DEF x
  <2> QED
    BY <2>1
<1> HIDE DEF x
<1>5. Opened' /\ cstatus' # "DRAFT" /\ cstatus' \in {"SCHEDULED", "ACTIVE"}
  BY <1>1, <1>2 DEF RunOK, Opened
<1>6. CallsTyped' /\ QuotesGoOn
  BY <1>1, StaleCalls
<1>7. RunsTyped'
  BY <1>1, <1>4, RunsSetTyped
<1>8. FundingTypeOK'
  <2>1. /\ TypeOK /\ JobsTyped /\ CampaignTyped /\ OrdersTyped /\ ReservationsTyped
        /\ ProviderTyped
    BY Typed DEF FundingInv
  <2>2. TypeOK'
    BY <1>1, <2>1, TypeKept
  <2>3. CampaignTyped'
    BY <1>1, <1>5, <2>1 DEF CampaignTyped
  <2> QED
    BY <1>1, <1>6, <1>7, <2>1, <2>2, <2>3, TypedNext
       DEF JobsTyped, OrdersTyped, ReservationsTyped, ProviderTyped
<1>9. Lawful
  <2>1. Grows
    BY <1>1, <1>5, NothingEnqueued, LedgerGrows DEF Ordered
  <2> QED
    BY <1>8, <2>1 DEF Lawful
<1>10. OrdersInv' /\ JobsInv' /\ RevealedInv' /\ CallsInv'
  BY <1>1, <1>9, OrdersKept, JobsUnmoved, RevealedKept, CallsStale
<1>11. EscrowOK'
  BY <1>1, <1>9, EscrowKept DEF vars, escrow, token
<1>12. OpeningOK'
  BY <1>3, <1>9 DEF Lawful, Grows, OrderGrows, OpeningOK
<1>13. RunOK(y)'
  BY <1>2, <1>3, <1>4, <1>5, <1>9, RunStaged
<1>14. RunsInv'
  BY <1>1, <1>4, <1>9, <1>13, RunSet
<1>15. ReservationsOK'
  BY <1>1, <1>6, ReservationsKept, Typed DEF FundingInv, Ordered
<1> QED
  BY <1>8, <1>10, <1>11, <1>12, <1>14, <1>15 DEF FundingInv

\* transitionAllocationLedger, the order.
LEMMA RecordOrderKeeps ==
  ASSUME FundingInv, NEW w \in Workers, RecordOrder(w)
  PROVE  FundingInv'
<1>1. PICK r \in Run : r = runs[w] /\ RunOK(r) /\ r.stage = "order" /\ runs[w] # None
  BY RunFacts DEF RecordOrder, At
<1>2. PICK q \in Requests : q = RequestOf(w) /\ q = r.job[2]
  BY <1>1, RunFacts DEF RequestOf
<1>3. Ordered(q) /\ InEscrow(q) /\ Opened
  BY <1>1, <1>2 DEF RunOK
<1> DEFINE written == [orders[q] EXCEPT !.status = "ALLOCATED"]
<1>4. /\ orders' = [orders EXCEPT ![q] = written]
      /\ written.status \notin Closed => OpenOrders \subseteq {q}
      /\ Goto(w, "lifecycle")
      /\ UNCHANGED <<vars, jobs, cstatus, terms, reservations, provider, revealed, calls>>
  BY <1>2 DEF RecordOrder, SetOrder
<1>5. PICK row \in OrderRow : /\ row = written /\ row.status = "ALLOCATED"
                              /\ row.terms = orders[q].terms /\ row.expires = orders[q].expires
                              /\ orders'[q] = row
  <2>1. orders[q] \in OrderRow /\ orders \in [Requests -> OrderRow]
    BY Typed DEF FundingInv, OrdersTyped
  <2>2. /\ written \in OrderRow /\ written.status = "ALLOCATED"
        /\ written.terms = orders[q].terms /\ written.expires = orders[q].expires
    BY <2>1 DEF OrderRow, OrderStatuses
  <2> HIDE DEF written
  <2> QED
    BY <1>4, <2>1, <2>2
<1> HIDE DEF written
<1>6. Rewrites(q, row)
  BY <1>3, <1>4, <1>5 DEF Rewrites, GivenUp
<1>7. StatusOK(q)'
  <2>1. InEscrow(q)'
    BY <1>3, <1>4, <1>5 DEF InEscrow, vars, escrow
  <2>2. q \in OneClick => provider'[q] \in {"AWAITING_DEPOSIT", "SETTLED", "FAILED"}
    BY <1>4 DEF FundingInv, OrdersInv, OrderOK, StatusOK
  <2> QED
    BY <1>5, <2>1, <2>2 DEF StatusOK
<1>8. PICK x \in Run : /\ x.stage = "lifecycle" /\ x.job = r.job /\ x.at = r.at
                       /\ runs' = [runs EXCEPT ![w] = x]
  BY <1>1, <1>4, RunGoesOn DEF RunStages
<1>9. Lawful => RunOK(x)'
  <2>1. Opened'
    BY <1>3, <1>4 DEF Opened
  <2> QED
    BY <1>1, <1>2, <1>3, <1>5, <1>8, <2>1, RunStaged
<1> QED
  BY <1>4, <1>6, <1>7, <1>8, <1>9, NothingEnqueued, JobsUnmoved, RewritingRun

LEMMA EnqueueLifecycleKeeps ==
  ASSUME FundingInv, NEW w \in Workers, EnqueueLifecycle(w)
  PROVE  FundingInv'
<1>1. PICK r \in Run : r = runs[w] /\ RunOK(r) /\ r.stage = "lifecycle" /\ runs[w] # None
  BY RunFacts DEF EnqueueLifecycle, At
<1>2. PICK q \in Requests : q = r.job[2]
  BY <1>1, RunFacts DEF RequestOf
<1>3. Opened /\ orders[q].status = "ALLOCATED"
  BY <1>1, <1>2 DEF RunOK
<1>4. /\ jobs' = Enqueued(LifecycleKey, FALSE) /\ Goto(w, "done")
      /\ UNCHANGED <<vars, rows, provider, revealed, calls>>
  BY DEF EnqueueLifecycle
<1>5. LifecycleKey \in Keys /\ LifecycleKey[1] = "lifecycle"
  BY KeyFacts
<1>6. /\ JobsTyped' /\ JobsGrow /\ jobs'[LifecycleKey].status # "NONE"
      /\ \A i \in Keys : i # LifecycleKey => jobs'[i] = jobs[i]
      /\ jobs'[LifecycleKey] = jobs[LifecycleKey] \/ jobs'[LifecycleKey].status = "PENDING"
  BY <1>4, <1>5, JobEnqueued, Typed DEF FundingInv
<1>7. Opened' /\ orders'[q].status = "ALLOCATED"
  BY <1>3, <1>4 DEF rows, Opened
<1>8. ASSUME Lawful PROVE JobsInv'
  <2>1. ASSUME NEW i \in Keys, i = LifecycleKey
        PROVE  JobOK(i)'
    BY <1>5, <1>6, <1>7, <2>1 DEF JobOK
  <2>2. ASSUME NEW i \in Keys, i # LifecycleKey
        PROVE  JobOK(i)'
    BY <1>6, <1>8, <2>2, JobStays
  <2> QED
    BY <2>1, <2>2 DEF JobsInv
<1>9. PICK x \in Run : /\ x.stage = "done" /\ x.job = r.job /\ x.at = r.at
                       /\ runs' = [runs EXCEPT ![w] = x]
  BY <1>1, <1>4, RunGoesOn DEF RunStages
<1>10. Concluded(q)'
  BY <1>6, <1>7 DEF Concluded, LifecycleKey
<1>11. Lawful => RunOK(x)'
  BY <1>1, <1>2, <1>9, <1>10, RunStaged
<1> QED
  BY <1>4, <1>6, <1>8, <1>9, <1>11, WorkerStep

LEMMA ReconcileTerminalKeeps ==
  ASSUME FundingInv, NEW w \in Workers, ReconcileTerminal(w)
  PROVE  FundingInv'
<1>1. PICK r \in Run : r = runs[w] /\ RunOK(r) /\ runs[w] # None
  BY RunFacts DEF ReconcileTerminal, InReconciliation, At
<1>2. PICK q \in Requests : q = r.job[2] /\ Terminal(q)
  BY <1>1, RunFacts DEF RequestOf, ReconcileTerminal
<1>3. UNCHANGED <<vars, jobs, rows, provider, revealed, calls>> /\ Goto(w, "done")
  BY DEF ReconcileTerminal
<1>4. StatusOK(q)
  BY DEF FundingInv, OrdersInv, OrderOK
<1>5. q \in OneClick /\ orders[q].status = "FAILED" /\ provider[q] = "FAILED"
  BY <1>2, <1>4 DEF StatusOK, Terminal, Direct
<1>6. Concluded(q)
  BY <1>5, FailedNotInEscrow DEF Concluded, GivenUp
<1>7. PICK x \in Run : /\ x.stage = "done" /\ x.job = r.job /\ x.at = r.at
                       /\ runs' = [runs EXCEPT ![w] = x]
  BY <1>1, <1>3, RunGoesOn DEF RunStages
<1>8. Lawful => RunOK(x)'
  BY <1>1, <1>2, <1>6, <1>7, ConcludedStays, RunStaged
<1> QED
  BY <1>3, <1>7, <1>8, ReadingRun

LEMMA ReconcileDirectKeeps ==
  ASSUME FundingInv, NEW w \in Workers, ReconcileDirect(w)
  PROVE  FundingInv'
<1>1. PICK r \in Run : r = runs[w] /\ RunOK(r) /\ runs[w] # None
  BY RunFacts DEF ReconcileDirect, InReconciliation, At
<1>2. PICK q \in Requests : q = RequestOf(w) /\ q = r.job[2]
  BY <1>1, RunFacts DEF RequestOf
<1>3. /\ q \in Direct /\ orders[q].status # "ALLOCATED" /\ campaigns[Id] = None
      /\ UNCHANGED <<vars, jobs, cstatus, terms, reservations, provider, revealed, calls>>
      /\ \/ orders[q].status = "EXPIRED" /\ UNCHANGED orders /\ Goto(w, "done")
         \/ /\ orders[q].status # "EXPIRED" /\ r.at >= orders[q].expires + DirectGrace
            /\ orders' = [orders EXCEPT ![q].status = "EXPIRED"] /\ Goto(w, "done")
         \/ UNCHANGED orders /\ Goto(w, "again")
  BY <1>1, <1>2 DEF ReconcileDirect
<1>4. q \notin OneClick /\ ~InEscrow(q) /\ Ordered(q) /\ StatusOK(q)
  BY <1>1, <1>2, <1>3 DEF Direct, InEscrow, RunOK, FundingInv, OrdersInv, OrderOK
<1>5. CASE orders[q].status = "EXPIRED" /\ UNCHANGED orders /\ Goto(w, "done")
  <2>1. PICK x \in Run : /\ x.stage = "done" /\ x.job = r.job /\ x.at = r.at
                         /\ runs' = [runs EXCEPT ![w] = x]
    BY <1>1, <1>5, RunGoesOn DEF RunStages
  <2>2. Concluded(q)
    BY <1>4, <1>5 DEF Concluded, GivenUp
  <2>3. Lawful => RunOK(x)'
    BY <1>1, <1>2, <2>1, <2>2, ConcludedStays, RunStaged
  <2> QED
    BY <1>3, <1>5, <2>1, <2>3, ReadingRun DEF rows
<1>6. CASE /\ orders[q].status # "EXPIRED" /\ r.at >= orders[q].expires + DirectGrace
           /\ orders' = [orders EXCEPT ![q].status = "EXPIRED"] /\ Goto(w, "done")
  <2>1. PICK row \in OrderRow :
           /\ row.status = "EXPIRED" /\ row.terms = orders[q].terms
           /\ row.expires = orders[q].expires
           /\ orders' = [orders EXCEPT ![q] = row] /\ orders'[q] = row
    BY <1>6, StatusWritten DEF OrderStatuses
  <2>2. Rewrites(q, row)
    BY <1>3, <1>4, <1>6, <2>1, OpenRewritten DEF StatusOK, Ordered, Closed
  <2>3. now' > orders'[q].expires
    <3>1. r.at \in Nat /\ now \in Nat /\ orders[q].expires \in Nat
      BY Typed DEF FundingInv, TypeOK, OrdersTyped, OrderRow, Run
    <3>2. DirectGrace \in Nat \ {0} /\ r.at <= now /\ UNCHANGED now
      BY <1>1, <1>3, FundingAssumption DEF RunOK, vars
    <3> QED
      BY <1>6, <2>1, <3>1, <3>2
  <2>4. StatusOK(q)'
    BY <1>4, <2>1, <2>3 DEF StatusOK
  <2>5. Concluded(q)'
    <3>1. ~InEscrow(q)'
      BY <1>3 DEF InEscrow, vars, escrow
    <3> QED
      BY <1>4, <2>1, <3>1 DEF Concluded, GivenUp
  <2>6. PICK x \in Run : /\ x.stage = "done" /\ x.job = r.job /\ x.at = r.at
                         /\ runs' = [runs EXCEPT ![w] = x]
    BY <1>1, <1>6, RunGoesOn DEF RunStages
  <2>7. Lawful => RunOK(x)'
    BY <1>1, <1>2, <2>5, <2>6, RunStaged
  <2> QED
    BY <1>3, <2>2, <2>4, <2>6, <2>7, NothingEnqueued, JobsUnmoved, RewritingRun
<1>7. CASE UNCHANGED orders /\ Goto(w, "again")
  <2>1. PICK x \in Run : /\ x.stage = "again" /\ x.job = r.job /\ x.at = r.at
                         /\ runs' = [runs EXCEPT ![w] = x]
    BY <1>1, <1>7, RunGoesOn DEF RunStages
  <2>2. Lawful => RunOK(x)'
    BY <1>1, <1>2, <2>1, RunStaged
  <2> QED
    BY <1>3, <1>7, <2>1, <2>2, ReadingRun DEF rows
<1> QED
  BY <1>3, <1>5, <1>6, <1>7

LEMMA ReconcileRoutedKeeps ==
  ASSUME FundingInv, NEW w \in Workers, ReconcileRouted(w)
  PROVE  FundingInv'
<1>1. PICK r \in Run : r = runs[w] /\ RunOK(r) /\ runs[w] # None
  BY RunFacts DEF ReconcileRouted, InReconciliation, At
<1>2. PICK q \in Requests : q = RequestOf(w) /\ q = r.job[2]
  BY <1>1, RunFacts DEF RequestOf
<1>3. Ordered(q) /\ StatusOK(q)
  BY <1>1, <1>2 DEF RunOK, FundingInv, OrdersInv, OrderOK
<1> DEFINE status == IF orders[q].status = "SETTLED" THEN "SETTLED" ELSE provider[q]
<1>4. /\ q \in OneClick /\ orders[q].status # "ALLOCATED" /\ ~Terminal(q)
      /\ orders' = [orders EXCEPT ![q].status = status]
      /\ Goto(w, CASE status = "SETTLED" -> "ensure"
                   [] status \in {"REFUNDED", "FAILED"} -> "done"
                   [] OTHER -> "again")
      /\ UNCHANGED <<vars, jobs, cstatus, terms, reservations, provider, revealed, calls>>
  BY <1>2 DEF ReconcileRouted
<1>5. status = provider[q] /\ provider[q] \in {"AWAITING_DEPOSIT", "SETTLED", "FAILED"}
  BY <1>3, <1>4 DEF StatusOK
<1> HIDE DEF status
<1>6. PICK row \in OrderRow :
         /\ row.status = status /\ row.terms = orders[q].terms
         /\ row.expires = orders[q].expires
         /\ orders' = [orders EXCEPT ![q] = row] /\ orders'[q] = row
  <2>1. status \in OrderStatuses
    BY <1>5 DEF OrderStatuses
  <2> QED
    BY <1>4, <2>1, StatusWritten
<1>7. Rewrites(q, row)
  <2>1. orders[q].status \notin Closed \cup {"ALLOCATED"}
    BY <1>3, <1>4 DEF StatusOK, Terminal, Ordered, Closed
  <2> QED
    BY <1>5, <1>6, <2>1, OpenRewritten
<1>8. StatusOK(q)'
  BY <1>4, <1>5, <1>6, ObservedOK DEF Observed
<1>9. PICK stage \in {"ensure", "done", "again"} :
         Goto(w, stage) /\ (stage = "done" => provider[q] = "FAILED")
  BY <1>4, <1>5
<1>10. PICK x \in Run : /\ x.stage = stage /\ x.job = r.job /\ x.at = r.at
                        /\ runs' = [runs EXCEPT ![w] = x]
  BY <1>1, <1>9, RunGoesOn DEF RunStages
<1>11. x.stage = "done" => Concluded(q)'
  <2>1. ASSUME x.stage = "done" PROVE Concluded(q)'
    <3>1. provider[q] = "FAILED" /\ orders'[q].status = "FAILED"
      BY <1>5, <1>6, <1>9, <1>10, <2>1
    <3>2. ~InEscrow(q)
      BY <1>4, <3>1, FailedNotInEscrow
    <3>3. ~InEscrow(q)'
      BY <1>4, <1>6, <3>2 DEF InEscrow, vars, escrow
    <3> QED
      BY <1>4, <3>1, <3>3 DEF Concluded, GivenUp
  <2> QED
    BY <2>1
<1>12. Lawful => RunOK(x)'
  BY <1>1, <1>2, <1>4, <1>9, <1>10, <1>11, RunStaged
<1> QED
  BY <1>4, <1>7, <1>8, <1>10, <1>12, NothingEnqueued, JobsUnmoved, RewritingRun

LEMMA EnsureAllocationJobKeeps ==
  ASSUME FundingInv, NEW w \in Workers, EnsureAllocationJob(w)
  PROVE  FundingInv'
<1>1. PICK r \in Run : r = runs[w] /\ RunOK(r) /\ r.stage = "ensure" /\ runs[w] # None
  BY RunFacts DEF EnsureAllocationJob, At
<1>2. PICK q \in OneClick : q = RequestOf(w) /\ q = r.job[2] /\ Ordered(q)
  BY <1>1 DEF RequestOf, RunOK
<1>3. /\ jobs' = Enqueued(AllocateKey(q), TRUE) /\ Goto(w, "again")
      /\ UNCHANGED <<vars, rows, provider, revealed, calls>>
  BY <1>2 DEF EnsureAllocationJob
<1>4. /\ AllocateKey(q) \in Keys /\ AllocateKey(q)[1] = "allocate" /\ AllocateKey(q)[2] = q
  BY KeyFacts
<1>5. JobsTyped' /\ JobsGrow
  BY <1>3, <1>4, JobEnqueued, Typed DEF FundingInv
<1>6. Ordered(q)'
  BY <1>2, <1>3 DEF Ordered, rows
<1>7. PICK k \in Keys : k = AllocateKey(q)
  BY <1>4
<1>8. Lawful => JobsInv'
  BY <1>3, <1>4, <1>6, <1>7, JobEnqueuedKeeps
<1>9. PICK x \in Run : /\ x.stage = "again" /\ x.job = r.job /\ x.at = r.at
                       /\ runs' = [runs EXCEPT ![w] = x]
  BY <1>1, <1>3, RunGoesOn DEF RunStages
<1>10. Lawful => RunOK(x)'
  BY <1>1, <1>2, <1>9, RunStaged
<1> QED
  BY <1>3, <1>5, <1>8, <1>9, <1>10, WorkerStep
-----------------------------------------------------------------------------
(* The escrow.                                                              *)

\* What any step of the chain may do: a campaign in escrow keeps its terms, amount and
\* reference, a new one is the prize of an order that is in time or paid for, an
\* authorization goes only with its reference, and what is new was asked for by an order.
EscrowMoves ==
    /\ used \subseteq used'
    /\ \/ campaigns'[Id] = campaigns[Id]
       \/ /\ campaigns[Id] # None /\ campaigns'[Id] # None
          /\ campaigns'[Id].spec = campaigns[Id].spec
          /\ campaigns'[Id].amount = campaigns[Id].amount
          /\ campaigns'[Id].reference = campaigns[Id].reference
       \/ /\ campaigns[Id] = None /\ campaigns'[Id] # None
          /\ \E q \in Requests :
                /\ Quoted(q, campaigns'[Id].spec, campaigns'[Id].amount, campaigns'[Id].reference)
                /\ q \in OneClick => provider[q] = "SETTLED"
                /\ q \notin OneClick => now <= orders[q].expires
    /\ \A r \in References :
          authorizations[r] # None => authorizations'[r] = authorizations[r] \/ r \in used'
    /\ \A r \in References, a \in Authorization :
          authorizations'[r] = a =>
             \/ authorizations[r] = a
             \/ /\ a.campaign.reference = r
                /\ \E q \in OneClick : Quoted(q, a.campaign.spec, a.campaign.amount, r)
    /\ \A r \in References, a \in Authorization :
          pending'[r] = a =>
             \/ pending[r] = a
             \/ /\ authorizations[r] = a
                /\ \E q \in OneClick :
                      Quoted(q, a.campaign.spec, a.campaign.amount, r) /\ provider[q] = "SETTLED"
    /\ \A t \in inbound' :
          \E q \in Direct : Quoted(q, t.spec, t.amount, t.reference) /\ t.deadline = orders[q].expires

LEMMA EscrowStill ==
  ASSUME FundingInv, UNCHANGED <<campaigns, used, authorizations, pending, inbound>>
  PROVE  EscrowMoves
  BY DEF FundingInv, EscrowOK, EscrowMoves

LEMMA ProviderGoes ==
  ASSUME UNCHANGED provider
  PROVE  \A q \in OneClick :
            \/ provider'[q] = provider[q]
            \/ provider[q] = "AWAITING_DEPOSIT" /\ provider'[q] \in {"SETTLED", "FAILED"}
  OBVIOUS

\* What happened to an order in escrow is not undone by a step of the chain, and an order
\* that was given up stays without its prize.
LEMMA EscrowGrows ==
  ASSUME FundingInv, EscrowMoves, UNCHANGED <<terms, orders>>, NEW q \in Requests
  PROVE  OrderGrows(q)
<1>1. OrderOK(q) /\ StatusOK(q)
  BY DEF FundingInv, OrdersInv, OrderOK
<1>2. now \in Nat /\ orders[q].expires \in Nat
  BY Typed DEF FundingInv, TypeOK, OrdersTyped, OrderRow
<1>3. InEscrow(q) => InEscrow(q)'
  BY DEF EscrowMoves, InEscrow
<1>4. ASSUME GivenUp(q), InEscrow(q)' PROVE FALSE
  <2>1. ~InEscrow(q) /\ campaigns'[Id] # None
    BY <1>4 DEF GivenUp, InEscrow
  <2>2. campaigns[Id] = None
    BY <1>4, <2>1 DEF EscrowMoves, InEscrow
  <2>3. PICK p \in Requests :
           /\ Quoted(p, campaigns'[Id].spec, campaigns'[Id].amount, campaigns'[Id].reference)
           /\ p \in OneClick => provider[p] = "SETTLED"
           /\ p \notin OneClick => now <= orders[p].expires
    BY <2>1, <2>2 DEF EscrowMoves
  <2>4. p = q
    BY <1>4, <2>3, RequestFacts DEF Quoted, InEscrow
  <2>5. CASE q \in OneClick
    BY <1>1, <1>4, <2>3, <2>4, <2>5 DEF GivenUp, StatusOK
  <2>6. CASE q \notin OneClick
    <3>1. now > orders[q].expires /\ now <= orders[q].expires
      BY <1>1, <1>4, <2>3, <2>4, <2>6 DEF GivenUp, StatusOK
    <3> QED
      BY <1>2, <3>1
  <2> QED
    BY <2>5, <2>6
<1>5. Committed(q) => Committed(q)'
  BY RequestFacts DEF EscrowMoves, Committed, Ordered
<1>6. GivenUp(q) => GivenUp(q)'
  BY <1>4 DEF GivenUp
<1> QED
  BY <1>3, <1>5, <1>6 DEF OrderGrows, Ordered

LEMMA EscrowStep ==
  ASSUME FundingInv, EscrowMoves, TypeOK', UNCHANGED <<jobs, cstatus, terms, orders, revealed, calls>>,
         ReservationsTyped', ProviderTyped', RunsTyped', now <= now',
         \A q \in OneClick :
            \/ provider'[q] = provider[q]
            \/ provider[q] = "AWAITING_DEPOSIT" /\ provider'[q] \in {"SETTLED", "FAILED"}
  PROVE  /\ Lawful /\ OrdersInv' /\ EscrowOK' /\ OpeningOK' /\ JobsInv' /\ CallsInv'
         /\ RevealedInv'
<1>1. FundingTypeOK'
  BY Typed, TypedNext DEF FundingInv, JobsTyped, CampaignTyped, OrdersTyped, CallsTyped
<1>2. Grows
  BY EscrowGrows DEF Grows, Opened
<1>3. Lawful
  BY <1>1, <1>2 DEF Lawful
<1>4. EscrowOK
  BY DEF FundingInv
<1>5. campaigns'[Id] # None =>
        \E q \in Requests : /\ Ordered(q)' /\ InEscrow(q)'
                            /\ q \in OneClick => provider'[q] = "SETTLED"
  <2>1. CASE campaigns[Id] # None
    BY <1>2, <1>3, <1>4, <2>1, SettledStays DEF EscrowOK, Grows, OrderGrows
  <2>2. CASE campaigns[Id] = None /\ campaigns'[Id] # None
    <3>1. PICK q \in Requests :
             /\ Quoted(q, campaigns'[Id].spec, campaigns'[Id].amount, campaigns'[Id].reference)
             /\ q \in OneClick => provider[q] = "SETTLED"
      BY <2>2 DEF EscrowMoves
    <3>2. Ordered(q)' /\ InEscrow(q)'
      BY <2>2, <3>1 DEF Quoted, Ordered, InEscrow
    <3> QED
      BY <1>3, <3>1, <3>2, SettledStays
  <2> QED
    BY <2>1, <2>2
<1>6. ASSUME NEW r \in References, NEW a \in Authorization, authorizations'[r] = a
      PROVE  /\ \E q \in OneClick : Quoted(q, a.campaign.spec, a.campaign.amount, r)'
             /\ a.campaign.reference = r
  <2>1. /\ \E q \in OneClick : Quoted(q, a.campaign.spec, a.campaign.amount, r)
        /\ a.campaign.reference = r
    BY <1>4, <1>6 DEF EscrowOK, EscrowMoves
  <2> QED
    BY <1>3, <2>1, QuotedStays, RequestFacts
<1>7. ASSUME NEW r \in References, NEW a \in Authorization, pending'[r] = a
      PROVE  /\ \E q \in OneClick : /\ Quoted(q, a.campaign.spec, a.campaign.amount, r)'
                                    /\ provider'[q] = "SETTLED"
             /\ a.campaign.reference = r
  <2>1. /\ \E q \in OneClick : Quoted(q, a.campaign.spec, a.campaign.amount, r) /\ provider[q] = "SETTLED"
        /\ a.campaign.reference = r
    BY <1>4, <1>7 DEF EscrowOK, EscrowMoves
  <2> QED
    BY <1>3, <2>1, QuotedStays, SettledStays, RequestFacts
<1>8. ASSUME NEW t \in inbound'
      PROVE  \E q \in Direct : /\ Quoted(q, t.spec, t.amount, t.reference)'
                               /\ t.deadline = orders'[q].expires
  <2>1. PICK q \in Direct : Quoted(q, t.spec, t.amount, t.reference) /\ t.deadline = orders[q].expires
    BY <1>8 DEF EscrowMoves
  <2> QED
    BY <1>3, <2>1, QuotedStays DEF Direct
<1>9. EscrowOK'
  BY <1>5, <1>6, <1>7, <1>8 DEF EscrowOK
<1> QED
  BY <1>3, <1>9, OrdersKept, OpeningKept, JobsUnmoved, CallsUnmoved, RevealedKept DEF Opened

\* A step of the chain that no call, worker or row takes part in.
LEMMA ChainStep ==
  ASSUME FundingInv, EscrowMoves, TypeOK', now <= now',
         UNCHANGED <<jobs, rows, provider, revealed, calls, runs>>
  PROVE  FundingInv'
<1>1. UNCHANGED <<cstatus, terms, orders, reservations>>
  BY DEF rows
<1>2. ReservationsTyped' /\ ProviderTyped' /\ RunsTyped'
  BY <1>1, Typed DEF FundingInv, ReservationsTyped, ProviderTyped, RunsTyped
<1>3. /\ Lawful /\ OrdersInv' /\ EscrowOK' /\ OpeningOK' /\ JobsInv' /\ CallsInv'
      /\ RevealedInv'
  BY <1>1, <1>2, ProviderGoes, EscrowStep
<1>4. ReservationsOK'
  BY <1>1, CallsAtRest DEF Ordered
<1> QED
  BY <1>3, <1>4, RunsUnmoved DEF Lawful, FundingInv
-----------------------------------------------------------------------------
(* Each step of the chain.                                                  *)

LEMMA EscrowTyped ==
  ASSUME FundingInv
  PROVE  TypeOK /\ now \in Nat /\ Id \in CampaignIds
  BY Typed, IdTyped DEF FundingInv, TypeOK

\* The terms of an order are those of the campaign.
LEMMA OrderFacts ==
  ASSUME FundingInv, NEW q \in Requests, Ordered(q)
  PROVE  /\ orders[q].terms \in Specs /\ orders[q].terms \in Spec0 /\ orders[q].terms # None
         /\ orders[q].terms.id = Id /\ orders[q].expires \in Nat
         /\ ReferenceOf[q] \in References /\ Prize \in Nat \ {0}
<1>1. orders[q].terms = terms /\ terms \in Specs
  BY Typed DEF FundingInv, OrdersInv, OrderOK, CampaignTyped
<1>2. orders[q].expires \in Nat
  BY Typed DEF FundingInv, OrdersTyped, OrderRow
<1> QED
  BY <1>1, <1>2, SpecFacts, RequestFacts, FundingAssumption

LEMMA StatusTyped ==
  /\ \A state \in States, seq \in Nat, inFlight \in BOOLEAN : StatusOf(state, seq, inFlight) \in Status
  /\ "Scheduled" \in States /\ "Active" \in States /\ "Refunding" \in States
  BY DEF StatusOf, Status, States

\* What build_campaign returns.
LEMMA BuildFacts ==
  ASSUME NEW spec \in Spec0, NEW amount \in Nat \ {0}, NEW r \in References, NEW rail \in Rails
  PROVE  /\ Build(spec, amount, r, rail) \in Campaign
         /\ Build(spec, amount, r, rail).spec = spec
         /\ Build(spec, amount, r, rail).amount = amount
         /\ Build(spec, amount, r, rail).reference = r
<1>1. StatusOf(IF now < spec.opens THEN "Scheduled" ELSE "Active", 0, FALSE) \in Status
  BY StatusTyped
<1> QED
  BY <1>1 DEF Build, Campaign

\* The creator pays an order directly: the transfer says what the order says.
LEMMA PayDirectlyMoves ==
  ASSUME FundingInv, NEW q \in Requests, NEW name \in Transfers, Ordered(q), q \in Direct,
         FtTransferCall(name, orders[q].terms, Prize, ReferenceOf[q], orders[q].expires)
  PROVE  EscrowMoves /\ TypeOK' /\ UNCHANGED now
<1>1. TypeOK
  BY EscrowTyped
<1>2. PICK t : t = [name |-> name, stage |-> "sent", amount |-> Prize, spec |-> orders[q].terms,
                    reference |-> ReferenceOf[q], deadline |-> orders[q].expires]
  OBVIOUS
<1>3. /\ vault' = vault + Prize /\ inbound' = inbound \cup {t}
      /\ UNCHANGED <<now, escrow, permits, queries, payouts, disbursed>>
  BY <1>2 DEF FtTransferCall
<1>4. t \in Inbound
  BY <1>2, OrderFacts DEF Inbound
<1>5. TypeOK'
  <2>1. Prize \in Nat
    BY FundingAssumption
  <2> QED
    BY <1>1, <1>3, <1>4, <2>1 DEF TypeOK, escrow
<1>6. Quoted(q, t.spec, t.amount, t.reference) /\ t.deadline = orders[q].expires
  BY <1>2 DEF Quoted
<1>7. EscrowMoves
  <2>1. UNCHANGED <<campaigns, used, authorizations, pending>>
    BY <1>3 DEF escrow
  <2> QED
    BY <1>3, <1>6, <2>1 DEF FundingInv, EscrowOK, EscrowMoves
<1> QED
  BY <1>3, <1>5, <1>7

\* The creator authorizes a routed order: an older authorization is retired.
LEMMA AuthorizeMoves ==
  ASSUME FundingInv, NEW q \in OneClick, Ordered(q),
         AuthorizeExternalFunding(orders[q].terms.creator, orders[q].terms, Prize,
                                  ReferenceOf[q], "intents", orders[q].expires + ExternalGrace)
  PROVE  EscrowMoves /\ TypeOK' /\ UNCHANGED now
<1>1. TypeOK
  BY EscrowTyped
<1>2. PICK spec \in Spec0 : spec = orders[q].terms /\ spec.id \in CampaignIds
  BY RequestFacts, OrderFacts, EscrowTyped
<1>3. PICK r \in References : r = ReferenceOf[q]
  BY RequestFacts
<1>4. Prize \in Nat \ {0} /\ orders[q].expires + ExternalGrace \in Nat
  BY RequestFacts, OrderFacts, FundingAssumption
<1>5. PICK c : c = Build(spec, Prize, r, "intents")
  OBVIOUS
<1>6. PICK auth \in Authorization :
         /\ auth = [campaign |-> [c EXCEPT !.status = StatusOf("Scheduled", 0, FALSE)],
                    deadline |-> orders[q].expires + ExternalGrace]
         /\ auth.campaign.spec = spec /\ auth.campaign.amount = Prize
         /\ auth.campaign.reference = r
  <2>1. c \in Campaign /\ c.spec = spec /\ c.amount = Prize /\ c.reference = r
    BY <1>4, <1>5, BuildFacts DEF Rails
  <2> DEFINE d == [c EXCEPT !.status = StatusOf("Scheduled", 0, FALSE)]
             auth == [campaign |-> d, deadline |-> orders[q].expires + ExternalGrace]
  <2>2. d \in Campaign /\ d.spec = spec /\ d.amount = Prize /\ d.reference = r
    BY <2>1, StatusTyped DEF Campaign
  <2>3. auth = [campaign |-> [c EXCEPT !.status = StatusOf("Scheduled", 0, FALSE)],
                deadline |-> orders[q].expires + ExternalGrace]
    OBVIOUS
  <2> HIDE DEF d
  <2>4. auth \in Authorization /\ auth.campaign = d
    BY <1>4, <2>2 DEF Authorization
  <2> HIDE DEF auth
  <2> QED
    BY <2>2, <2>3, <2>4
<1> DEFINE old == authById[spec.id]
           base == IF old # None THEN Retired(old)
                   ELSE [authorizations |-> authorizations, authById |-> authById, used |-> used]
<1>7. /\ authorizations' = [base.authorizations EXCEPT ![r] = auth]
      /\ authById' = [base.authById EXCEPT ![spec.id] = r]
      /\ used' = base.used
      /\ authorizations[r] = None
      /\ UNCHANGED <<now, campaigns, pending, pendingIds, totalReserved, permits, token>>
  BY <1>2, <1>3, <1>5, <1>6 DEF AuthorizeExternalFunding, ReferenceAvailable
<1>8. old # None => old \in References
  BY <1>1, <1>2 DEF TypeOK
<1>9. /\ base.authorizations \in [References -> Authorization \cup {None}]
      /\ base.authById \in [CampaignIds -> References \cup {None}]
      /\ base.used \subseteq References /\ used \subseteq base.used
      /\ \A p \in References : \/ base.authorizations[p] = authorizations[p]
                               \/ base.authorizations[p] = None /\ p \in base.used
  <2>1. CASE old # None
    BY <1>1, <1>8, <2>1 DEF TypeOK, Retired
  <2>2. CASE old = None
    BY <1>1, <2>2 DEF TypeOK
  <2> QED
    BY <2>1, <2>2
<1> HIDE DEF base
<1>10. TypeOK'
  BY <1>1, <1>2, <1>7, <1>9 DEF TypeOK, token
<1>11. authorizations'[r] = auth /\ \A p \in References \ {r} : authorizations'[p] = base.authorizations[p]
  BY <1>7, <1>9
<1>12. Quoted(q, auth.campaign.spec, auth.campaign.amount, r)
  BY <1>2, <1>3, <1>6 DEF Quoted
<1>13. ASSUME NEW p \in References, NEW a \in Authorization, authorizations'[p] = a
       PROVE  \/ authorizations[p] = a
              \/ /\ a.campaign.reference = p
                 /\ \E b \in OneClick : Quoted(b, a.campaign.spec, a.campaign.amount, p)
  <2>1. CASE p = r
    BY <1>6, <1>11, <1>12, <1>13, <2>1
  <2>2. CASE p # r
    BY <1>9, <1>11, <1>13, <2>2, SpecFacts
  <2> QED
    BY <2>1, <2>2
<1>14. ASSUME NEW p \in References, authorizations[p] # None
       PROVE  authorizations'[p] = authorizations[p] \/ p \in used'
  BY <1>7, <1>9, <1>11, <1>14
<1>15. EscrowMoves
  <2>1. UNCHANGED <<campaigns, pending, inbound>>
    BY <1>7 DEF token
  <2>2. used \subseteq used'
    BY <1>7, <1>9
  <2>3. \A t \in inbound' : \E b \in Direct :
           Quoted(b, t.spec, t.amount, t.reference) /\ t.deadline = orders[b].expires
    BY <2>1 DEF FundingInv, EscrowOK
  <2> QED
    BY <1>13, <1>14, <2>1, <2>2, <2>3 DEF EscrowMoves
<1> QED
  BY <1>7, <1>10, <1>15

\* A transfer is accepted in time.
LEMMA AcceptMoves ==
  ASSUME FundingInv, NEW t \in inbound, FtOnTransferAccept(t)
  PROVE  EscrowMoves /\ TypeOK' /\ UNCHANGED now
<1>1. TypeOK
  BY EscrowTyped
<1>2. PICK q \in Requests : /\ q \notin OneClick /\ Quoted(q, t.spec, t.amount, t.reference)
                            /\ t.deadline = orders[q].expires
  BY RequestFacts DEF FundingInv, EscrowOK, Direct
<1>3. t.spec \in Spec0 /\ t.spec.id = Id /\ t.amount \in Nat \ {0} /\ t.reference \in References
  BY <1>2, OrderFacts DEF Quoted
<1>4. PICK c : c = Build(t.spec, t.amount, t.reference, "direct_usdc")
  OBVIOUS
<1>5. c \in Campaign /\ c.spec = t.spec /\ c.amount = t.amount /\ c.reference = t.reference /\ c # None
  BY <1>3, <1>4, BuildFacts, SpecFacts DEF Rails
<1>6. /\ now <= t.deadline /\ campaigns[Id] = None
      /\ campaigns' = [campaigns EXCEPT ![Id] = c]
      /\ used' = used \cup {t.reference}
      /\ totalReserved' = totalReserved + t.amount
      /\ inbound' = inbound \ {t}
      /\ UNCHANGED <<now, authorizations, authById, pending, pendingIds, permits,
                     vault, queries, payouts, disbursed>>
  BY <1>3, <1>4 DEF FtOnTransferAccept, Acceptable, Buildable
<1>7. campaigns'[Id] = c
  BY <1>1, <1>6, EscrowTyped DEF TypeOK
<1>8. TypeOK'
  BY <1>1, <1>3, <1>5, <1>6, EscrowTyped DEF TypeOK
<1>9. EscrowMoves
  <2>1. \A u \in inbound' : \E b \in Direct :
           Quoted(b, u.spec, u.amount, u.reference) /\ u.deadline = orders[b].expires
    BY <1>6 DEF FundingInv, EscrowOK
  <2> QED
    BY <1>2, <1>5, <1>6, <1>7, <2>1 DEF EscrowMoves
<1> QED
  BY <1>6, <1>8, <1>9

\* A transfer is handed back.
LEMMA RejectMoves ==
  ASSUME FundingInv, NEW t \in inbound, FtOnTransferReject(t) \/ FtResolveTransfer(t)
  PROVE  EscrowMoves /\ TypeOK' /\ UNCHANGED now
<1>1. TypeOK /\ t \in Inbound
  BY EscrowTyped DEF TypeOK
<1>2. PICK u \in Inbound : /\ u = [t EXCEPT !.stage = "returning"]
                           /\ u.spec = t.spec /\ u.amount = t.amount
                           /\ u.reference = t.reference /\ u.deadline = t.deadline
  <2> DEFINE u == [t EXCEPT !.stage = "returning"]
  <2>1. u \in Inbound /\ u.spec = t.spec /\ u.amount = t.amount
        /\ u.reference = t.reference /\ u.deadline = t.deadline
    BY <1>1 DEF Inbound
  <2> HIDE DEF u
  <2>2. u = [t EXCEPT !.stage = "returning"]
    BY DEF u
  <2> QED
    BY <2>1, <2>2
<1>3. inbound' \subseteq inbound \cup {u} /\ UNCHANGED <<now, escrow, permits, queries, payouts, disbursed>>
  BY <1>2 DEF FtOnTransferReject, FtResolveTransfer
<1>4. vault' \in Nat
  <2>1. t.amount \in Nat /\ vault \in Nat
    BY <1>1 DEF Inbound, TypeOK
  <2> QED
    BY <2>1 DEF FtOnTransferReject, FtResolveTransfer
<1>5. TypeOK'
  BY <1>1, <1>3, <1>4 DEF TypeOK, escrow
<1>6. EscrowMoves
  <2>1. \A s \in inbound' : \E b \in Direct :
           Quoted(b, s.spec, s.amount, s.reference) /\ s.deadline = orders[b].expires
    <3>1. \E b \in Direct : Quoted(b, u.spec, u.amount, u.reference) /\ u.deadline = orders[b].expires
      BY <1>2 DEF FundingInv, EscrowOK
    <3> QED
      BY <1>3, <3>1 DEF FundingInv, EscrowOK
  <2>2. UNCHANGED <<campaigns, used, authorizations, pending>>
    BY <1>3 DEF escrow
  <2> QED
    BY <2>1, <2>2 DEF EscrowMoves
<1> QED
  BY <1>3, <1>5, <1>6

LEMMA BalanceMoves ==
  ASSUME FundingInv, NEW query \in queries, FtBalanceOf(query)
  PROVE  EscrowMoves /\ TypeOK' /\ UNCHANGED now
<1>1. TypeOK
  BY EscrowTyped
<1>2. TypeOK'
  BY <1>1 DEF TypeOK, FtBalanceOf, escrow, Query
<1>3. UNCHANGED <<now, campaigns, used, authorizations, pending, inbound>>
  BY DEF FtBalanceOf, escrow
<1> QED
  BY <1>2, <1>3, EscrowStill

\* The balance proves a pending prize, which was paid for.
LEMMA AllocatedMoves ==
  ASSUME FundingInv, NEW query \in queries, OnExternalFundingBalance(query)
  PROVE  EscrowMoves /\ TypeOK' /\ UNCHANGED now
<1>1. TypeOK
  BY EscrowTyped
<1>2. PICK r \in References : r = query.reference
  BY <1>1 DEF TypeOK, Query
<1>3. UNCHANGED <<now, permits, vault, payouts, inbound, disbursed>> /\ queries' \subseteq queries
  BY DEF OnExternalFundingBalance
<1>4. CASE pending[r] = None
  <2>1. UNCHANGED escrow
    BY <1>2, <1>4 DEF OnExternalFundingBalance
  <2>2. TypeOK'
    BY <1>1, <1>3, <2>1 DEF TypeOK, escrow
  <2> QED
    BY <1>3, <2>1, <2>2, EscrowStill DEF escrow
<1>5. CASE pending[r] # None
  <2>1. PICK auth \in Authorization : auth = pending[r]
    BY <1>1, <1>5 DEF TypeOK
  <2>2. PICK q \in OneClick : /\ Quoted(q, auth.campaign.spec, auth.campaign.amount, r)
                              /\ provider[q] = "SETTLED"
    BY <2>1 DEF FundingInv, EscrowOK
  <2>3. q \in Requests /\ auth.campaign \in Campaign /\ auth.campaign # None
        /\ auth.campaign.spec.id = Id /\ auth.campaign.reference = r /\ auth.campaign.amount \in Nat
    BY <2>1, <2>2, RequestFacts, SpecFacts, OrderFacts DEF FundingInv, EscrowOK, Quoted, Campaign
  <2>4. /\ pending' = [pending EXCEPT ![r] = None] /\ pendingIds' = pendingIds \ {Id}
        /\ \/ UNCHANGED <<campaigns, used, authorizations, authById, totalReserved>>
           \/ /\ campaigns[Id] = None
              /\ authorizations' = [authorizations EXCEPT ![r] = None]
              /\ authById' = [authById EXCEPT ![Id] = None]
              /\ campaigns' = [campaigns EXCEPT ![Id] = auth.campaign]
              /\ used' = used \cup {r}
              /\ totalReserved' = totalReserved + auth.campaign.amount
    BY <1>2, <1>5, <2>1, <2>3 DEF OnExternalFundingBalance, Proves
  <2>5. pending' \in [References -> Authorization \cup {None}]
    BY <1>1, <2>4 DEF TypeOK
  <2>6. \A p \in References, a \in Authorization : pending'[p] = a => pending[p] = a
    BY <1>1, <2>4, SpecFacts DEF TypeOK
  <2>7. \A t \in inbound' : \E b \in Direct :
           Quoted(b, t.spec, t.amount, t.reference) /\ t.deadline = orders[b].expires
    BY <1>3 DEF FundingInv, EscrowOK
  <2>8. CASE UNCHANGED <<campaigns, used, authorizations, authById, totalReserved>>
    <3>1. TypeOK'
      BY <1>1, <1>3, <2>4, <2>5, <2>8 DEF TypeOK
    <3>2. EscrowMoves
      BY <2>6, <2>7, <2>8 DEF EscrowMoves
    <3> QED
      BY <1>3, <3>1, <3>2
  <2>9. CASE /\ campaigns[Id] = None
             /\ authorizations' = [authorizations EXCEPT ![r] = None]
             /\ authById' = [authById EXCEPT ![Id] = None]
             /\ campaigns' = [campaigns EXCEPT ![Id] = auth.campaign]
             /\ used' = used \cup {r}
             /\ totalReserved' = totalReserved + auth.campaign.amount
    <3>1. TypeOK'
      BY <1>1, <1>3, <2>3, <2>4, <2>5, <2>9, EscrowTyped DEF TypeOK
    <3>2. campaigns'[Id] = auth.campaign
      BY <1>1, <2>9, EscrowTyped DEF TypeOK
    <3>3. \A p \in References, a \in Authorization : authorizations'[p] = a => authorizations[p] = a
      BY <1>1, <2>9, SpecFacts DEF TypeOK
    <3>4. \A p \in References :
             authorizations[p] # None => authorizations'[p] = authorizations[p] \/ p \in used'
      BY <1>1, <2>9 DEF TypeOK
    <3>5. EscrowMoves
      BY <2>2, <2>3, <2>6, <2>7, <2>9, <3>2, <3>3, <3>4 DEF EscrowMoves
    <3> QED
      BY <1>3, <3>1, <3>5
  <2> QED
    BY <2>4, <2>8, <2>9
<1> QED
  BY <1>4, <1>5

\* The creator cancels: the campaign keeps its terms.
LEMMA CancelMoves ==
  ASSUME FundingInv, campaigns[Id] # None, CancelBeforeOpen(campaigns[Id].spec.creator, Id)
  PROVE  EscrowMoves /\ TypeOK' /\ UNCHANGED now
<1>1. TypeOK /\ Id \in CampaignIds
  BY EscrowTyped
<1>2. PICK c \in Campaign : c = campaigns[Id]
  BY <1>1 DEF TypeOK
<1>3. PICK d \in Campaign : /\ d = [c EXCEPT !.status = StatusOf("Refunding", 0, TRUE)]
                            /\ d.spec = c.spec /\ d.amount = c.amount /\ d.reference = c.reference
  <2> DEFINE d == [c EXCEPT !.status = StatusOf("Refunding", 0, TRUE)]
  <2>1. d \in Campaign /\ d.spec = c.spec /\ d.amount = c.amount /\ d.reference = c.reference
    BY StatusTyped DEF Campaign
  <2> HIDE DEF d
  <2>2. d = [c EXCEPT !.status = StatusOf("Refunding", 0, TRUE)]
    BY DEF d
  <2> QED
    BY <2>1, <2>2
<1>4. PICK p \in Payout : p = PayoutOf(Id, "refund", 0, c.spec.refundTo, c.amount)
  BY <1>1 DEF PayoutOf, Payout, Campaign, Spec0
<1>5. /\ campaigns' = [campaigns EXCEPT ![Id] = d] /\ payouts' = payouts \cup {p}
      /\ UNCHANGED <<now, used, authorizations, authById, pending, pendingIds,
                     totalReserved, permits, vault, queries, inbound, disbursed>>
  BY <1>2, <1>3, <1>4 DEF CancelBeforeOpen, StartRefund
<1>6. TypeOK'
  BY <1>1, <1>5 DEF TypeOK
<1>7. campaigns'[Id] = d /\ d # None
  BY <1>1, <1>5, SpecFacts DEF TypeOK
<1>8. EscrowMoves
  BY <1>2, <1>3, <1>5, <1>7 DEF FundingInv, EscrowOK, EscrowMoves
<1> QED
  BY <1>5, <1>6, <1>8

LEMMA ChainMovesKeeps ==
  ASSUME FundingInv, ChainMoves
  PROVE  FundingInv'
<1>1. UNCHANGED <<jobs, rows, provider, revealed, calls, runs>>
  BY DEF ChainMoves
<1>2. ASSUME NEW q \in Requests, NEW name \in Transfers, Pay(q, name)
      PROVE  EscrowMoves /\ TypeOK' /\ UNCHANGED now
  <2>1. Ordered(q)
    BY <1>2 DEF Pay, Ordered
  <2> QED
    BY <1>2, <2>1, PayDirectlyMoves, AuthorizeMoves DEF Pay
<1>3. EscrowMoves /\ TypeOK' /\ UNCHANGED now
  BY <1>2, AcceptMoves, RejectMoves, BalanceMoves, AllocatedMoves, CancelMoves DEF ChainMoves
<1>4. now <= now'
  BY <1>3, EscrowTyped
<1> QED
  BY <1>1, <1>3, <1>4, ChainStep
\* activate_external_funding: the worker sends it for an order that has been paid for.
LEMMA ActivateKeeps ==
  ASSUME FundingInv, NEW w \in Workers, Activate(w)
  PROVE  FundingInv'
<1>1. PICK r \in Run : r = runs[w] /\ RunOK(r) /\ r.stage = "activate" /\ runs[w] # None
  BY RunFacts DEF Activate, At
<1>2. PICK q \in OneClick : q = RequestOf(w) /\ q = r.job[2] /\ provider[q] = "SETTLED"
  BY <1>1, RunFacts DEF RequestOf, JobOf, RunOK
<1>3. PICK ref \in References : ref = ReferenceOf[q]
  BY RequestFacts
<1>4. TypeOK
  BY EscrowTyped
<1>5. /\ authorizations[ref] # None
      /\ pendingIds' = pendingIds \cup {Id}
      /\ pending' = [pending EXCEPT ![ref] = authorizations[ref]]
      /\ queries' = queries \cup {[reference |-> ref, reply |-> "sent", balance |-> 0]}
      /\ UNCHANGED <<now, campaigns, used, authorizations, authById, totalReserved,
                     permits, vault, payouts, inbound, disbursed>>
  BY <1>2, <1>3 DEF Activate, ActivateExternalFunding
<1>6. Goto(w, "verify") /\ UNCHANGED <<jobs, rows, provider, revealed, calls>>
  BY DEF Activate
<1>7. PICK auth \in Authorization : auth = authorizations[ref]
  BY <1>4, <1>5 DEF TypeOK
<1>8. Quoted(q, auth.campaign.spec, auth.campaign.amount, ref)
  <2>1. PICK p \in OneClick : Quoted(p, auth.campaign.spec, auth.campaign.amount, ref)
    BY <1>7 DEF FundingInv, EscrowOK
  <2>2. p = q
    BY <1>3, <2>1, RequestFacts DEF Quoted
  <2> QED
    BY <2>1, <2>2
<1>9. TypeOK'
  <2>1. [reference |-> ref, reply |-> "sent", balance |-> 0] \in Query
    BY DEF Query
  <2>2. pending' = [pending EXCEPT ![ref] = auth]
    BY <1>5, <1>7
  <2> QED
    BY <1>4, <1>5, <2>1, <2>2, EscrowTyped DEF TypeOK
<1>10. ASSUME NEW p \in References, NEW a \in Authorization, pending'[p] = a, pending[p] # a
       PROVE  /\ authorizations[p] = a
              /\ Quoted(q, a.campaign.spec, a.campaign.amount, p) /\ provider[q] = "SETTLED"
  <2>1. p = ref /\ a = auth
    BY <1>4, <1>5, <1>7, <1>10 DEF TypeOK
  <2> QED
    BY <1>2, <1>7, <1>8, <2>1
<1>11. EscrowMoves
  <2>1. \A t \in inbound' : \E b \in Direct :
           Quoted(b, t.spec, t.amount, t.reference) /\ t.deadline = orders[b].expires
    BY <1>5 DEF FundingInv, EscrowOK
  <2> QED
    BY <1>5, <1>10, <2>1 DEF EscrowMoves
<1>12. UNCHANGED <<cstatus, terms, orders, reservations>>
  BY <1>6 DEF rows
<1>13. PICK x \in Run : /\ x.stage = "verify" /\ x.job = r.job /\ x.at = r.at
                        /\ runs' = [runs EXCEPT ![w] = x]
  BY <1>1, <1>6, RunGoesOn DEF RunStages
<1>14. ReservationsTyped' /\ ProviderTyped' /\ RunsTyped'
  BY <1>6, <1>12, <1>13, RunsSetTyped, Typed DEF FundingInv, ReservationsTyped, ProviderTyped
<1>15. now <= now'
  BY <1>5, EscrowTyped
<1>16. /\ Lawful /\ OrdersInv' /\ EscrowOK' /\ OpeningOK' /\ JobsInv' /\ CallsInv'
       /\ RevealedInv'
  BY <1>6, <1>9, <1>11, <1>12, <1>14, <1>15, ProviderGoes, EscrowStep
<1>17. RunsInv'
  <2>1. RunOK(x)'
    BY <1>1, <1>2, <1>13, <1>16, RunStaged DEF RunOK
  <2> QED
    BY <1>13, <1>16, <2>1, RunSet
<1>18. ReservationsOK'
  BY <1>6, <1>12, CallsAtRest DEF Ordered
<1> QED
  BY <1>16, <1>17, <1>18 DEF Lawful, FundingInv

LEMMA WorkerKeeps ==
  ASSUME FundingInv, NEW w \in Workers, Worker(w)
  PROVE  FundingInv'
<1>1. CASE Process(w)
  BY <1>1, StartAllocationKeeps, ActivateKeeps, VerifyAllocationKeeps, RecordCampaignKeeps,
     RecordOrderKeeps, EnqueueLifecycleKeeps, ReconcileEscrowedKeeps, ReconcileTerminalKeeps,
     ReconcileDirectKeeps, ReconcileRoutedKeeps, EnsureAllocationJobKeeps
     DEF Process
<1> QED
  BY <1>1, LeaseJobKeeps, FinishKeeps, ThrowKeeps, DieKeeps DEF Worker

-----------------------------------------------------------------------------
(* Time, and the provider.                                                  *)

\* A call that makes a quote outlives no reservation of its own, and a reservation that is
\* gone has not failed.
LEMMA TimePassesKeeps ==
  ASSUME FundingInv, TimePasses
  PROVE  FundingInv'
<1>1. /\ now' = now + 1 /\ UNCHANGED <<escrow, permits, token>>
      /\ \A k \in Calls : InCall(k, Quoting) =>
            ~Reserved(calls[k].q) \/ reservations[calls[k].q].until > now'
      /\ reservations' = [q \in Requests |->
             IF reservations[q] # None /\ reservations[q].until <= now' THEN None ELSE reservations[q]]
      /\ UNCHANGED <<jobs, cstatus, terms, orders, provider, revealed, calls, runs>>
  BY DEF TimePasses, Tick, Quoting
<1>2. TypeOK /\ now \in Nat /\ ReservationsTyped /\ CallsTyped
  BY Typed, EscrowTyped DEF FundingInv
<1>3. TypeOK' /\ now <= now'
  BY <1>1, <1>2 DEF TypeOK, escrow, token
<1>4. EscrowMoves
  BY <1>1, EscrowStill DEF escrow, token
<1>5. \A q \in Requests : reservations'[q] = None \/ reservations'[q] = reservations[q]
  BY <1>1
<1>6. ReservationsTyped'
  BY <1>1, <1>2, <1>5 DEF ReservationsTyped
<1>7. ProviderTyped' /\ RunsTyped'
  BY <1>1, Typed DEF FundingInv, ProviderTyped, RunsTyped
<1>8. /\ Lawful /\ OrdersInv' /\ EscrowOK' /\ OpeningOK' /\ JobsInv' /\ CallsInv'
      /\ RevealedInv'
  BY <1>1, <1>3, <1>4, <1>6, <1>7, ProviderGoes, EscrowStep
<1>9. ASSUME NEW k \in Calls, InCall(k, Quoting)'
      PROVE  reservations'[calls'[k].q] # None /\ reservations'[calls'[k].q].state # "FAILED"
  <2>1. InCall(k, Quoting)
    BY <1>1, <1>9 DEF InCall
  <2>2. PICK q \in Requests : q = calls[k].q
    BY <2>1, CallFacts DEF InCall
  <2>3. /\ reservations[q] # None /\ reservations[q].state # "FAILED"
        /\ reservations[q].until > now'
    BY <1>1, <2>1, <2>2 DEF FundingInv, ReservationsOK, Reserved
  <2>4. reservations[q].until \in Nat /\ now' \in Nat
    BY <1>2, <1>3, <2>3 DEF ReservationsTyped, Reservation, TypeOK
  <2>5. reservations'[q] = reservations[q]
    BY <1>1, <2>3, <2>4
  <2> QED
    BY <1>1, <2>2, <2>3, <2>5
<1>10. ReservationsOK'
  <2>1. \A q \in Requests : Ordered(q)' => Replayable(q)'
    BY <1>1, <1>5 DEF FundingInv, ReservationsOK, Ordered, Replayable, Reserved
  <2>2. \A k, l \in Calls :
           InCall(k, Quoting)' /\ InCall(l, Quoting)' /\ calls'[k].q = calls'[l].q => k = l
    BY <1>1 DEF FundingInv, ReservationsOK, InCall
  <2> QED
    BY <1>9, <2>1, <2>2 DEF ReservationsOK, Reserved
<1> QED
  BY <1>1, <1>8, <1>10, RunsUnmoved DEF Lawful, FundingInv

LEMMA ProviderMovesKeeps ==
  ASSUME FundingInv, NEW q \in OneClick, ProviderMoves(q)
  PROVE  FundingInv'
<1>1. PICK status \in {"SETTLED", "FAILED"} :
         provider[q] = "AWAITING_DEPOSIT" /\ provider' = [provider EXCEPT ![q] = status]
  BY DEF ProviderMoves
<1>2. /\ UNCHANGED <<jobs, rows, revealed, calls, runs>>
      /\ vault' = vault + Prize \/ UNCHANGED vault
      /\ UNCHANGED <<now, escrow, permits, queries, payouts, inbound, disbursed>>
  BY DEF ProviderMoves, ProviderDeposit, vars, token
<1>3. UNCHANGED <<cstatus, terms, orders, reservations>>
  BY <1>2 DEF rows
<1>4. TypeOK /\ Prize \in Nat /\ ProviderTyped
  BY EscrowTyped, Typed, FundingAssumption DEF FundingInv
<1>5. TypeOK' /\ now <= now'
  BY <1>2, <1>4 DEF TypeOK, escrow
<1>6. EscrowMoves
  BY <1>2, EscrowStill DEF escrow
<1>7. /\ ProviderTyped'
      /\ \A p \in OneClick :
            \/ provider'[p] = provider[p]
            \/ provider[p] = "AWAITING_DEPOSIT" /\ provider'[p] \in {"SETTLED", "FAILED"}
  BY <1>1, <1>2, <1>4 DEF ProviderTyped, OrderStatuses
<1>8. ReservationsTyped' /\ RunsTyped'
  BY <1>2, <1>3, Typed DEF FundingInv, ReservationsTyped, RunsTyped
<1>9. /\ Lawful /\ OrdersInv' /\ EscrowOK' /\ OpeningOK' /\ JobsInv' /\ CallsInv'
      /\ RevealedInv'
  BY <1>2, <1>3, <1>5, <1>6, <1>7, <1>8, EscrowStep
<1>10. ReservationsOK'
  BY <1>2, <1>3, CallsAtRest DEF Ordered
<1> QED
  BY <1>2, <1>9, <1>10, RunsUnmoved DEF Lawful, FundingInv

-----------------------------------------------------------------------------
(* The theorems.                                                            *)

LEMMA FundingInitInv == FundingInit => FundingInv
<1> SUFFICES ASSUME FundingInit PROVE FundingInv
  OBVIOUS
<1>1. TypeOK
  BY DEF FundingInit, Init, TypeOK
<1>2. FundingTypeOK
  <2>1. JobsTyped
    BY QueueAssumption DEF FundingInit, JobsTyped, Row, JobRow
  <2>2. CampaignTyped /\ ReservationsTyped /\ ProviderTyped /\ CallsTyped /\ RunsTyped
    BY DEF FundingInit, CampaignTyped, ReservationsTyped, ProviderTyped, CallsTyped, RunsTyped,
       OrderStatuses
  <2>3. OrdersTyped
    BY DEF FundingInit, OrdersTyped, NoOrder, OrderRow, OrderStatuses
  <2> QED
    BY <1>1, <2>1, <2>2, <2>3, Typed
<1>3. \A q \in Requests : ~Ordered(q) /\ orders[q].terms = None
  BY DEF FundingInit, NoOrder, Ordered
<1>4. \A q \in Requests : StatusOK(q)
  BY <1>3 DEF FundingInit, Ordered, StatusOK
<1>5. OrdersInv
  BY <1>3, <1>4 DEF OrdersInv, OrderOK, OneOpen, OpenOrders, Ordered, Closed
<1>6. EscrowOK
  BY <1>2, IdTyped, SpecFacts, Typed DEF FundingInit, Init, EscrowOK
<1>7. JobsInv
  BY DEF FundingInit, Row, JobsInv, JobOK
<1>8. OpeningOK /\ RunsInv /\ CallsInv /\ RevealedInv
  BY DEF FundingInit, OpeningOK, Opened, RunsInv, CallsInv, RevealedInv
<1>9. ReservationsOK
  BY <1>3 DEF FundingInit, ReservationsOK, InCall
<1> QED
  BY <1>2, <1>5, <1>6, <1>7, <1>8, <1>9 DEF FundingInv

LEMMA FundingNextKeeps ==
  ASSUME FundingInv, FundingNext
  PROVE  FundingInv'
  BY TimePassesKeeps, ChainMovesKeeps, ProviderMovesKeeps, PatchCampaignKeeps, ServiceKeeps,
     WorkerKeeps
     DEF FundingNext

LEMMA FundingStutters ==
  ASSUME FundingInv, UNCHANGED fundingVars
  PROVE  FundingInv'
<1>1. UNCHANGED <<jobs, rows, provider, revealed, calls, runs>> /\ UNCHANGED vars
  BY DEF fundingVars
<1>2. TypeOK' /\ UNCHANGED now /\ now <= now'
  BY <1>1, EscrowTyped, TypeKept DEF vars
<1>3. EscrowMoves
  BY <1>1, EscrowStill DEF vars, escrow, token
<1> QED
  BY <1>1, <1>2, <1>3, ChainStep

LEMMA FundingLedgerInvariant == FundingSpec => []FundingInv
<1>1. FundingInv /\ [FundingNext]_fundingVars => FundingInv'
  BY FundingNextKeeps, FundingStutters
<1> QED
  BY <1>1, FundingInitInv, PTL DEF FundingSpec

\* A prize is quoted for terms that can no longer change and for one open order at a time;
\* the ledger opens a campaign and calls an order allocated only for a prize that came into
\* escrow on the terms and under the reference of an order; and a deposit address is shown
\* only for terms that the creator has committed on chain: whatever calls of
\* createFundingQuote, recordDirectFundingReceipt and refreshFundingOrder overlap, and
\* however often a worker of processAllocation and processFundingReconciliation dies.
THEOREM FundingIsAgreed == FundingSpec => []FundingAgrees
<1>1. FundingInv => FundingAgrees
  BY FundingInvAgrees
<1> QED
  BY <1>1, FundingLedgerInvariant, PTL

\* A prize on its way is not dropped: the reconciliation of an order
\* (processFundingReconciliation) has succeeded only where the order is allocated and its
\* lifecycle job is there, or where it is closed without its prize in escrow; until then the
\* job is there, or a retry of createFundingQuote makes it.
THEOREM FundingIsCarriedOn == FundingSpec => []FundingCarriedOn
<1>1. FundingInv => FundingCarriedOn
  BY FundingInvCarriedOn
<1> QED
  BY <1>1, FundingLedgerInvariant, PTL
===============================================================================
