-------------------------- MODULE RewardIssuerProofs --------------------------
(***************************************************************************)
(* Theorems about LearningRewards and RewardIssuer for every value of their   *)
(* constants.  First the contract by itself; then the issuer composed with it: *)
(* it does only what the contract does, so what is proved of the contract     *)
(* holds there too, and the rows, the signatures and the rewards of one       *)
(* campaign belong together.                                                *)
(***************************************************************************)
EXTENDS RewardIssuer, Integers, FiniteSetTheorems, SequenceTheorems, TLAPS

-----------------------------------------------------------------------------
(* A sum of amounts counted as a set of units: an amount a held under a key  *)
(* k is the block of pairs {k} \X 1..a, and a total is the cardinality of    *)
(* the union of the blocks.                                                *)

Block(k, a) == {k} \X (1 .. a)

\* A block has as many units as its amount.
LEMMA BlockSize ==
  ASSUME NEW k, NEW a \in Nat
  PROVE  IsFiniteSet(Block(k, a)) /\ Cardinality(Block(k, a)) = a
<1>1. IsFiniteSet({k}) /\ Cardinality({k}) = 1
  BY FS_Singleton
<1>2. IsFiniteSet(1 .. a) /\ Cardinality(1 .. a) = a
  <2>1. 1 \in Int /\ a \in Int
    OBVIOUS
  <2>2. /\ IsFiniteSet(1 .. a)
        /\ Cardinality(1 .. a) = IF 1 > a THEN 0 ELSE a - 1 + 1
    BY <2>1, FS_Interval
  <2> QED
    BY <2>2
<1>3. /\ IsFiniteSet({k} \X (1 .. a))
      /\ Cardinality({k} \X (1 .. a)) = Cardinality({k}) * Cardinality(1 .. a)
  BY <1>1, <1>2, FS_Product, Zenon
<1> QED
  BY <1>1, <1>2, <1>3 DEF Block

\* Adding the block of a key that has none adds its amount.
LEMMA AddBlock ==
  ASSUME NEW S, IsFiniteSet(S), NEW k, NEW a \in Nat, \A u : <<k, u>> \notin S
  PROVE  IsFiniteSet(S \cup Block(k, a)) /\ Cardinality(S \cup Block(k, a)) = Cardinality(S) + a
<1>1. S \cap Block(k, a) = {}
  BY DEF Block
<1>2. IsFiniteSet(Block(k, a)) /\ Cardinality(Block(k, a)) = a
  BY BlockSize
<1>3. Cardinality(S \cap Block(k, a)) = 0
  BY <1>1, FS_EmptySet
<1>4. Cardinality(S) \in Nat
  BY FS_CardinalityType
<1>5. /\ IsFiniteSet(S \cup Block(k, a))
      /\ Cardinality(S \cup Block(k, a))
            = Cardinality(S) + Cardinality(Block(k, a)) - Cardinality(S \cap Block(k, a))
  BY <1>2, FS_Union
<1> QED
  BY <1>2, <1>3, <1>4, <1>5

\* Removing a block that is there removes its amount.
LEMMA RemoveBlock ==
  ASSUME NEW S, IsFiniteSet(S), NEW k, NEW a \in Nat, Block(k, a) \subseteq S
  PROVE  IsFiniteSet(S \ Block(k, a)) /\ Cardinality(S \ Block(k, a)) = Cardinality(S) - a
<1>1. S \cap Block(k, a) = Block(k, a)
  OBVIOUS
<1>2. Cardinality(Block(k, a)) = a
  BY BlockSize
<1>3. /\ IsFiniteSet(S \ Block(k, a))
      /\ Cardinality(S \ Block(k, a)) = Cardinality(S) - Cardinality(S \cap Block(k, a))
  BY FS_Difference
<1> QED
  BY <1>1, <1>2, <1>3

\* Replacing the block of a key by another of the same key exchanges the amounts.
LEMMA ReplaceBlock ==
  ASSUME NEW S, IsFiniteSet(S), NEW k, NEW a \in Nat, NEW b \in Nat,
         Block(k, a) \subseteq S, \A u : <<k, u>> \in S => u \in 1 .. a
  PROVE  /\ IsFiniteSet((S \ Block(k, a)) \cup Block(k, b))
         /\ Cardinality((S \ Block(k, a)) \cup Block(k, b)) = Cardinality(S) - a + b
<1> DEFINE R == S \ Block(k, a)
<1>1. IsFiniteSet(R) /\ Cardinality(R) = Cardinality(S) - a
  BY RemoveBlock
<1>2. \A u : <<k, u>> \notin R
  BY DEF Block
<1> HIDE DEF R
<1>3. IsFiniteSet(R \cup Block(k, b)) /\ Cardinality(R \cup Block(k, b)) = Cardinality(R) + b
  BY <1>1, <1>2, AddBlock
<1> QED
  BY <1>1, <1>3 DEF R

\* The m slots 0, ..., m - 1.
LEMMA SlotCount ==
  ASSUME NEW m \in Nat
  PROVE  IsFiniteSet(0 .. m - 1) /\ Cardinality(0 .. m - 1) = m
<1>1. 0 \in Int /\ m - 1 \in Int
  OBVIOUS
<1>2. /\ IsFiniteSet(0 .. m - 1)
      /\ Cardinality(0 .. m - 1) = IF 0 > m - 1 THEN 0 ELSE m - 1 - 0 + 1
  BY <1>1, FS_Interval
<1> QED
  BY <1>2

-----------------------------------------------------------------------------
(* The contract: type correctness.                                          *)

LEMMA FundedType ==
  ASSUME NEW sponsor \in Sponsors, NEW terms \in Terms, TypeOK, ValidTerms(terms)
  PROVE  /\ terms \in CampaignTerms
         /\ Principal(terms) \in Nat
         /\ Funded(sponsor, terms) \in Campaign
<1>1. terms \in Offer
  BY TermsAssumption
<1>2. terms \in CampaignTerms
  BY <1>1 DEF ValidTerms, Offer, CampaignTerms
<1>3. Principal(terms) \in Nat
  BY <1>1 DEF Principal, Offer
<1> QED
  BY <1>2, <1>3 DEF Funded, Campaign

LEMMA CreateType ==
  ASSUME NEW sponsor \in Sponsors, NEW terms \in Terms, TypeOK, CreateCampaign(sponsor, terms)
  PROVE  TypeOK'
<1> DEFINE id == campaignCount + 1
<1>1. Funded(sponsor, terms) \in Campaign /\ Principal(terms) \in Nat
  BY FundedType DEF CreateCampaign
<1>2. /\ campaignCount \in Nat /\ campaignCount' = id /\ id \in CampaignIds
      /\ Existing' = Existing \cup {id}
  BY DEF TypeOK, CreateCampaign, Existing
<1>3. campaigns' \in [Existing' -> Campaign]
  <2>1. campaigns' = [i \in 1 .. id |-> IF i = id THEN Funded(sponsor, terms) ELSE campaigns[i]]
    BY DEF CreateCampaign
  <2>2. ASSUME NEW i \in 1 .. id, i # id PROVE campaigns[i] \in Campaign
    <3>1. i \in Existing
      BY <2>2, <1>2 DEF Existing
    <3> QED
      BY <3>1 DEF TypeOK
  <2>3. Existing' = 1 .. id
    BY <1>2 DEF Existing
  <2> QED
    BY <1>1, <2>1, <2>2, <2>3
<1>4. totalReserved' \in Nat /\ balance' \in Nat
  BY <1>1 DEF CreateCampaign, TypeOK
<1> QED
  BY <1>2, <1>3, <1>4 DEF CreateCampaign, TypeOK

\* What a refund leaves behind is natural because the refund checks its subtractions.
LEMMA RefundType ==
  ASSUME NEW id \in Existing, TypeOK, Refund(id)
  PROVE  TypeOK'
<1> DEFINE c == campaigns[id]
<1> DEFINE amount == Outstanding(c)
<1>1. c \in Campaign
  BY DEF TypeOK
<1>2. amount \in Nat
  <2>1. c.funded \in Nat /\ c.refunded \in Nat /\ c.paid \in Nat /\ c.terms.reward \in Nat
    BY <1>1 DEF Campaign, CampaignTerms
  <2>2. c.paid * c.terms.reward \in Nat
    BY <2>1
  <2>3. amount \in Int /\ amount >= 0
    BY <2>1, <2>2 DEF Outstanding, Refund
  <2> QED
    BY <2>3
<1>3. campaigns' \in [Existing -> Campaign]
  <2>1. campaigns' = [campaigns EXCEPT ![id] = [c EXCEPT !.closed = TRUE, !.refunded = @ + amount]]
    BY DEF Refund, TypeOK
  <2>2. c.refunded + amount \in Nat
    BY <1>1, <1>2 DEF Campaign
  <2>3. [c EXCEPT !.closed = TRUE, !.refunded = @ + amount] \in Campaign
    BY <1>1, <2>2 DEF Campaign
  <2> QED
    BY <2>1, <2>3 DEF TypeOK
<1>4. totalReserved' \in Nat /\ balance' \in Nat
  BY <1>2 DEF Refund, TypeOK
<1> QED
  BY <1>3, <1>4 DEF Refund, TypeOK, Existing

LEMMA PayType ==
  ASSUME NEW signature \in Signature, TypeOK, PayClaim(signature)
  PROVE  TypeOK'
<1> DEFINE claim == signature.claim
<1> DEFINE id == claim.id
<1> DEFINE c == campaigns[id]
<1>1. /\ claim \in Claim /\ id \in CampaignIds /\ claim.slot \in Slots
      /\ claim.participant \in Participants /\ claim.amount \in Nat
  BY ClaimsAssumption DEF Signature, Claim
<1>2. id \in Existing /\ c \in Campaign
  BY DEF PayClaim, IsOpen, TypeOK
<1>3. campaigns' \in [Existing -> Campaign]
  <2>1. campaigns' = [campaigns EXCEPT ![id] = [c EXCEPT !.paid = @ + 1]]
    BY DEF PayClaim, TypeOK
  <2>2. [c EXCEPT !.paid = @ + 1] \in Campaign
    BY <1>2 DEF Campaign
  <2> QED
    BY <2>1, <2>2 DEF TypeOK
<1>4. /\ usedSlots' \in [CampaignIds -> SUBSET Slots]
      /\ claimedParticipants' \in [CampaignIds -> SUBSET Participants]
  BY <1>1 DEF PayClaim, TypeOK
<1>5. totalReserved' \in Nat /\ balance' \in Nat
  BY <1>1 DEF PayClaim, TypeOK
<1>6. rewards' \subseteq Signature
  BY DEF PayClaim, TypeOK
<1> QED
  BY <1>3, <1>4, <1>5, <1>6 DEF PayClaim, TypeOK, Existing

LEMMA RotatedType ==
  ASSUME NEW c \in Campaign, NEW terms \in CampaignTerms
  PROVE  [c EXCEPT !.terms = terms, !.epoch = @ + 1] \in Campaign
<1> DEFINE epoch == c.epoch + 1
<1>1. epoch \in Nat
  BY DEF Campaign
<1> HIDE DEF epoch
<1>2. [c EXCEPT !.epoch = epoch] \in Campaign
  BY <1>1 DEF Campaign
<1>3. [c EXCEPT !.terms = terms, !.epoch = epoch] \in Campaign
  BY <1>1 DEF Campaign
<1> QED
  BY <1>3 DEF epoch

\* The sponsor's switches keep every field of the campaign in its type.
LEMMA SwitchType ==
  ASSUME NEW id \in CampaignIds, NEW caller \in Sponsors, TypeOK,
         \/ \E paused \in BOOLEAN : SetPaused(caller, id, paused)
         \/ \E signer \in Signers : RotateSigner(caller, id, signer)
  PROVE  TypeOK'
<1>1. id \in Existing /\ campaigns[id] \in Campaign
  BY DEF SetPaused, RotateSigner, Controls, IsOpen, TypeOK
<1>2. campaigns[id].terms \in CampaignTerms
  BY <1>1 DEF Campaign
<1>3. CASE \E paused \in BOOLEAN : SetPaused(caller, id, paused)
  <2>1. PICK paused \in BOOLEAN : SetPaused(caller, id, paused)
    BY <1>3
  <2>2. campaigns' = [campaigns EXCEPT ![id] = [campaigns[id] EXCEPT !.paused = paused]]
    BY <2>1 DEF SetPaused, TypeOK
  <2>3. [campaigns[id] EXCEPT !.paused = paused] \in Campaign
    BY <1>1 DEF Campaign
  <2> QED
    BY <2>1, <2>2, <2>3 DEF SetPaused, TypeOK, Existing
<1>4. CASE \E signer \in Signers : RotateSigner(caller, id, signer)
  <2>1. PICK signer \in Signers : RotateSigner(caller, id, signer)
    BY <1>4
  <2> DEFINE terms == [campaigns[id].terms EXCEPT !.signer = signer]
  <2>2. terms \in CampaignTerms
    BY <1>2 DEF CampaignTerms
  <2> DEFINE rotated == [campaigns[id] EXCEPT !.terms = terms, !.epoch = @ + 1]
  <2>3. campaigns' = [campaigns EXCEPT ![id] = rotated]
    <3>1. campaigns' = [campaigns EXCEPT ![id].terms.signer = signer, ![id].epoch = @ + 1]
      BY <2>1 DEF RotateSigner
    <3>2. campaigns'[id] = rotated
      BY <3>1, <1>1 DEF TypeOK, Campaign
    <3>3. ASSUME NEW i \in Existing, i # id PROVE campaigns'[i] = campaigns[i]
      BY <3>1, <3>3 DEF TypeOK
    <3>4. campaigns' \in [Existing -> {campaigns'[i] : i \in Existing}]
      BY <3>1 DEF TypeOK
    <3> QED
      BY <3>2, <3>3, <3>4, <1>1 DEF TypeOK
  <2>4. rotated \in Campaign
    BY <1>1, <2>2, RotatedType
  <2>5. retired' \subseteq SigningAuthority
    <3>1. InForce(id) \in SigningAuthority
      BY <1>1, <1>2 DEF InForce, SigningAuthority, Campaign, CampaignTerms
    <3> QED
      BY <2>1, <3>1 DEF RotateSigner, TypeOK
  <2> QED
    BY <2>1, <2>3, <2>4, <2>5 DEF RotateSigner, TypeOK, Existing
<1> QED
  BY <1>3, <1>4

\* Every step keeps every variable in its type.
LEMMA TypeKept == TypeOK /\ [Next]_vars => TypeOK'
<1> SUFFICES ASSUME TypeOK, [Next]_vars PROVE TypeOK'
  OBVIOUS
<1>1. CASE UNCHANGED vars
  BY <1>1 DEF vars, chain, TypeOK, Existing
<1>2. CASE Tick
  BY <1>2 DEF Tick, chain, TypeOK, Existing
<1>3. CASE \E amount \in Donations : Donate(amount)
  BY <1>3, TermsAssumption DEF Donate, TypeOK, Existing
<1>4. CASE \E sponsor \in Sponsors, terms \in Terms : CreateCampaign(sponsor, terms)
  BY <1>4, CreateType
<1>5. CASE \E id \in CampaignIds : RefundExpired(id)
  BY <1>5, RefundType DEF RefundExpired, IsOpen
<1>6. CASE \E caller \in Sponsors, id \in CampaignIds : CancelCampaign(caller, id)
  BY <1>6, RefundType DEF CancelCampaign, Controls, IsOpen
<1>7. CASE \E caller \in Sponsors, id \in CampaignIds :
              \/ \E paused \in BOOLEAN : SetPaused(caller, id, paused)
              \/ \E signer \in Signers : RotateSigner(caller, id, signer)
  BY <1>7, SwitchType
<1>8. CASE \E signature \in Signature : PayClaim(signature)
  BY <1>8, PayType
<1> QED
  BY <1>1, <1>2, <1>3, <1>4, <1>5, <1>6, <1>7, <1>8 DEF Next, Govern

\* Every variable keeps its type: no balance, reserve or count ever drops below zero.
THEOREM TypeCorrect == Spec => []TypeOK
<1>1. Init => TypeOK
  BY DEF Init, TypeOK, Existing
<1> QED
  BY <1>1, TypeKept, PTL DEF Spec

-----------------------------------------------------------------------------
(* The contract: the counts of payments.                                    *)

\* The payments of one campaign: as many slots and participants as payments, the slots
\* in range, and the refund made in full or not at all.
Counted(id) ==
    LET c == campaigns[id]
    IN  /\ IsFiniteSet(usedSlots[id]) /\ Cardinality(usedSlots[id]) = c.paid
        /\ IsFiniteSet(claimedParticipants[id]) /\ Cardinality(claimedParticipants[id]) = c.paid
        /\ usedSlots[id] \subseteq 0 .. c.terms.maxClaims - 1
        /\ c.funded = Principal(c.terms)
        /\ IF c.closed THEN Outstanding(c) = 0 ELSE c.refunded = 0

\* The rewards of the history are the slots and participants that are spent.
RewardsSpent ==
    \A r \in rewards : /\ r.claim.id \in Existing
                       /\ r.claim.slot \in usedSlots[r.claim.id]
                       /\ r.claim.participant \in claimedParticipants[r.claim.id]

\* The inductive invariant of the payments.
ClaimsInv ==
    /\ \A id \in Existing : Counted(id)
    /\ \A id \in CampaignIds \ Existing : usedSlots[id] = {} /\ claimedParticipants[id] = {}
    /\ RewardsSpent
    /\ RewardedOnce

\* Fewer payments than rewards leave the price of one reward.
LEMMA PaidProduct ==
  ASSUME NEW paid \in Nat, NEW reward \in Nat, NEW maxClaims \in Nat, paid <= maxClaims
  PROVE  /\ paid * reward \in Nat /\ reward * maxClaims \in Nat
         /\ paid * reward <= reward * maxClaims
         /\ paid < maxClaims => paid * reward + reward <= reward * maxClaims
         /\ (paid + 1) * reward = paid * reward + reward
<1> DEFINE left == maxClaims - paid
<1>1. left \in Nat /\ maxClaims = paid + left
  OBVIOUS
<1>2. reward * maxClaims = paid * reward + left * reward
  BY <1>1
<1>3. left * reward \in Nat
  BY <1>1
<1>4. ASSUME paid < maxClaims PROVE left * reward >= reward
  <2>1. left - 1 \in Nat
    BY <1>4
  <2>2. left * reward = (left - 1) * reward + reward
    BY <1>1
  <2>3. (left - 1) * reward \in Nat
    BY <2>1
  <2> QED
    BY <2>2, <2>3
<1>5. (paid + 1) * reward = paid * reward + reward
  OBVIOUS
<1>6. paid * reward \in Nat
  OBVIOUS
<1> HIDE DEF left
<1> QED
  BY <1>2, <1>3, <1>4, <1>5, <1>6

\* In-range slots cap the payments.
LEMMA PaidCapped ==
  ASSUME TypeOK, NEW id \in Existing, Counted(id)
  PROVE  /\ campaigns[id] \in Campaign
         /\ campaigns[id].paid <= campaigns[id].terms.maxClaims
<1> DEFINE m == campaigns[id].terms.maxClaims
<1>1. campaigns[id] \in Campaign /\ m \in Nat
  BY DEF TypeOK, Campaign, CampaignTerms
<1>2. IsFiniteSet(0 .. m - 1) /\ Cardinality(0 .. m - 1) = m
  BY <1>1, SlotCount
<1>3. usedSlots[id] \subseteq 0 .. m - 1 /\ Cardinality(usedSlots[id]) = campaigns[id].paid
  BY DEF Counted
<1>4. Cardinality(usedSlots[id]) <= Cardinality(0 .. m - 1)
  BY <1>2, <1>3, FS_Subset
<1> QED
  BY <1>1, <1>2, <1>3, <1>4

\* What a campaign still owes is a number, and an open campaign with rewards left owes
\* at least one of them.
LEMMA OwedType ==
  ASSUME TypeOK, NEW id \in Existing, Counted(id)
  PROVE  /\ Outstanding(campaigns[id]) \in Nat
         /\ campaigns[id].paid * campaigns[id].terms.reward \in Nat
         /\ ~campaigns[id].closed /\ campaigns[id].paid < campaigns[id].terms.maxClaims =>
               campaigns[id].terms.reward <= Outstanding(campaigns[id])
<1> DEFINE c == campaigns[id]
<1>1. /\ c.paid \in Nat /\ c.terms.reward \in Nat /\ c.terms.maxClaims \in Nat
      /\ c.funded \in Nat /\ c.refunded \in Nat /\ c.paid <= c.terms.maxClaims
  BY PaidCapped DEF Campaign, CampaignTerms
<1>2. /\ c.paid * c.terms.reward \in Nat /\ c.terms.reward * c.terms.maxClaims \in Nat
      /\ c.paid * c.terms.reward <= c.terms.reward * c.terms.maxClaims
      /\ c.paid < c.terms.maxClaims =>
            c.paid * c.terms.reward + c.terms.reward <= c.terms.reward * c.terms.maxClaims
  <2> DEFINE p == c.paid
             r == c.terms.reward
             m == c.terms.maxClaims
  <2>1. p \in Nat /\ r \in Nat /\ m \in Nat /\ p <= m
    BY <1>1
  <2> HIDE DEF p, r, m
  <2>2. /\ p * r \in Nat /\ r * m \in Nat /\ p * r <= r * m
        /\ p < m => p * r + r <= r * m
    BY <2>1, PaidProduct, Zenon
  <2> QED
    BY <2>2 DEF p, r, m
<1>3. CASE c.closed
  BY <1>2, <1>3 DEF Counted
<1>4. CASE ~c.closed
  <2>1. c.refunded = 0 /\ c.funded = c.terms.reward * c.terms.maxClaims
    BY <1>4 DEF Counted, Principal
  <2>2. Outstanding(c) = c.terms.reward * c.terms.maxClaims - c.paid * c.terms.reward
    BY <1>2, <2>1 DEF Outstanding
  <2> QED
    BY <1>1, <1>2, <2>2
<1> QED
  BY <1>3, <1>4

\* A campaign whose money and payments a step leaves alone keeps its counts.
LEMMA SameCounts ==
  ASSUME NEW id, Counted(id),
         usedSlots'[id] = usedSlots[id], claimedParticipants'[id] = claimedParticipants[id],
         campaigns'[id].paid = campaigns[id].paid, campaigns'[id].funded = campaigns[id].funded,
         campaigns'[id].refunded = campaigns[id].refunded,
         campaigns'[id].closed = campaigns[id].closed,
         campaigns'[id].terms.reward = campaigns[id].terms.reward,
         campaigns'[id].terms.maxClaims = campaigns[id].terms.maxClaims
  PROVE  Counted(id)' /\ Outstanding(campaigns[id])' = Outstanding(campaigns[id])
  BY DEF Counted, Principal, Outstanding

\* A step that leaves the payments alone and counts right for every campaign keeps the
\* invariant.
LEMMA SameClaims ==
  ASSUME ClaimsInv, Existing \subseteq Existing', \A id \in Existing' : Counted(id)',
         UNCHANGED <<usedSlots, claimedParticipants, rewards>>
  PROVE  ClaimsInv'
  BY DEF ClaimsInv, RewardsSpent, RewardedOnce

LEMMA CreateClaims ==
  ASSUME NEW sponsor \in Sponsors, NEW terms \in Terms, TypeOK, ClaimsInv,
         CreateCampaign(sponsor, terms)
  PROVE  /\ ClaimsInv'
         /\ campaignCount + 1 \notin Existing
         /\ Existing' = Existing \cup {campaignCount + 1}
         /\ campaigns'[campaignCount + 1] = Funded(sponsor, terms)
         /\ \A i \in Existing : campaigns'[i] = campaigns[i]
<1>0. PICK id : id = campaignCount + 1
  OBVIOUS
<1>1. /\ campaignCount \in Nat /\ id \in CampaignIds \ Existing
      /\ Existing' = Existing \cup {id}
  BY <1>0 DEF TypeOK, CreateCampaign, Existing
<1>2. campaigns'[id] = Funded(sponsor, terms) /\ \A i \in Existing : campaigns'[i] = campaigns[i]
  BY <1>0, <1>1 DEF CreateCampaign, Existing
<1>3. Counted(id)'
  <2>1. usedSlots'[id] = {} /\ claimedParticipants'[id] = {}
    BY <1>1 DEF ClaimsInv, CreateCampaign
  <2>2. IsFiniteSet({}) /\ Cardinality({}) = 0
    BY FS_EmptySet
  <2>3. /\ campaigns'[id].paid = 0 /\ campaigns'[id].refunded = 0 /\ ~campaigns'[id].closed
        /\ campaigns'[id].terms = terms /\ campaigns'[id].funded = Principal(terms)
    BY <1>2 DEF Funded
  <2>4. {} \subseteq 0 .. campaigns'[id].terms.maxClaims - 1
    OBVIOUS
  <2>5. campaigns'[id].funded = Principal(campaigns'[id].terms)
    BY <2>3
  <2> QED
    BY <2>1, <2>2, <2>3, <2>4, <2>5 DEF Counted, Principal
<1>4. \A i \in Existing : Counted(i)'
  BY <1>2, SameCounts DEF ClaimsInv, CreateCampaign
<1>5. ClaimsInv'
  <2>1. UNCHANGED <<usedSlots, claimedParticipants, rewards>>
    BY DEF CreateCampaign
  <2>2. \A i \in Existing' : Counted(i)'
    BY <1>1, <1>3, <1>4
  <2> QED
    BY <1>1, <2>1, <2>2, SameClaims
<1> QED
  BY <1>0, <1>1, <1>2, <1>5

\* A refund closes the campaign with nothing outstanding.
LEMMA RefundClaims ==
  ASSUME NEW id \in Existing, TypeOK, ClaimsInv, ~campaigns[id].closed, Refund(id)
  PROVE  /\ ClaimsInv'
         /\ campaigns'[id].closed
         /\ \A i \in Existing : i # id => campaigns'[i] = campaigns[i]
<1> DEFINE c == campaigns[id]
<1> DEFINE amount == Outstanding(c)
<1>1. c \in Campaign /\ Counted(id) /\ amount \in Nat /\ c.paid * c.terms.reward \in Nat
  BY OwedType DEF TypeOK, ClaimsInv
<1>2. /\ campaigns'[id].paid = c.paid /\ campaigns'[id].terms = c.terms
      /\ campaigns'[id].funded = c.funded /\ campaigns'[id].closed
      /\ campaigns'[id].refunded = c.refunded + amount
  BY <1>1 DEF Refund, TypeOK, Campaign
<1>3. Outstanding(campaigns'[id]) = 0
  <2>1. c.funded \in Nat /\ c.refunded \in Nat
    BY <1>1 DEF Campaign
  <2>2. Outstanding(campaigns'[id]) = c.funded - c.paid * c.terms.reward - (c.refunded + amount)
    BY <1>2 DEF Outstanding
  <2>3. amount = c.funded - c.paid * c.terms.reward - c.refunded
    BY DEF Outstanding
  <2> HIDE DEF amount
  <2> QED
    BY <1>1, <2>1, <2>2, <2>3
<1>4. Counted(id)'
  BY <1>1, <1>2, <1>3 DEF Counted, Refund, Outstanding
<1>5. \A i \in Existing : i # id => campaigns'[i] = campaigns[i]
  BY DEF Refund, TypeOK
<1>6. \A i \in Existing : i # id => Counted(i)'
  BY <1>5, SameCounts DEF ClaimsInv, Refund
<1>7. ClaimsInv'
  BY <1>4, <1>6, SameClaims DEF Refund, Existing
<1> QED
  BY <1>2, <1>5, <1>7

\* The sponsor's switches touch no money and no payment.
LEMMA SwitchClaims ==
  ASSUME NEW id \in CampaignIds, NEW caller \in Sponsors, TypeOK, ClaimsInv,
         \/ \E paused \in BOOLEAN : SetPaused(caller, id, paused)
         \/ \E signer \in Signers : RotateSigner(caller, id, signer)
  PROVE  /\ ClaimsInv'
         /\ \A i \in Existing :
               /\ campaigns'[i].closed = campaigns[i].closed
               /\ Outstanding(campaigns[i])' = Outstanding(campaigns[i])
<1> DEFINE Same(i) ==
      /\ campaigns'[i].paid = campaigns[i].paid /\ campaigns'[i].funded = campaigns[i].funded
      /\ campaigns'[i].refunded = campaigns[i].refunded
      /\ campaigns'[i].closed = campaigns[i].closed
      /\ campaigns'[i].terms.reward = campaigns[i].terms.reward
      /\ campaigns'[i].terms.maxClaims = campaigns[i].terms.maxClaims
<1>1. UNCHANGED <<usedSlots, claimedParticipants, rewards, campaignCount>>
  BY DEF SetPaused, RotateSigner
<1>2. \A i \in Existing : Same(i)
  <2>1. CASE \E paused \in BOOLEAN : SetPaused(caller, id, paused)
    BY <2>1 DEF SetPaused, TypeOK, Campaign
  <2>2. CASE \E signer \in Signers : RotateSigner(caller, id, signer)
    BY <2>2 DEF RotateSigner, TypeOK, Campaign, CampaignTerms
  <2> QED
    BY <2>1, <2>2
<1>3. \A i \in Existing : Counted(i)' /\ Outstanding(campaigns[i])' = Outstanding(campaigns[i])
  <2> SUFFICES ASSUME NEW i \in Existing
               PROVE  Counted(i)' /\ Outstanding(campaigns[i])' = Outstanding(campaigns[i])
    OBVIOUS
  <2>1. Same(i) /\ Counted(i)
    BY <1>2 DEF ClaimsInv
  <2> QED
    BY <1>1, <2>1, SameCounts
<1> QED
  BY <1>1, <1>2, <1>3, SameClaims DEF Existing

\* A claim counts once: its slot and its participant were not spent before.
LEMMA PayClaims ==
  ASSUME NEW signature \in Signature, TypeOK, ClaimsInv, PayClaim(signature)
  PROVE  /\ ClaimsInv'
         /\ signature.claim.id \in OpenIds /\ signature.claim.amount \in Nat
         /\ signature.claim.amount <= Outstanding(campaigns[signature.claim.id])
         /\ \A i \in Existing : campaigns'[i].closed = campaigns[i].closed
         /\ \A i \in Existing : i # signature.claim.id => campaigns'[i] = campaigns[i]
         /\ Outstanding(campaigns[signature.claim.id])'
               = Outstanding(campaigns[signature.claim.id]) - signature.claim.amount
<1>1. PICK claim : claim = signature.claim
  OBVIOUS
<1>2. PICK id : id = claim.id
  OBVIOUS
<1>3. /\ id \in CampaignIds /\ claim.slot \in Nat /\ claim.amount \in Nat
      /\ claim.participant \in Participants
  BY <1>1, <1>2, ClaimsAssumption DEF Signature, Claim
<1>4. /\ id \in Existing /\ ~campaigns[id].closed /\ Counted(id) /\ campaigns[id] \in Campaign
      /\ claim.slot \notin usedSlots[id] /\ claim.participant \notin claimedParticipants[id]
      /\ claim.slot < campaigns[id].terms.maxClaims
      /\ claim.amount = campaigns[id].terms.reward
  BY <1>1, <1>2 DEF PayClaim, IsOpen, Unclaimed, Matches, ClaimsInv, TypeOK
<1> DEFINE c == campaigns[id]
<1>5. /\ usedSlots' = [usedSlots EXCEPT ![id] = @ \cup {claim.slot}]
      /\ claimedParticipants' = [claimedParticipants EXCEPT ![id] = @ \cup {claim.participant}]
      /\ campaigns' = [campaigns EXCEPT ![id].paid = @ + 1]
      /\ rewards' = rewards \cup {signature}
      /\ Existing' = Existing
  BY <1>1, <1>2 DEF PayClaim, Existing
<1>6. /\ usedSlots'[id] = usedSlots[id] \cup {claim.slot}
      /\ claimedParticipants'[id] = claimedParticipants[id] \cup {claim.participant}
      /\ \A i \in CampaignIds : i # id => usedSlots'[i] = usedSlots[i]
                                          /\ claimedParticipants'[i] = claimedParticipants[i]
  BY <1>3, <1>5 DEF TypeOK
<1>7. /\ campaigns'[id].paid = c.paid + 1 /\ campaigns'[id].terms = c.terms
      /\ campaigns'[id].funded = c.funded /\ campaigns'[id].refunded = c.refunded
      /\ campaigns'[id].closed = c.closed
      /\ \A i \in Existing : i # id => campaigns'[i] = campaigns[i]
  BY <1>4, <1>5 DEF TypeOK, Campaign
<1>8. /\ c.paid \in Nat /\ c.terms.reward \in Nat /\ c.terms.maxClaims \in Nat
      /\ c.funded \in Nat /\ c.refunded = 0
  BY <1>4 DEF Campaign, CampaignTerms, Counted
<1>9. Counted(id)'
  <2>1. /\ IsFiniteSet(usedSlots[id] \cup {claim.slot})
        /\ Cardinality(usedSlots[id] \cup {claim.slot}) = c.paid + 1
    BY <1>4, FS_AddElement DEF Counted
  <2>2. /\ IsFiniteSet(claimedParticipants[id] \cup {claim.participant})
        /\ Cardinality(claimedParticipants[id] \cup {claim.participant}) = c.paid + 1
    <3>1. /\ IsFiniteSet(claimedParticipants[id]) /\ Cardinality(claimedParticipants[id]) = c.paid
          /\ claim.participant \notin claimedParticipants[id]
      BY <1>4 DEF Counted
    <3> QED
      BY <3>1, FS_AddElement
  <2>3. usedSlots[id] \cup {claim.slot} \subseteq 0 .. c.terms.maxClaims - 1
    BY <1>3, <1>4, <1>8 DEF Counted
  <2>4. ~c.closed /\ c.refunded = 0 /\ c.funded = Principal(c.terms)
    BY <1>4 DEF Counted
  <2> HIDE DEF c
  <2> QED
    BY <1>6, <1>7, <2>1, <2>2, <2>3, <2>4 DEF Counted, Principal
<1>10. /\ claim.amount <= Outstanding(c)
       /\ Outstanding(campaigns'[id]) = Outstanding(c) - claim.amount
  <2> DEFINE p == c.paid
             r == c.terms.reward
             m == c.terms.maxClaims
  <2>1. p + 1 <= m
    <3>1. /\ IsFiniteSet(usedSlots[id] \cup {claim.slot})
          /\ Cardinality(usedSlots[id] \cup {claim.slot}) = p + 1
      BY <1>4, FS_AddElement DEF Counted
    <3>2. usedSlots[id] \cup {claim.slot} \subseteq 0 .. m - 1
      BY <1>3, <1>4, <1>8 DEF Counted
    <3>3. IsFiniteSet(0 .. m - 1) /\ Cardinality(0 .. m - 1) = m
      BY <1>8, SlotCount
    <3>4. Cardinality(usedSlots[id] \cup {claim.slot}) <= Cardinality(0 .. m - 1)
      BY <3>2, <3>3, FS_Subset
    <3> QED
      BY <3>1, <3>3, <3>4
  <2>2. p \in Nat /\ r \in Nat /\ m \in Nat
    BY <1>8
  <2>3. p * r \in Nat /\ (p + 1) * r = p * r + r
    <3> HIDE DEF p, r, m
    <3> QED
      BY <2>1, <2>2, PaidProduct
  <2>4. r <= Outstanding(c)
    BY <1>4, <2>1, <2>2, OwedType
  <2>5. Outstanding(c) = c.funded - p * r - c.refunded
    BY DEF Outstanding
  <2>6. Outstanding(campaigns'[id]) = c.funded - (p + 1) * r - c.refunded
    BY <1>7 DEF Outstanding
  <2>7. claim.amount = r
    BY <1>4
  <2> HIDE DEF p, r, m
  <2> QED
    BY <1>8, <2>2, <2>3, <2>4, <2>5, <2>6, <2>7
<1>11. \A i \in Existing : i # id => Counted(i)'
  <2> SUFFICES ASSUME NEW i \in Existing, i # id PROVE Counted(i)'
    OBVIOUS
  <2>1. Counted(i) /\ i \in CampaignIds
    BY DEF ClaimsInv, TypeOK
  <2> QED
    BY <1>6, <1>7, <2>1, SameCounts
<1>12. RewardsSpent' /\ RewardedOnce'
  <2>1. \A r \in rewards' : r = signature \/ r \in rewards
    BY <1>5
  <2>2. \A r \in rewards : /\ r.claim.id \in Existing /\ r.claim.id \in CampaignIds
                           /\ r.claim.slot \in usedSlots[r.claim.id]
                           /\ r.claim.participant \in claimedParticipants[r.claim.id]
    BY DEF ClaimsInv, RewardsSpent, TypeOK
  <2>3. RewardsSpent'
    BY <1>1, <1>2, <1>4, <1>5, <1>6, <2>1, <2>2 DEF RewardsSpent
  <2>4. ASSUME NEW r \in rewards, r.claim.id = id
        PROVE  r.claim.slot # claim.slot /\ r.claim.participant # claim.participant
    BY <1>4, <2>2, <2>4
  <2>5. RewardedOnce'
    BY <1>1, <1>2, <2>1, <2>4 DEF ClaimsInv, RewardedOnce
  <2> QED
    BY <2>3, <2>5
<1>13. \A i \in CampaignIds \ Existing : usedSlots'[i] = {} /\ claimedParticipants'[i] = {}
  BY <1>4, <1>6 DEF ClaimsInv
<1>14. ClaimsInv'
  BY <1>5, <1>9, <1>11, <1>12, <1>13 DEF ClaimsInv
<1>15. id \in OpenIds /\ \A i \in Existing : campaigns'[i].closed = campaigns[i].closed
  BY <1>4, <1>7 DEF OpenIds
<1> QED
  BY <1>1, <1>2, <1>3, <1>7, <1>10, <1>14, <1>15

LEMMA ClaimsInvariant == Spec => []ClaimsInv
<1>1. Init => ClaimsInv
  BY DEF Init, ClaimsInv, Existing, RewardsSpent, RewardedOnce
<1>2. TypeOK /\ ClaimsInv /\ [Next]_vars => ClaimsInv'
  <2> SUFFICES ASSUME TypeOK, ClaimsInv, [Next]_vars PROVE ClaimsInv'
    OBVIOUS
  <2>1. CASE UNCHANGED vars \/ Tick \/ \E amount \in Donations : Donate(amount)
    <3>1. UNCHANGED <<campaignCount, campaigns, usedSlots, claimedParticipants, rewards>>
      BY <2>1 DEF vars, chain, Tick, Donate
    <3> QED
      BY <3>1 DEF ClaimsInv, Counted, Existing, Outstanding, RewardsSpent, RewardedOnce
  <2>2. CASE \E sponsor \in Sponsors, terms \in Terms : CreateCampaign(sponsor, terms)
    BY <2>2, CreateClaims
  <2>3. CASE \E id \in CampaignIds : RefundExpired(id)
    BY <2>3, RefundClaims DEF RefundExpired, IsOpen
  <2>4. CASE \E caller \in Sponsors, id \in CampaignIds : CancelCampaign(caller, id)
    BY <2>4, RefundClaims DEF CancelCampaign, Controls, IsOpen
  <2>5. CASE \E caller \in Sponsors, id \in CampaignIds :
                \/ \E paused \in BOOLEAN : SetPaused(caller, id, paused)
                \/ \E signer \in Signers : RotateSigner(caller, id, signer)
    BY <2>5, SwitchClaims
  <2>6. CASE \E signature \in Signature : PayClaim(signature)
    BY <2>6, PayClaims
  <2> QED
    BY <2>1, <2>2, <2>3, <2>4, <2>5, <2>6 DEF Next, Govern
<1> QED
  BY <1>1, <1>2, TypeCorrect, PTL DEF Spec

\* No campaign pays one reward more than its sponsor funded, whatever its signers sign.
THEOREM FundingCapsPayments == Spec => []PaidWithinFunding
<1>1. TypeOK /\ ClaimsInv => PaidWithinFunding
  <2> SUFFICES ASSUME TypeOK, ClaimsInv, NEW id \in Existing
               PROVE  LET c == campaigns[id]
                      IN  /\ usedSlots[id] \subseteq 0 .. c.terms.maxClaims - 1
                          /\ Cardinality(usedSlots[id]) = c.paid
                          /\ Cardinality(claimedParticipants[id]) = c.paid
                          /\ c.paid <= c.terms.maxClaims
                          /\ c.paid * c.terms.reward + c.refunded <= c.funded
    BY DEF PaidWithinFunding
  <2> DEFINE c == campaigns[id]
  <2>1. Counted(id)
    BY DEF ClaimsInv
  <2>2. c.funded \in Nat /\ c.refunded \in Nat /\ c.paid <= c.terms.maxClaims
    BY <2>1, PaidCapped DEF Campaign
  <2>3. c.paid * c.terms.reward \in Nat /\ Outstanding(c) >= 0
    BY <2>1, OwedType
  <2>4. c.paid * c.terms.reward + c.refunded <= c.funded
    BY <2>2, <2>3 DEF Outstanding
  <2> QED
    BY <2>1, <2>2, <2>4 DEF Counted
<1> QED
  BY <1>1, TypeCorrect, ClaimsInvariant, PTL

\* No slot and no participant is rewarded twice.
THEOREM NobodyRewardedTwice == Spec => []RewardedOnce
<1>1. ClaimsInv => RewardedOnce
  BY DEF ClaimsInv
<1> QED
  BY <1>1, ClaimsInvariant, PTL

\* A closed campaign keeps nothing.
THEOREM ClosedKeepsNothing == Spec => []ClosedEmpty
<1>1. ClaimsInv => ClosedEmpty
  BY DEF ClaimsInv, Counted, ClosedEmpty
<1> QED
  BY <1>1, ClaimsInvariant, PTL

-----------------------------------------------------------------------------
(* The contract: the sum of what is owed.                                   *)

Owed(id) == Outstanding(campaigns[id])

LEMMA OwedUnits ==
  ASSUME NEW k, NEW u
  PROVE  <<k, u>> \in ReservedUnits <=> k \in OpenIds /\ u \in 1 .. Owed(k)
  BY DEF ReservedUnits, Owed

\* A step that changes neither the open campaigns nor what they owe keeps the units.
LEMMA SameUnits ==
  ASSUME OpenIds' = OpenIds, \A id \in OpenIds : Owed(id)' = Owed(id)
  PROVE  ReservedUnits' = ReservedUnits
  BY DEF ReservedUnits, Owed

\* A payment or a refund takes its amount from the block of its campaign.
LEMMA UnitsTaken ==
  ASSUME NEW id \in OpenIds, NEW b \in Nat, Owed(id) \in Nat, IsFiniteSet(ReservedUnits),
         \A i \in OpenIds : i # id => i \in OpenIds' /\ Owed(i)' = Owed(i),
         OpenIds' \subseteq OpenIds,
         IF id \in OpenIds' THEN Owed(id)' = b ELSE b = 0
  PROVE  /\ IsFiniteSet(ReservedUnits')
         /\ Cardinality(ReservedUnits') = Cardinality(ReservedUnits) - Owed(id) + b
<1>1. PICK a : a = Owed(id)
  OBVIOUS
<1>2. Block(id, a) \subseteq ReservedUnits /\ \A u : <<id, u>> \in ReservedUnits => u \in 1 .. a
  BY <1>1 DEF Block, ReservedUnits, Owed
<1>3. ReservedUnits' = (ReservedUnits \ Block(id, a)) \cup Block(id, b)
  <2>1. ReservedUnits' = UNION {Block(i, Owed(i)') : i \in OpenIds'}
    BY DEF ReservedUnits, Owed, Block
  <2>2. ReservedUnits = UNION {Block(i, Owed(i)) : i \in OpenIds}
    BY DEF ReservedUnits, Owed, Block
  <2>3. ReservedUnits \ Block(id, a) = UNION {Block(i, Owed(i)) : i \in OpenIds \ {id}}
    BY <1>1, <2>2 DEF Block
  <2>4. CASE id \in OpenIds'
    <3>1. OpenIds' = OpenIds
      BY <2>4
    <3>2. Owed(id)' = b
      BY <2>4
    <3> QED
      BY <2>1, <2>3, <3>1, <3>2
  <2>5. CASE id \notin OpenIds'
    <3>1. OpenIds' = OpenIds \ {id} /\ Block(id, b) = {}
      BY <2>5 DEF Block
    <3> QED
      BY <2>1, <2>3, <3>1
  <2> QED
    BY <2>4, <2>5
<1> QED
  BY <1>1, <1>2, <1>3, ReplaceBlock

LEMMA CreateAccounting ==
  ASSUME NEW sponsor \in Sponsors, NEW terms \in Terms, TypeOK, ClaimsInv, Accounting,
         CreateCampaign(sponsor, terms)
  PROVE  Accounting'
<1>1. PICK id : id = campaignCount + 1
  OBVIOUS
<1>2. PICK a \in Nat : a = Principal(terms)
  BY FundedType DEF CreateCampaign
<1>3. /\ id \notin Existing /\ Existing' = Existing \cup {id}
      /\ campaigns'[id] = Funded(sponsor, terms)
      /\ \A i \in Existing : campaigns'[i] = campaigns[i]
  BY <1>1, CreateClaims
<1>4. OpenIds' = OpenIds \cup {id} /\ \A i \in OpenIds : Owed(i)' = Owed(i)
  BY <1>3 DEF OpenIds, Funded, Owed
<1>5. Owed(id)' = a
  <2>1. /\ campaigns'[id].paid = 0 /\ campaigns'[id].refunded = 0
        /\ campaigns'[id].funded = a /\ campaigns'[id].terms.reward \in Nat
    BY <1>2, <1>3, TermsAssumption DEF Funded, Offer
  <2> QED
    BY <2>1 DEF Owed, Outstanding
<1>6. ReservedUnits' = ReservedUnits \cup Block(id, a)
  <2>1. ReservedUnits' = UNION {Block(i, Owed(i)') : i \in OpenIds'}
    BY DEF ReservedUnits, Owed, Block
  <2>2. ReservedUnits = UNION {Block(i, Owed(i)) : i \in OpenIds}
    BY DEF ReservedUnits, Owed, Block
  <2> QED
    BY <1>4, <1>5, <2>1, <2>2
<1>7. \A u : <<id, u>> \notin ReservedUnits
  BY <1>3, OwedUnits DEF OpenIds
<1>8. totalReserved' = totalReserved + a /\ balance' = balance + a /\ surplus' = surplus
  BY <1>2 DEF CreateCampaign
<1>9. /\ totalReserved \in Nat /\ surplus \in Nat /\ balance = totalReserved + surplus
      /\ IsFiniteSet(ReservedUnits) /\ Cardinality(ReservedUnits) = totalReserved
  BY DEF TypeOK, Accounting
<1>10. IsFiniteSet(ReservedUnits') /\ Cardinality(ReservedUnits') = totalReserved'
  BY <1>6, <1>7, <1>8, <1>9, AddBlock
<1>11. balance' = totalReserved' + surplus'
  BY <1>8, <1>9
<1> QED
  BY <1>10, <1>11 DEF Accounting

LEMMA RefundAccounting ==
  ASSUME NEW id \in Existing, TypeOK, ClaimsInv, Accounting, ~campaigns[id].closed, Refund(id)
  PROVE  Accounting'
<1>1. PICK a \in Nat : a = Owed(id)
  BY OwedType DEF ClaimsInv, Owed
<1>2. campaigns'[id].closed /\ \A i \in Existing : i # id => campaigns'[i] = campaigns[i]
  BY RefundClaims
<1>3. /\ id \in OpenIds /\ OpenIds' \subseteq OpenIds /\ id \notin OpenIds'
      /\ \A i \in OpenIds : i # id => i \in OpenIds' /\ Owed(i)' = Owed(i)
  BY <1>2 DEF OpenIds, Owed, Refund, Existing
<1>4. /\ IsFiniteSet(ReservedUnits')
      /\ Cardinality(ReservedUnits') = Cardinality(ReservedUnits) - a + 0
  BY <1>1, <1>3, UnitsTaken DEF Accounting
<1>5. totalReserved' = totalReserved - a /\ balance' = balance - a /\ surplus' = surplus
  BY <1>1 DEF Refund, Owed
<1>6. totalReserved \in Nat /\ surplus \in Nat
  BY DEF TypeOK
<1> QED
  BY <1>4, <1>5, <1>6 DEF Accounting

LEMMA PayAccounting ==
  ASSUME NEW signature \in Signature, TypeOK, ClaimsInv, Accounting, PayClaim(signature)
  PROVE  Accounting'
<1>1. PICK id : id = signature.claim.id
  OBVIOUS
<1>2. PICK r \in Nat : r = signature.claim.amount
  BY PayClaims
<1>3. /\ id \in OpenIds /\ r <= Owed(id) /\ Owed(id)' = Owed(id) - r
      /\ \A i \in Existing : campaigns'[i].closed = campaigns[i].closed
      /\ \A i \in Existing : i # id => campaigns'[i] = campaigns[i]
  BY <1>1, <1>2, PayClaims DEF Owed
<1>4. PICK a \in Nat : a = Owed(id)
  BY <1>3, OwedType DEF ClaimsInv, Owed, OpenIds
<1>5. /\ OpenIds' = OpenIds
      /\ \A i \in OpenIds : i # id => Owed(i)' = Owed(i)
  BY <1>3 DEF OpenIds, Owed, PayClaim, Existing
<1>6. a - r \in Nat
  BY <1>3, <1>4
<1>7. /\ IsFiniteSet(ReservedUnits')
      /\ Cardinality(ReservedUnits') = Cardinality(ReservedUnits) - a + (a - r)
  <2>1. PICK b \in Nat : b = a - r
    BY <1>6
  <2>2. Owed(id)' = b /\ IsFiniteSet(ReservedUnits) /\ Owed(id) \in Nat
    BY <1>3, <1>4, <2>1 DEF Accounting
  <2>3. /\ IsFiniteSet(ReservedUnits')
        /\ Cardinality(ReservedUnits') = Cardinality(ReservedUnits) - Owed(id) + b
    BY <1>3, <1>5, <2>2, UnitsTaken
  <2> QED
    BY <1>4, <2>1, <2>3
<1>8. totalReserved' = totalReserved - r /\ balance' = balance - r /\ surplus' = surplus
  BY <1>2 DEF PayClaim
<1>9. totalReserved \in Nat /\ surplus \in Nat
  BY DEF TypeOK
<1> QED
  BY <1>7, <1>8, <1>9 DEF Accounting

\* The contract holds exactly what its open campaigns owe, plus what nobody can claim.
THEOREM ReservesAccounted == Spec => []Accounting
<1>1. Init => Accounting
  <2> SUFFICES ASSUME Init PROVE Accounting
    OBVIOUS
  <2>1. ReservedUnits = {}
    BY DEF Init, ReservedUnits, OpenIds, Existing
  <2> QED
    BY <2>1, FS_EmptySet DEF Init, Accounting
<1>2. TypeOK /\ ClaimsInv /\ Accounting /\ [Next]_vars => Accounting'
  <2> SUFFICES ASSUME TypeOK, ClaimsInv, Accounting, [Next]_vars PROVE Accounting'
    OBVIOUS
  <2>1. CASE UNCHANGED vars \/ Tick
    <3>1. UNCHANGED chain
      BY <2>1 DEF vars, Tick
    <3> QED
      BY <3>1, SameUnits DEF chain, Accounting, OpenIds, Owed, Existing
  <2>2. CASE \E amount \in Donations : Donate(amount)
    <3>1. PICK amount \in Donations : Donate(amount)
      BY <2>2
    <3>2. ReservedUnits' = ReservedUnits
      BY <3>1, SameUnits DEF Donate, OpenIds, Owed, Existing
    <3>3. amount \in Nat /\ totalReserved \in Nat /\ surplus \in Nat
      BY TermsAssumption DEF TypeOK
    <3> QED
      BY <3>1, <3>2, <3>3 DEF Donate, Accounting
  <2>3. CASE \E sponsor \in Sponsors, terms \in Terms : CreateCampaign(sponsor, terms)
    BY <2>3, CreateAccounting
  <2>4. CASE \E id \in CampaignIds : RefundExpired(id)
    BY <2>4, RefundAccounting DEF RefundExpired, IsOpen
  <2>5. CASE \E caller \in Sponsors, id \in CampaignIds : CancelCampaign(caller, id)
    BY <2>5, RefundAccounting DEF CancelCampaign, Controls, IsOpen
  <2>6. CASE \E caller \in Sponsors, id \in CampaignIds :
                \/ \E paused \in BOOLEAN : SetPaused(caller, id, paused)
                \/ \E signer \in Signers : RotateSigner(caller, id, signer)
    <3>1. UNCHANGED <<campaignCount, totalReserved, balance, surplus>>
      BY <2>6 DEF SetPaused, RotateSigner
    <3>2. \A i \in Existing : campaigns'[i].closed = campaigns[i].closed /\ Owed(i)' = Owed(i)
      BY <2>6, SwitchClaims DEF Owed
    <3>3. OpenIds' = OpenIds /\ \A i \in OpenIds : Owed(i)' = Owed(i)
      BY <3>1, <3>2 DEF OpenIds, Existing
    <3> QED
      BY <3>1, <3>3, SameUnits DEF Accounting
  <2>7. CASE \E signature \in Signature : PayClaim(signature)
    BY <2>7, PayAccounting
  <2> QED
    BY <2>1, <2>2, <2>3, <2>4, <2>5, <2>6, <2>7 DEF Next, Govern
<1> QED
  BY <1>1, <1>2, TypeCorrect, ClaimsInvariant, PTL DEF Spec

\* Every open campaign's refund and every reward it has left are covered, so neither the
\* checked subtractions nor the token transfers of LearningRewards.sol can revert for
\* want of tokens.
THEOREM RefundsAlwaysCovered == Spec => []NothingUnderflows
<1>1. TypeOK /\ ClaimsInv /\ Accounting => NothingUnderflows
  <2> SUFFICES ASSUME TypeOK, ClaimsInv, Accounting, NEW id \in OpenIds
               PROVE  LET c == campaigns[id]
                      IN  /\ Outstanding(c) \in 0 .. totalReserved /\ Outstanding(c) <= balance
                          /\ c.paid < c.terms.maxClaims => c.terms.reward <= Outstanding(c)
    BY DEF NothingUnderflows
  <2>1. id \in Existing /\ Counted(id) /\ ~campaigns[id].closed
    BY DEF OpenIds, ClaimsInv
  <2>2. PICK a \in Nat : a = Owed(id)
    BY <2>1, OwedType DEF Owed
  <2>3. Block(id, a) \subseteq ReservedUnits
    BY <2>2 DEF Block, ReservedUnits, Owed
  <2>4. Cardinality(Block(id, a)) = a
    BY BlockSize
  <2>5. a <= totalReserved
    BY <2>3, <2>4, FS_Subset DEF Accounting
  <2>6. totalReserved \in Nat /\ surplus \in Nat /\ balance = totalReserved + surplus
    BY DEF TypeOK, Accounting
  <2> QED
    BY <2>1, <2>2, <2>5, <2>6, OwedType DEF Owed
<1> QED
  BY <1>1, TypeCorrect, ClaimsInvariant, ReservesAccounted, PTL

\* All of them together: a sponsor's funding is the limit of what its signers can spend,
\* each participant is rewarded once, every refund is there in full, and the accounts balance.
THEOREM RewardsAreSafe == Spec => []RewardsSafe
  BY ReservesAccounted, FundingCapsPayments, NobodyRewardedTwice, RefundsAlwaysCovered, ClosedKeepsNothing, PTL
     DEF RewardsSafe

-----------------------------------------------------------------------------
(* The contract: what a step never takes back.                              *)

\* What a step never does to a campaign: its epoch does not go back, and neither its
\* signer changes within an epoch nor any other term at all.
Continued(id) ==
    /\ campaigns'[id].epoch \in Epochs
    /\ campaigns[id].epoch <= campaigns'[id].epoch
    /\ campaigns'[id].terms = [campaigns[id].terms EXCEPT !.signer = campaigns'[id].terms.signer]
    /\ campaigns'[id].epoch = campaigns[id].epoch =>
          campaigns'[id].terms.signer = campaigns[id].terms.signer

LEMMA SameContinues ==
  ASSUME NEW id, campaigns[id] \in Campaign, campaigns[id].epoch \in Epochs,
         campaigns'[id].epoch = campaigns[id].epoch, campaigns'[id].terms = campaigns[id].terms
  PROVE  Continued(id)
<1>1. campaigns[id].epoch \in Nat /\ campaigns[id].terms \in CampaignTerms
  BY DEF Campaign
<1>2. [campaigns[id].terms EXCEPT !.signer = campaigns[id].terms.signer] = campaigns[id].terms
  BY <1>1 DEF CampaignTerms
<1> QED
  BY <1>1, <1>2 DEF Continued

LEMMA RotationContinues ==
  ASSUME TypeOK, NEW id \in Existing, NEW caller \in Sponsors, NEW i \in CampaignIds,
         NEW signer \in Signers, campaigns[id].epoch \in Epochs, RotateSigner(caller, i, signer)
  PROVE  Continued(id)
<1>1. /\ i \in Existing /\ campaigns[i] \in Campaign /\ campaigns[id] \in Campaign
      /\ campaigns[i].epoch < MaxEpoch
      /\ campaigns' = [campaigns EXCEPT ![i].terms.signer = signer, ![i].epoch = @ + 1]
  BY DEF RotateSigner, Controls, IsOpen, TypeOK
<1>2. CASE id # i
  <2>1. campaigns'[id] = campaigns[id]
    BY <1>1, <1>2 DEF TypeOK
  <2> QED
    BY <1>1, <2>1, SameContinues
<1>3. CASE id = i
  <2>1. /\ campaigns'[id].epoch = campaigns[id].epoch + 1
        /\ campaigns'[id].terms = [campaigns[id].terms EXCEPT !.signer = signer]
    BY <1>1, <1>3 DEF TypeOK, Campaign
  <2>2. campaigns[id].terms \in CampaignTerms /\ campaigns[id].epoch \in Nat
    BY <1>1 DEF Campaign
  <2>3. campaigns'[id].terms.signer = signer
    BY <2>1, <2>2 DEF CampaignTerms
  <2>4. /\ campaigns'[id].epoch \in Epochs /\ campaigns[id].epoch <= campaigns'[id].epoch
        /\ campaigns'[id].epoch # campaigns[id].epoch
    BY <1>1, <1>3, <2>1, <2>2, BoundsAssumption DEF Epochs
  <2> QED
    BY <2>1, <2>3, <2>4 DEF Continued
<1> QED
  BY <1>2, <1>3

\* Only a rotation changes the signer or the epoch of a campaign that is there.
LEMMA OnlyRotationsRotate ==
  ASSUME TypeOK, [Next]_vars, NEW id \in Existing,
         ~\E caller \in Sponsors, i \in CampaignIds, signer \in Signers :
             RotateSigner(caller, i, signer)
  PROVE  /\ id \in Existing'
         /\ campaigns'[id].epoch = campaigns[id].epoch
         /\ campaigns'[id].terms = campaigns[id].terms
<1>1. campaigns[id] \in Campaign /\ campaignCount \in Nat
  BY DEF TypeOK
<1>2. CASE UNCHANGED vars \/ Tick \/ \E amount \in Donations : Donate(amount)
  BY <1>2 DEF vars, chain, Tick, Donate, Existing
<1>3. CASE \E sponsor \in Sponsors, terms \in Terms : CreateCampaign(sponsor, terms)
  <2>1. campaigns'[id] = campaigns[id] /\ id \in Existing'
    BY <1>1, <1>3 DEF CreateCampaign, Existing
  <2> QED
    BY <2>1
<1>4. CASE \E i \in CampaignIds : Refund(i)
  BY <1>1, <1>4 DEF Refund, TypeOK, Campaign, Existing
<1>5. CASE \E i \in CampaignIds, caller \in Sponsors, paused \in BOOLEAN : SetPaused(caller, i, paused)
  BY <1>1, <1>5 DEF SetPaused, TypeOK, Campaign, Existing
<1>6. CASE \E signature \in Signature : PayClaim(signature)
  BY <1>1, <1>6 DEF PayClaim, TypeOK, Campaign, Existing
<1> QED
  BY <1>2, <1>3, <1>4, <1>5, <1>6 DEF Next, Govern, CancelCampaign, RefundExpired

\* A step of the contract continues every campaign that is there, and one it creates is
\* in the first epoch.
LEMMA ChainContinues ==
  ASSUME TypeOK, [Next]_vars, NEW id \in Existing, campaigns[id].epoch \in Epochs
  PROVE  id \in Existing' /\ Continued(id)
<1>1. CASE \E caller \in Sponsors, i \in CampaignIds, signer \in Signers :
              RotateSigner(caller, i, signer)
  <2>1. Existing' = Existing
    BY <1>1 DEF RotateSigner, Existing
  <2> QED
    BY <1>1, <2>1, RotationContinues
<1>2. CASE ~\E caller \in Sponsors, i \in CampaignIds, signer \in Signers :
              RotateSigner(caller, i, signer)
  <2>1. campaigns[id] \in Campaign
    BY DEF TypeOK
  <2> QED
    BY <1>2, <2>1, OnlyRotationsRotate, SameContinues
<1> QED
  BY <1>1, <1>2

LEMMA CampaignsStart ==
  ASSUME TypeOK, [Next]_vars, NEW id \in Existing' \ Existing
  PROVE  /\ campaigns'[id].epoch = 1
         /\ UNCHANGED <<usedSlots, claimedParticipants, rewards>>
<1>1. CASE \E sponsor \in Sponsors, terms \in Terms : CreateCampaign(sponsor, terms)
  BY <1>1 DEF CreateCampaign, Funded, TypeOK, Existing
<1>2. CASE campaignCount' = campaignCount
  BY <1>2 DEF Existing
<1> QED
  BY <1>1, <1>2 DEF Next, Govern, vars, chain, Tick, Donate, SetPaused, RotateSigner,
     CancelCampaign, RefundExpired, Refund, PayClaim

\* Every campaign stays in an epoch that claims can name.
LEMMA EpochsKept ==
  ASSUME TypeOK, [Next]_vars, \A id \in Existing : campaigns[id].epoch \in Epochs
  PROVE  \A id \in Existing' : campaigns'[id].epoch \in Epochs
<1> SUFFICES ASSUME NEW id \in Existing' PROVE campaigns'[id].epoch \in Epochs
  OBVIOUS
<1>1. CASE id \in Existing
  BY <1>1, ChainContinues DEF Continued
<1>2. CASE id \notin Existing
  BY <1>2, CampaignsStart, BoundsAssumption DEF Epochs
<1> QED
  BY <1>1, <1>2

-----------------------------------------------------------------------------
(* The contract: signer rotation.                                           *)

\* A retired authority is of an epoch that its campaign has left behind.
RetiredInv == \A a \in retired : a.id \in Existing /\ a.epoch < campaigns[a.id].epoch

\* The inductive invariant of the rotations.
RotationInv ==
    /\ TypeOK
    /\ \A id \in Existing : campaigns[id].epoch \in Epochs
    /\ RetiredInv

\* Nothing comes back into force, and the authority in force stays so until it is retired.
LEMMA AuthorityKept ==
  ASSUME TypeOK, [Next]_vars, NEW id \in Existing
  PROVE  /\ retired \subseteq retired'
         /\ \/ InForce(id) \in retired'
            \/ InForce(id)' = InForce(id)
<1>1. CASE \E caller \in Sponsors, i \in CampaignIds, signer \in Signers :
              RotateSigner(caller, i, signer)
  <2>1. PICK caller \in Sponsors, i \in CampaignIds, signer \in Signers :
               RotateSigner(caller, i, signer)
    BY <1>1
  <2>2. retired' = retired \cup {InForce(i)}
    BY <2>1 DEF RotateSigner
  <2>3. CASE id = i
    BY <2>2, <2>3
  <2>4. CASE id # i
    <3>1. campaigns'[id] = campaigns[id]
      BY <2>1, <2>4 DEF RotateSigner, TypeOK
    <3> QED
      BY <2>2, <3>1 DEF InForce
  <2> QED
    BY <2>3, <2>4
<1>2. CASE ~\E caller \in Sponsors, i \in CampaignIds, signer \in Signers :
              RotateSigner(caller, i, signer)
  <2>1. retired' = retired
    BY <1>2 DEF Next, Govern, vars, chain, Tick, Donate, SetPaused,
       CancelCampaign, RefundExpired, Refund, CreateCampaign, PayClaim
  <2>2. campaigns'[id].epoch = campaigns[id].epoch /\ campaigns'[id].terms = campaigns[id].terms
    BY <1>2, OnlyRotationsRotate
  <2> QED
    BY <2>1, <2>2 DEF InForce
<1> QED
  BY <1>1, <1>2

\* A rotation retires the authority in force and opens an epoch above it; no step goes
\* back to an earlier epoch.
LEMMA RotationInvariant == Spec => []RotationInv
<1>1. Init => RotationInv
  BY DEF Init, RotationInv, RetiredInv, TypeOK, Existing
<1>2. RotationInv /\ [Next]_vars => RotationInv'
  <2> SUFFICES ASSUME RotationInv, [Next]_vars PROVE RotationInv'
    OBVIOUS
  <2>1. TypeOK /\ TypeOK' /\ \A id \in Existing : campaigns[id].epoch \in Epochs
    BY TypeKept DEF RotationInv
  <2>2. \A id \in Existing' : campaigns'[id].epoch \in Epochs
    BY <2>1, EpochsKept
  <2>3. ASSUME NEW a \in retired
        PROVE  a.id \in Existing' /\ a.epoch < campaigns'[a.id].epoch
    <3>1. a.id \in Existing /\ a.epoch < campaigns[a.id].epoch /\ a.epoch \in Nat
      BY DEF RotationInv, RetiredInv, TypeOK, SigningAuthority
    <3>2. a.id \in Existing' /\ Continued(a.id) /\ campaigns[a.id].epoch \in Nat
      BY <2>1, <3>1, ChainContinues DEF TypeOK, Campaign
    <3> QED
      BY <3>1, <3>2, BoundsAssumption DEF Continued, Epochs
  <2>4. ASSUME NEW a \in retired' \ retired
        PROVE  a.id \in Existing' /\ a.epoch < campaigns'[a.id].epoch
    <3>1. PICK caller \in Sponsors, i \in CampaignIds, signer \in Signers :
                 RotateSigner(caller, i, signer)
      BY <2>4 DEF Next, Govern, vars, chain, Tick, Donate, SetPaused,
         CancelCampaign, RefundExpired, Refund, CreateCampaign, PayClaim
    <3>2. a = InForce(i)
      BY <3>1, <2>4 DEF RotateSigner
    <3>3. /\ i \in Existing /\ i \in Existing' /\ campaigns[i].epoch \in Nat
          /\ campaigns'[i].epoch = campaigns[i].epoch + 1
      BY <2>1, <3>1 DEF RotateSigner, Controls, IsOpen, TypeOK, Campaign, Existing
    <3> QED
      BY <3>2, <3>3 DEF InForce
  <2> QED
    BY <2>1, <2>2, <2>3, <2>4 DEF RotationInv, RetiredInv
<1> QED
  BY <1>1, <1>2, PTL DEF Spec

\* What was signed under an authority that a rotation has taken away is never paid: the
\* claim that is paid is of the authority in force, and none that is in force was retired,
\* because every rotation opens a new epoch.
THEOREM RotationIsFinal == Spec => RotationRevokes
<1> DEFINE Revokes == \A s \in rewards' \ rewards : AuthorityOf(s) \notin retired
<1>1. RotationInv /\ [Next]_vars => Revokes
  <2> SUFFICES ASSUME RotationInv, [Next]_vars, NEW s \in rewards' \ rewards
               PROVE  AuthorityOf(s) \notin retired
    OBVIOUS
  <2>1. CASE UNCHANGED vars \/ Govern
    <3>1. rewards' = rewards
      BY <2>1 DEF vars, chain, Govern, CreateCampaign, SetPaused, RotateSigner,
         CancelCampaign, RefundExpired, Refund, Donate, Tick
    <3> QED
      BY <3>1
  <2>2. CASE \E signature \in Signature : PayClaim(signature)
    <3>1. PICK signature \in Signature : PayClaim(signature)
      BY <2>2
    <3>2. s = signature
      BY <3>1 DEF PayClaim
    <3>3. s.claim.id \in Existing /\ s.claim.epoch = campaigns[s.claim.id].epoch
      BY <3>1, <3>2 DEF PayClaim, IsOpen, Matches
    <3>4. campaigns[s.claim.id].epoch \in Nat
      BY <3>3 DEF RotationInv, TypeOK, Campaign
    <3>5. SUFFICES ASSUME AuthorityOf(s) \in retired PROVE FALSE
      OBVIOUS
    <3>6. s.claim.epoch < campaigns[s.claim.id].epoch
      BY <3>5 DEF RotationInv, RetiredInv, AuthorityOf
    <3> QED
      BY <3>3, <3>4, <3>6
  <2> QED
    BY <2>1, <2>2 DEF Next
<1> QED
  BY <1>1, RotationInvariant, PTL DEF Spec, RotationRevokes

-----------------------------------------------------------------------------
(* The inductive invariant of the issuer's own state.                       *)

Allocated(u) == allocations[u] # None

Allocatees == {u \in Users : allocations[u] # None}

\* The database holds the authorization of the user's claim at the block h.
Authorized(u, h) ==
    /\ authorizations[<<u, EpochAt(h)>>] # None
    /\ authorizations[<<u, EpochAt(h)>>].signer = SignerAt(h)

\* The block h has the approved terms, under a signer whose key the server has.
Ours(h) ==
    /\ SignerAt(h) \in Configured
    /\ [heads[h].campaign.terms EXCEPT !.signer = Approved.signer] = Approved

\* A call stands on a finalized block, and past its reservation on saved rows.
CallHolds(k) ==
    calls[k] # None =>
        /\ calls[k].head \in DOMAIN heads
        /\ Ours(calls[k].head)
        /\ calls[k].stage # "loaded" =>
              Allocated(calls[k].user) /\ Authorized(calls[k].user, calls[k].head)

\* The signature s was made for the user u at the block h.
MadeFor(s, u, h) ==
    /\ Ours(h)
    /\ Allocated(u) /\ Authorized(u, h) /\ Unused(u, h)
    /\ s = SignatureFor(u, EpochAt(h), SignerAt(h))

SlotsDistinct ==
    \A u, v \in Users :
        Allocated(u) /\ Allocated(v) /\ allocations[u].slot = allocations[v].slot => u = v

\* The slots are handed out in order, one to a user.
SlotsInv == SlotsFit /\ SlotsDistinct /\ IsFiniteSet(Allocatees)

\* Every campaign, now and at each finalized block, is in an epoch that claims can name.
EpochsHold ==
    /\ \A id \in Existing : campaigns[id].epoch \in Epochs
    /\ \A h \in DOMAIN heads : EpochAt(h) \in Epochs

CallsHold == \A k \in Calls : CallHolds(k)

SignaturesHold == \A s \in signatures : \E u \in Users, h \in DOMAIN heads : MadeFor(s, u, h)

\* The inductive invariant of the issuer's own state.
StoreInv == TypeOK /\ IssuerTypeOK /\ EpochsHold /\ SlotsInv /\ CallsHold /\ SignaturesHold

-----------------------------------------------------------------------------
(* Blocks.                                                                  *)

LEMMA HeadType ==
  ASSUME IssuerTypeOK, NEW h \in DOMAIN heads
  PROVE  /\ heads[h] \in FinalBlock /\ heads[h].campaign \in Campaign
         /\ heads[h].campaign.terms \in CampaignTerms
         /\ SignerAt(h) \in Signers /\ EpochAt(h) \in Nat
<1>1. heads \in Seq(FinalBlock)
  BY DEF IssuerTypeOK
<1>2. h \in 1 .. Len(heads)
  BY <1>1, LenProperties
<1>3. heads[h] \in FinalBlock
  BY <1>1, <1>2, ElementOfSeq
<1>4. heads[h].campaign \in Campaign
  BY <1>3 DEF FinalBlock
<1>5. heads[h].campaign.terms \in CampaignTerms /\ heads[h].campaign.epoch \in Nat
  BY <1>4 DEF Campaign
<1>6. heads[h].campaign.terms.signer \in Signers
  BY <1>5 DEF CampaignTerms
<1> QED
  BY <1>3, <1>4, <1>5, <1>6 DEF SignerAt, EpochAt

\* Terms that differ from the approved ones at most in the signer.
LEMMA ApprovedTerms ==
  ASSUME NEW terms \in CampaignTerms, NEW signer,
         [terms EXCEPT !.signer = signer] = Approved
  PROVE  /\ terms.reward = Approved.reward /\ terms.maxClaims = Approved.maxClaims
         /\ terms.startsAt = Approved.startsAt /\ terms.endsAt = Approved.endsAt
         /\ terms.claimDeadline = Approved.claimDeadline
<1>1. LET t == [terms EXCEPT !.signer = signer]
      IN  /\ terms.reward = t.reward /\ terms.maxClaims = t.maxClaims
          /\ terms.startsAt = t.startsAt /\ terms.endsAt = t.endsAt
          /\ terms.claimDeadline = t.claimDeadline
  BY DEF CampaignTerms
<1> QED
  BY <1>1

\* What a step of the issuer never does to what it has: it drops no block, no allocation
\* and no authorization.
Grows ==
    /\ \A h \in DOMAIN heads : h \in DOMAIN heads' /\ heads'[h] = heads[h]
    /\ \A u \in Users : Allocated(u) => allocations'[u] = allocations[u]
    /\ \A u \in Users, e \in Epochs :
          authorizations[<<u, e>>] # None =>
             /\ authorizations'[<<u, e>>] # None
             /\ authorizations'[<<u, e>>].signer = authorizations[<<u, e>>].signer

\* What a call and a signature stand on stays.
LEMMA FactsKept ==
  ASSUME Grows, NEW u \in Users, NEW h \in DOMAIN heads, EpochAt(h) \in Epochs
  PROVE  /\ h \in DOMAIN heads' /\ EpochAt(h)' = EpochAt(h) /\ SignerAt(h)' = SignerAt(h)
         /\ Ours(h) => Ours(h)'
         /\ Allocated(u) => Allocated(u)'
         /\ Authorized(u, h) => Authorized(u, h)'
         /\ \A s : MadeFor(s, u, h) => MadeFor(s, u, h)'
<1>1. h \in DOMAIN heads' /\ EpochAt(h)' = EpochAt(h) /\ SignerAt(h)' = SignerAt(h)
  BY DEF Grows, EpochAt, SignerAt
<1>2. Ours(h) => Ours(h)'
  BY <1>1 DEF Grows, Ours
<1>3. Allocated(u) => Allocated(u)'
  BY DEF Grows, Allocated
<1>4. Authorized(u, h) => Authorized(u, h)'
  BY <1>1 DEF Grows, Authorized
<1>5. ASSUME NEW s, MadeFor(s, u, h) PROVE MadeFor(s, u, h)'
  <2>1. allocations'[u] = allocations[u] /\ heads'[h] = heads[h]
    BY <1>5 DEF MadeFor, Grows
  <2>2. Unused(u, h)'
    BY <1>5, <2>1 DEF MadeFor, Unused
  <2>3. s = SignatureFor(u, EpochAt(h), SignerAt(h))'
    BY <1>5, <1>1, <2>1 DEF MadeFor, SignatureFor
  <2> QED
    BY <1>1, <1>2, <1>3, <1>4, <1>5, <2>2, <2>3 DEF MadeFor
<1> QED
  BY <1>1, <1>2, <1>3, <1>4, <1>5

\* A call that a step leaves alone keeps its footing.
LEMMA CallKept ==
  ASSUME IssuerTypeOK, EpochsHold, Grows, NEW k \in Calls, CallHolds(k), calls'[k] = calls[k]
  PROVE  CallHolds(k)'
<1> SUFFICES ASSUME calls[k] # None PROVE CallHolds(k)'
  BY DEF CallHolds
<1>1. calls[k].user \in Users /\ calls[k].head \in DOMAIN heads
  BY DEF IssuerTypeOK, Call, CallHolds
<1>2. EpochAt(calls[k].head) \in Epochs
  BY <1>1 DEF EpochsHold
<1> QED
  BY <1>1, <1>2, FactsKept DEF CallHolds

\* The signatures that were there before a step stay founded.
LEMMA SignaturesKept ==
  ASSUME EpochsHold, SignaturesHold, Grows, NEW s \in signatures
  PROVE  \E u \in Users, h \in DOMAIN heads' : MadeFor(s, u, h)'
<1>1. PICK u \in Users, h \in DOMAIN heads : MadeFor(s, u, h)
  BY DEF SignaturesHold
<1>2. EpochAt(h) \in Epochs
  BY DEF EpochsHold
<1> QED
  BY <1>1, <1>2, FactsKept

-----------------------------------------------------------------------------
(* Steps of the issuer.                                                     *)

\* What is left to show of a step that drops nothing.
LEMMA StepKeeps ==
  ASSUME StoreInv, TypeOK', IssuerTypeOK', EpochsHold', SlotsInv', Grows,
         \A k \in Calls : calls'[k] = calls[k] \/ CallHolds(k)',
         \A s \in signatures' \ signatures :
            \E u \in Users, h \in DOMAIN heads' : MadeFor(s, u, h)'
  PROVE  StoreInv'
<1>1. CallsHold'
  <2> SUFFICES ASSUME NEW k \in Calls PROVE CallHolds(k)'
    BY DEF CallsHold
  <2>1. CASE calls'[k] = calls[k]
    BY <2>1, CallKept DEF StoreInv, CallsHold
  <2> QED
    BY <2>1
<1>2. SignaturesHold'
  <2> SUFFICES ASSUME NEW s \in signatures'
               PROVE  \E u \in Users, h \in DOMAIN heads' : MadeFor(s, u, h)'
    BY DEF SignaturesHold
  <2>1. CASE s \in signatures
    BY <2>1, SignaturesKept DEF StoreInv
  <2> QED
    BY <2>1
<1> QED
  BY <1>1, <1>2 DEF StoreInv

LEMMA SameSlots ==
  ASSUME SlotsInv, UNCHANGED <<allocations, nextSlot>>
  PROVE  SlotsInv'
  BY DEF SlotsInv, SlotsFit, SlotsDistinct, Allocatees, Allocated

LEMMA SameEpochs ==
  ASSUME EpochsHold, UNCHANGED <<vars, heads>>
  PROVE  EpochsHold'
  BY DEF EpochsHold, vars, chain, Existing, EpochAt

LEMMA SameFacts ==
  ASSUME UNCHANGED <<heads, allocations, authorizations>>
  PROVE  Grows
  BY DEF Grows

LEMMA SameTypes ==
  ASSUME TypeOK, UNCHANGED vars
  PROVE  TypeOK'
  BY DEF TypeOK, vars, chain, Existing

\* Steps that only change whether the campaign is bound and published, or nothing here.
LEMMA FlagsKeep ==
  ASSUME StoreInv, UNCHANGED <<vars, heads, nextSlot, allocations, authorizations, calls, signatures>>,
         bound' \in BOOLEAN, published' \in BOOLEAN
  PROVE  StoreInv'
<1>1. UNCHANGED vars /\ UNCHANGED <<heads, nextSlot, allocations, authorizations, calls, signatures>>
  OBVIOUS
<1>2. IssuerTypeOK'
  BY DEF StoreInv, IssuerTypeOK
<1>3. TypeOK' /\ EpochsHold'
  BY SameTypes, SameEpochs DEF StoreInv
<1>4. SlotsInv' /\ Grows
  BY SameSlots, SameFacts DEF StoreInv
<1> QED
  BY <1>2, <1>3, <1>4, StepKeeps

LEMMA FinalizeKeeps ==
  ASSUME StoreInv, Finalize
  PROVE  StoreInv'
<1>1. PICK b : b = [campaign |-> campaigns[Bound], slots |-> usedSlots[Bound],
                    participants |-> claimedParticipants[Bound], at |-> now]
  OBVIOUS
<1>2. heads' = Append(heads, b) /\ heads \in Seq(FinalBlock) /\ Bound \in Existing
  BY <1>1 DEF Finalize, StoreInv, IssuerTypeOK
<1>3. b \in FinalBlock
  <2>1. /\ campaigns[Bound] \in Campaign /\ usedSlots[Bound] \subseteq Slots
        /\ claimedParticipants[Bound] \subseteq Participants /\ now \in Nat
    BY <1>2, BoundAssumption DEF StoreInv, TypeOK
  <2> QED
    BY <1>1, <2>1 DEF FinalBlock
<1>4. /\ heads' \in Seq(FinalBlock) /\ Len(heads') = Len(heads) + 1 /\ Len(heads) \in Nat
      /\ DOMAIN heads = 1 .. Len(heads) /\ DOMAIN heads' = 1 .. Len(heads) + 1
      /\ \A h \in DOMAIN heads : heads'[h] = heads[h]
      /\ heads'[Len(heads) + 1] = b
  <2>1. Append(heads, b) \in Seq(FinalBlock) /\ Len(Append(heads, b)) = Len(heads) + 1
        /\ Append(heads, b)[Len(heads) + 1] = b
        /\ \A i \in 1 .. Len(heads) : Append(heads, b)[i] = heads[i]
    BY <1>2, <1>3, AppendProperties
  <2>2. Len(heads) \in Nat /\ DOMAIN heads = 1 .. Len(heads)
    BY <1>2, LenProperties
  <2>3. DOMAIN Append(heads, b) = 1 .. Len(Append(heads, b))
    BY <2>1, LenProperties
  <2> QED
    BY <1>2, <2>1, <2>2, <2>3
<1>5. UNCHANGED vars /\ UNCHANGED <<store, calls, signatures>>
  BY DEF Finalize
<1>6. IssuerTypeOK'
  BY <1>4, <1>5 DEF StoreInv, IssuerTypeOK, store
<1>7. Grows
  BY <1>4, <1>5 DEF Grows, store
<1>8. EpochsHold'
  <2>1. \A id \in Existing' : campaigns'[id].epoch \in Epochs
    BY <1>5 DEF StoreInv, EpochsHold, vars, chain, Existing
  <2>2. b.campaign.epoch \in Epochs
    BY <1>1, <1>2 DEF StoreInv, EpochsHold
  <2>3. \A h \in DOMAIN heads : heads'[h].campaign.epoch \in Epochs
    BY <1>4 DEF StoreInv, EpochsHold, EpochAt
  <2>4. \A h \in DOMAIN heads' : h \in DOMAIN heads \/ h = Len(heads) + 1
    BY <1>4
  <2>5. \A h \in DOMAIN heads' : heads'[h].campaign.epoch \in Epochs
    BY <1>4, <2>2, <2>3, <2>4
  <2> QED
    BY <2>1, <2>5 DEF EpochsHold, EpochAt
<1>9. TypeOK' /\ SlotsInv'
  BY <1>5, SameTypes, SameSlots DEF StoreInv, store
<1> QED
  BY <1>5, <1>6, <1>7, <1>8, <1>9, StepKeeps

\* A step that only changes the call k.
LEMMA CallStepKeeps ==
  ASSUME StoreInv, UNCHANGED <<vars, heads, store, signatures>>, NEW k \in Calls,
         NEW new \in Call \cup {None}, calls' = [calls EXCEPT ![k] = new], CallHolds(k)'
  PROVE  StoreInv'
<1>1. UNCHANGED vars /\ UNCHANGED <<heads, store, signatures>>
  OBVIOUS
<1>2. /\ calls' \in [Calls -> Call \cup {None}]
      /\ \A j \in Calls : calls'[j] = calls[j] \/ CallHolds(j)'
  BY DEF StoreInv, IssuerTypeOK
<1>3. IssuerTypeOK'
  BY <1>1, <1>2 DEF StoreInv, IssuerTypeOK, store
<1>4. TypeOK' /\ EpochsHold' /\ SlotsInv' /\ Grows
  BY <1>1, SameTypes, SameEpochs, SameSlots, SameFacts DEF StoreInv, store
<1> QED
  BY <1>1, <1>2, <1>3, <1>4, StepKeeps

LEMMA LoadKeeps ==
  ASSUME StoreInv, NEW k \in Calls, LoadIssue(k)
  PROVE  StoreInv'
<1>1. PICK h \in DOMAIN heads, user \in Users, recipient \in Recipients :
         /\ Matching(h) /\ SignerAt(h) \in Configured
         /\ calls' = [calls EXCEPT ![k] = [stage |-> "loaded", user |-> user,
                                           recipient |-> recipient, head |-> h, latest |-> h]]
  BY DEF LoadIssue
<1>2. PICK new : new = [stage |-> "loaded", user |-> user, recipient |-> recipient,
                        head |-> h, latest |-> h]
  OBVIOUS
<1>3. UNCHANGED <<vars, heads, store, signatures>>
  BY DEF LoadIssue
<1>4. h \in Nat
  BY LenProperties DEF StoreInv, IssuerTypeOK
<1>5. new \in Call /\ calls' = [calls EXCEPT ![k] = new]
  BY <1>1, <1>2, <1>4 DEF Call
<1>6. Ours(h)'
  BY <1>1, <1>3 DEF Matching, Ours, SignerAt
<1>7. CallHolds(k)'
  <2>1. calls'[k] = new /\ h \in DOMAIN heads'
    BY <1>3, <1>5 DEF StoreInv, IssuerTypeOK
  <2>2. new.head = h /\ new.stage = "loaded"
    BY <1>2
  <2> QED
    BY <1>6, <2>1, <2>2 DEF CallHolds
<1> QED
  BY <1>3, <1>5, <1>7, CallStepKeeps

LEMMA RecheckKeeps ==
  ASSUME StoreInv, NEW k \in Calls, NEW h \in DOMAIN heads, Recheck(k, h)
  PROVE  StoreInv'
<1>1. calls[k] # None /\ calls[k] \in Call /\ calls[k].stage # "loaded" /\ CallHolds(k)
  BY DEF Recheck, StoreInv, IssuerTypeOK, CallsHold
<1>2. PICK new : new = [calls[k] EXCEPT !.stage = "checked", !.latest = h]
  OBVIOUS
<1>3. UNCHANGED <<vars, heads, store, signatures>> /\ calls' = [calls EXCEPT ![k] = new]
  BY <1>2 DEF Recheck, StoreInv, IssuerTypeOK
<1>4. h \in Nat
  BY LenProperties DEF StoreInv, IssuerTypeOK
<1>5. new \in Call /\ new.head = calls[k].head /\ new.user = calls[k].user
  BY <1>1, <1>2, <1>4 DEF Call
<1>6. /\ calls[k].head \in DOMAIN heads /\ Ours(calls[k].head)
      /\ Allocated(calls[k].user) /\ Authorized(calls[k].user, calls[k].head)
  BY <1>1 DEF CallHolds
<1>7. CallHolds(k)'
  <2>1. calls'[k] = new
    BY <1>3 DEF StoreInv, IssuerTypeOK
  <2>2. UNCHANGED heads /\ UNCHANGED <<allocations, authorizations>>
    BY <1>3 DEF store
  <2> QED
    BY <1>5, <1>6, <2>1, <2>2 DEF CallHolds, Ours, Allocated, Authorized, SignerAt, EpochAt
<1> QED
  BY <1>3, <1>5, <1>7, CallStepKeeps

LEMMA EndKeeps ==
  ASSUME StoreInv, NEW k \in Calls, EndCall(k)
  PROVE  StoreInv'
<1>1. CallHolds(k)'
  BY DEF EndCall, StoreInv, IssuerTypeOK, CallHolds
<1> QED
  BY <1>1, CallStepKeeps DEF EndCall

\* What the saved rows make the signer sign is a claim that the contract knows.
LEMMA SignatureType ==
  ASSUME StoreInv, NEW u \in Users, Allocated(u), NEW h \in DOMAIN heads
  PROVE  SignatureFor(u, EpochAt(h), SignerAt(h)) \in Signature
<1>1. allocations[u] \in Allocation /\ EpochAt(h) \in Epochs /\ SignerAt(h) \in Signers
  BY HeadType DEF StoreInv, IssuerTypeOK, EpochsHold, Allocated
<1>2. /\ allocations[u].slot \in Slots /\ allocations[u].participant \in Participants
      /\ allocations[u].recipient \in Recipients
  BY <1>1 DEF Allocation
<1> QED
  BY <1>1, <1>2, BoundAssumption, ClaimableAssumption
     DEF SignatureFor, Signature, Claim, Epochs

LEMMA SignKeeps ==
  ASSUME StoreInv, NEW k \in Calls, Sign(k)
  PROVE  StoreInv'
<1>1. PICK u, h : u = calls[k].user /\ h = calls[k].head
  OBVIOUS
<1>2. /\ calls[k] # None /\ calls[k] \in Call /\ calls[k].stage = "reserved" /\ CallHolds(k)
      /\ Unused(u, h)
      /\ signatures' = signatures \cup {SignatureFor(u, EpochAt(h), SignerAt(h))}
      /\ calls' = [calls EXCEPT ![k].stage = "signed"]
      /\ UNCHANGED <<vars, heads, store>>
  BY <1>1 DEF Sign, Signable, StoreInv, IssuerTypeOK, CallsHold
<1>3. u \in Users /\ h \in DOMAIN heads /\ Ours(h) /\ Allocated(u) /\ Authorized(u, h)
  BY <1>1, <1>2 DEF CallHolds, Call
<1>4. PICK new : new = [calls[k] EXCEPT !.stage = "signed"]
  OBVIOUS
<1>5. new \in Call /\ new.head = h /\ new.user = u /\ calls' = [calls EXCEPT ![k] = new]
  BY <1>1, <1>2, <1>4 DEF Call, StoreInv, IssuerTypeOK
<1>6. UNCHANGED vars /\ UNCHANGED heads /\ UNCHANGED <<bound, published>>
      /\ UNCHANGED <<nextSlot, allocations, authorizations>>
  BY <1>2 DEF store
<1>7. IssuerTypeOK'
  <2>1. signatures' \subseteq Signature
    BY <1>2, <1>3, SignatureType DEF StoreInv, IssuerTypeOK
  <2>2. calls' \in [Calls -> Call \cup {None}]
    BY <1>5 DEF StoreInv, IssuerTypeOK
  <2> QED
    BY <1>6, <2>1, <2>2 DEF StoreInv, IssuerTypeOK
<1>8. TypeOK' /\ EpochsHold' /\ SlotsInv' /\ Grows
  BY <1>6, SameTypes, SameEpochs, SameSlots, SameFacts DEF StoreInv
<1>9. Ours(h)' /\ Allocated(u)' /\ Authorized(u, h)' /\ h \in DOMAIN heads'
  BY <1>3, <1>8, FactsKept DEF StoreInv, EpochsHold
<1>10. CallHolds(k)'
  <2>1. calls'[k] = new
    BY <1>5 DEF StoreInv, IssuerTypeOK
  <2> QED
    BY <1>5, <1>9, <2>1 DEF CallHolds, Ours, Allocated, Authorized, SignerAt, EpochAt
<1>11. \A j \in Calls : calls'[j] = calls[j] \/ CallHolds(j)'
  BY <1>5, <1>10 DEF StoreInv, IssuerTypeOK
<1>12. \A s \in signatures' \ signatures : MadeFor(s, u, h)'
  <2>1. MadeFor(SignatureFor(u, EpochAt(h), SignerAt(h)), u, h)
    BY <1>2, <1>3 DEF MadeFor
  <2> QED
    BY <1>2, <1>6, <2>1 DEF MadeFor, Ours, Allocated, Authorized, Unused, SignatureFor, SignerAt, EpochAt
<1> QED
  BY <1>3, <1>7, <1>8, <1>9, <1>11, <1>12, StepKeeps

LEMMA SaveKeeps ==
  ASSUME StoreInv, NEW k \in Calls, Save(k)
  PROVE  StoreInv'
<1>1. PICK row : row = <<calls[k].user, EpochAt(calls[k].head)>>
  OBVIOUS
<1>2. /\ calls[k] # None /\ calls[k] \in Call /\ CallHolds(k)
      /\ authorizations[row] # None
      /\ authorizations' = [authorizations EXCEPT ![row].signed = TRUE]
      /\ calls' = [calls EXCEPT ![k] = None]
      /\ UNCHANGED <<vars, heads, bound, published, nextSlot, allocations, signatures>>
  BY <1>1 DEF Save, StoreInv, IssuerTypeOK, CallsHold
<1>3. row \in Users \X Epochs
  BY <1>1, <1>2 DEF CallHolds, Call, StoreInv, EpochsHold
<1>4. authorizations[row] \in Authorization
  BY <1>2, <1>3 DEF StoreInv, IssuerTypeOK
<1>5. PICK new : new = [authorizations[row] EXCEPT !.signed = TRUE]
  OBVIOUS
<1>6. new \in Authorization /\ new.signer = authorizations[row].signer /\ new # None
  BY <1>4, <1>5, NoneAssumption DEF Authorization
<1>7. authorizations' = [authorizations EXCEPT ![row] = new]
  BY <1>2, <1>5
<1>8. UNCHANGED vars /\ UNCHANGED heads /\ UNCHANGED <<bound, published>>
      /\ UNCHANGED <<nextSlot, allocations, signatures>>
  BY <1>2
<1>9. IssuerTypeOK'
  BY <1>2, <1>3, <1>6, <1>7, <1>8 DEF StoreInv, IssuerTypeOK
<1>10. Grows
  <2>1. \A r \in Users \X Epochs :
           authorizations'[r] = IF r = row THEN new ELSE authorizations[r]
    BY <1>3, <1>7 DEF StoreInv, IssuerTypeOK
  <2> QED
    BY <1>6, <1>8, <2>1 DEF Grows
<1>11. TypeOK' /\ EpochsHold' /\ SlotsInv'
  BY <1>8, SameTypes, SameEpochs, SameSlots DEF StoreInv
<1>12. \A j \in Calls : calls'[j] = calls[j] \/ CallHolds(j)'
  BY <1>2 DEF StoreInv, IssuerTypeOK, CallHolds
<1> QED
  BY <1>8, <1>9, <1>10, <1>11, <1>12, StepKeeps

\* A reservation finds the allocation of its user or makes one in the next slot.
LEMMA AllocationKeeps ==
  ASSUME StoreInv, NEW call \in Call, NEW participant \in Participants,
         call.head \in DOMAIN heads, Matching(call.head),
         KeepAllocation(call) \/ NewAllocation(call, participant)
  PROVE  /\ allocations' \in [Users -> Allocation \cup {None}] /\ nextSlot' \in Nat
         /\ \A u \in Users : Allocated(u) => allocations'[u] = allocations[u]
         /\ Allocated(call.user)'
         /\ SlotsInv'
<1>1. /\ call.user \in Users /\ call.recipient \in Recipients
      /\ allocations \in [Users -> Allocation \cup {None}] /\ nextSlot \in Nat /\ SlotsInv
  BY DEF StoreInv, IssuerTypeOK, Call
<1>2. CASE KeepAllocation(call)
  BY <1>1, <1>2, SameSlots DEF KeepAllocation, Allocated
<1>3. CASE NewAllocation(call, participant)
  <2>1. PICK new : new = [slot |-> nextSlot, participant |-> participant,
                          recipient |-> call.recipient]
    OBVIOUS
  <2>2. PICK user \in Users : user = call.user
    BY <1>1
  <2>3. /\ ~Allocated(user)
        /\ allocations' = [allocations EXCEPT ![user] = new]
        /\ nextSlot' = nextSlot + 1
        /\ nextSlot < heads[call.head].campaign.terms.maxClaims
    BY <1>3, <2>1, <2>2 DEF NewAllocation, SlotLeft, Allocated
  <2>4. nextSlot + 1 <= Approved.maxClaims /\ Approved.maxClaims \in Nat
    <3>1. heads[call.head].campaign.terms \in CampaignTerms
      BY HeadType DEF StoreInv
    <3>2. heads[call.head].campaign.terms.maxClaims = Approved.maxClaims
      BY <3>1, ApprovedTerms DEF Matching
    <3> QED
      BY <1>1, <2>3, <3>1, <3>2 DEF CampaignTerms
  <2>5. nextSlot \in Slots
    BY <1>1, <2>4, ClaimableAssumption
  <2>6. new \in Allocation /\ new # None /\ new.slot = nextSlot
    BY <1>1, <2>1, <2>5, NoneAssumption DEF Allocation
  <2>7. /\ allocations' \in [Users -> Allocation \cup {None}]
        /\ allocations'[user] = new
        /\ \A u \in Users : u # user => allocations'[u] = allocations[u]
    BY <1>1, <2>3, <2>6
  <2>8. Allocatees' = Allocatees \cup {user} /\ user \notin Allocatees
    BY <2>3, <2>6, <2>7 DEF Allocatees, Allocated
  <2>9. /\ IsFiniteSet(Allocatees) /\ Cardinality(Allocatees) = nextSlot
        /\ {allocations[u].slot : u \in Allocatees} = 0 .. nextSlot - 1
    BY <1>1 DEF SlotsInv, SlotsFit, Allocatees
  <2>10. IsFiniteSet(Allocatees') /\ Cardinality(Allocatees') = nextSlot'
    BY <1>1, <2>3, <2>8, <2>9, FS_AddElement
  <2>11. {allocations'[u].slot : u \in Allocatees'} = 0 .. nextSlot' - 1
    <3>1. \A u \in Allocatees : allocations'[u].slot = allocations[u].slot
      BY <2>7, <2>8 DEF Allocatees
    <3>2. {allocations'[u].slot : u \in Allocatees'}
             = {allocations[u].slot : u \in Allocatees} \cup {nextSlot}
      BY <2>6, <2>7, <2>8, <3>1
    <3>3. {allocations'[u].slot : u \in Allocatees'} = (0 .. nextSlot - 1) \cup {nextSlot}
      BY <2>9, <3>2
    <3>4. nextSlot \in Nat /\ nextSlot' = nextSlot + 1
      BY <1>1, <2>3
    <3>5. (0 .. nextSlot - 1) \cup {nextSlot} = 0 .. nextSlot' - 1
      BY <3>4
    <3> QED
      BY <3>3, <3>5, Zenon
  <2>12. SlotsFit'
    BY <2>3, <2>4, <2>10, <2>11 DEF SlotsFit, Allocatees
  <2>13. SlotsDistinct'
    <3>1. \A u \in Allocatees : allocations[u].slot \in 0 .. nextSlot - 1
      BY <2>9
    <3>2. \A u \in Allocatees : allocations[u].slot # nextSlot
      BY <1>1, <3>1
    <3> QED
      BY <1>1, <2>6, <2>7, <3>2 DEF SlotsInv, SlotsDistinct, Allocatees, Allocated
  <2> QED
    BY <1>1, <2>2, <2>3, <2>6, <2>7, <2>10, <2>12, <2>13 DEF SlotsInv, Allocated
<1> QED
  BY <1>2, <1>3

\* The authorization of the user's claim is saved, or a saved one agrees.
LEMMA AuthorizationKeeps ==
  ASSUME StoreInv, NEW call \in Call, call.head \in DOMAIN heads, Authorize(call)
  PROVE  /\ authorizations' \in [Users \X Epochs -> Authorization \cup {None}]
         /\ authorizations'[<<call.user, EpochAt(call.head)>>] # None
         /\ authorizations'[<<call.user, EpochAt(call.head)>>].signer = SignerAt(call.head)
         /\ \A row \in Users \X Epochs :
               authorizations[row] # None => authorizations'[row] = authorizations[row]
<1>1. PICK row \in Users \X Epochs : row = <<call.user, EpochAt(call.head)>>
  BY DEF StoreInv, EpochsHold, Call
<1>2. PICK new : new = NewAuthorization(call)
  OBVIOUS
<1>3. new \in Authorization /\ new.signer = SignerAt(call.head) /\ new # None
  <2>1. SignerAt(call.head) \in Signers /\ call.head \in Nat
    BY HeadType DEF StoreInv, Call
  <2>2. new = [signer |-> SignerAt(call.head), head |-> call.head, signed |-> FALSE]
    BY <1>2 DEF NewAuthorization
  <2>3. new \in Authorization /\ new.signer = SignerAt(call.head)
    BY <2>1, <2>2 DEF Authorization
  <2> QED
    BY <2>3, NoneAssumption
<1>4. authorizations \in [Users \X Epochs -> Authorization \cup {None}]
  BY DEF StoreInv, IssuerTypeOK
<1>5. \/ authorizations[row] = None /\ authorizations' = [authorizations EXCEPT ![row] = new]
      \/ /\ authorizations[row] # None /\ authorizations[row].signer = SignerAt(call.head)
         /\ authorizations' = authorizations
  BY <1>1, <1>2 DEF Authorize
<1> QED
  BY <1>1, <1>3, <1>4, <1>5

LEMMA ReserveKeeps ==
  ASSUME StoreInv, NEW k \in Calls, NEW participant \in Participants, Reserve(k, participant)
  PROVE  StoreInv'
<1>1. PICK call : call = calls[k]
  OBVIOUS
<1>2. /\ call # None /\ call \in Call /\ CallHolds(k)
      /\ Matching(call.head)
      /\ KeepAllocation(call) \/ NewAllocation(call, participant)
      /\ Authorize(call)
      /\ calls' = [calls EXCEPT ![k].stage = "reserved"]
      /\ UNCHANGED <<vars, heads, bound, published, signatures>>
  BY <1>1 DEF Reserve, StoreInv, IssuerTypeOK, CallsHold
<1>3. call.head \in DOMAIN heads /\ Ours(call.head) /\ call.user \in Users
  BY <1>1, <1>2 DEF CallHolds, Call
<1>4. /\ allocations' \in [Users -> Allocation \cup {None}] /\ nextSlot' \in Nat
      /\ \A u \in Users : Allocated(u) => allocations'[u] = allocations[u]
      /\ Allocated(call.user)'
      /\ SlotsInv'
  BY <1>2, <1>3, AllocationKeeps
<1>5. /\ authorizations' \in [Users \X Epochs -> Authorization \cup {None}]
      /\ authorizations'[<<call.user, EpochAt(call.head)>>] # None
      /\ authorizations'[<<call.user, EpochAt(call.head)>>].signer = SignerAt(call.head)
      /\ \A row \in Users \X Epochs :
            authorizations[row] # None => authorizations'[row] = authorizations[row]
  BY <1>2, <1>3, AuthorizationKeeps
<1>6. UNCHANGED vars /\ UNCHANGED heads /\ UNCHANGED <<bound, published, signatures>>
  BY <1>2
<1>7. PICK new : new = [call EXCEPT !.stage = "reserved"]
  OBVIOUS
<1>8. /\ new \in Call /\ new.head = call.head /\ new.user = call.user
      /\ calls' = [calls EXCEPT ![k] = new]
  BY <1>1, <1>2, <1>7 DEF Call, StoreInv, IssuerTypeOK
<1>9. IssuerTypeOK'
  <2>1. calls' \in [Calls -> Call \cup {None}]
    BY <1>8 DEF StoreInv, IssuerTypeOK
  <2> QED
    BY <1>4, <1>5, <1>6, <2>1 DEF StoreInv, IssuerTypeOK
<1>10. Grows
  BY <1>4, <1>5, <1>6 DEF Grows
<1>11. TypeOK' /\ EpochsHold'
  BY <1>6, SameTypes, SameEpochs DEF StoreInv
<1>12. CallHolds(k)'
  <2>1. calls'[k] = new
    BY <1>8 DEF StoreInv, IssuerTypeOK
  <2>2. Ours(call.head)' /\ call.head \in DOMAIN heads'
    BY <1>3, <1>6 DEF Ours, SignerAt
  <2>3. Authorized(call.user, call.head)'
    BY <1>5, <1>6 DEF Authorized, EpochAt, SignerAt
  <2> QED
    BY <1>4, <1>8, <2>1, <2>2, <2>3 DEF CallHolds, Ours, Allocated, Authorized, SignerAt, EpochAt
<1>13. \A j \in Calls : calls'[j] = calls[j] \/ CallHolds(j)'
  BY <1>8, <1>12 DEF StoreInv, IssuerTypeOK
<1> QED
  BY <1>4, <1>6, <1>9, <1>10, <1>11, <1>13, StepKeeps

\* The claims that are paid are ones that the contract knows.
LEMMA StepRefines ==
  ASSUME IssuerTypeOK, [IssuerNext]_allVars
  PROVE  [Next]_vars
<1>1. CASE \E signature \in signatures \cup Foreign : PayClaim(signature)
  BY <1>1 DEF Next, IssuerTypeOK, Foreign
<1>2. CASE UNCHANGED vars \/ Govern
  BY <1>2 DEF Next
<1> QED
  BY <1>1, <1>2 DEF IssuerNext, allVars, Finalize, BindApprovedCampaign, Publish, Withdraw, Issue,
     LoadIssue, Reserve, Sign, Recheck, Save, EndCall

\* A step of the contract leaves the issuer's own state alone.
LEMMA ChainKeepsStore ==
  ASSUME StoreInv, [Next]_vars, UNCHANGED issuer
  PROVE  StoreInv'
<1>1. /\ UNCHANGED heads /\ UNCHANGED <<bound, published>>
      /\ UNCHANGED <<nextSlot, allocations, authorizations>> /\ UNCHANGED <<calls, signatures>>
  BY DEF issuer, store
<1>2. TypeOK'
  BY TypeKept DEF StoreInv
<1>3. IssuerTypeOK'
  BY <1>1 DEF StoreInv, IssuerTypeOK
<1>4. EpochsHold'
  <2>1. \A id \in Existing' : campaigns'[id].epoch \in Epochs
    BY EpochsKept DEF StoreInv, EpochsHold
  <2> QED
    BY <1>1, <2>1 DEF StoreInv, EpochsHold, EpochAt
<1>5. SlotsInv' /\ Grows
  BY <1>1, SameSlots, SameFacts DEF StoreInv
<1> QED
  BY <1>1, <1>2, <1>3, <1>4, <1>5, StepKeeps

LEMMA StoreInvariant == IssuerSpec => []StoreInv
<1>1. IssuerInit => StoreInv
  <2> SUFFICES ASSUME IssuerInit PROVE StoreInv
    OBVIOUS
  <2>1. TypeOK /\ Existing = {}
    BY DEF IssuerInit, Init, TypeOK, Existing
  <2>2. DOMAIN heads = {} /\ heads \in Seq(FinalBlock)
    BY EmptySeq DEF IssuerInit
  <2>3. IssuerTypeOK
    BY <2>2 DEF IssuerInit, IssuerTypeOK
  <2>4. Allocatees = {}
    BY DEF IssuerInit, Allocatees
  <2>5. SlotsInv
    <3>1. IsFiniteSet(Allocatees) /\ Cardinality(Allocatees) = 0
      BY <2>4, FS_EmptySet
    <3>2. {allocations[u].slot : u \in Allocatees} = 0 .. nextSlot - 1 /\ nextSlot = 0
      BY <2>4 DEF IssuerInit
    <3>3. Approved.maxClaims \in Nat
      BY BoundAssumption DEF CampaignTerms
    <3>4. SlotsFit
      <4>1. /\ {allocations[u].slot : u \in {x \in Users : allocations[x] # None}} = 0 .. nextSlot - 1
            /\ Cardinality({u \in Users : allocations[u] # None}) = nextSlot
        BY <3>1, <3>2 DEF Allocatees
      <4>2. nextSlot <= Approved.maxClaims
        BY <3>2, <3>3
      <4> QED
        BY <4>1, <4>2 DEF SlotsFit
    <3> QED
      BY <2>4, <3>1, <3>4 DEF SlotsInv, SlotsDistinct, Allocatees, Allocated
  <2> QED
    BY <2>1, <2>2, <2>3, <2>5
       DEF IssuerInit, StoreInv, EpochsHold, CallsHold, CallHolds, SignaturesHold
<1>2. StoreInv /\ [IssuerNext]_allVars => StoreInv'
  <2> SUFFICES ASSUME StoreInv, [IssuerNext]_allVars PROVE StoreInv'
    OBVIOUS
  <2>1. CASE UNCHANGED issuer
    BY <2>1, StepRefines, ChainKeepsStore DEF StoreInv
  <2>2. CASE Finalize
    BY <2>2, FinalizeKeeps
  <2>3. CASE Withdraw \/ \E h \in DOMAIN heads : BindApprovedCampaign(h) \/ Publish(h)
    <3>1. bound \in BOOLEAN /\ published \in BOOLEAN
      BY DEF StoreInv, IssuerTypeOK
    <3>2. bound' \in BOOLEAN /\ published' \in BOOLEAN
      BY <2>3, <3>1 DEF BindApprovedCampaign, Publish, Withdraw
    <3>3. UNCHANGED <<vars, heads, nextSlot, allocations, authorizations, calls, signatures>>
      BY <2>3 DEF BindApprovedCampaign, Publish, Withdraw
    <3> QED
      BY <3>2, <3>3, FlagsKeep
  <2>4. CASE Issue
    BY <2>4, LoadKeeps, ReserveKeeps, SignKeeps, RecheckKeeps, SaveKeeps, EndKeeps DEF Issue
  <2> QED
    BY <2>1, <2>2, <2>3, <2>4 DEF IssuerNext, allVars
<1> QED
  BY <1>1, <1>2, PTL DEF IssuerSpec

\* The issuer, its calls and its retries add nothing to what the contract does: under the
\* issuer the contract still behaves as LearningRewards, so everything proved of
\* LearningRewards holds of it.
THEOREM ContractUnderIssuer == IssuerSpec => Spec
<1>1. IssuerInit => Init
  BY DEF IssuerInit
<1>2. StoreInv /\ [IssuerNext]_allVars => [Next]_vars
  BY StepRefines DEF StoreInv
<1> QED
  BY <1>1, <1>2, StoreInvariant, PTL DEF IssuerSpec, Spec

-----------------------------------------------------------------------------
(* The chain and the issuer's view of it.                                   *)

\* The authority in force at the block h.
AuthorityAt(h) == [id |-> Bound, signer |-> SignerAt(h), epoch |-> EpochAt(h)]

\* A finalized block is a state that the campaign was in: its authority was retired since
\* or is still in force, of an epoch that the campaign has left behind or is still in.  What was paid since then was paid
\* in that epoch, to its signer, or in a later one.
HeadHolds(h) ==
    /\ Bound \in Existing
    /\ AuthorityAt(h) \in retired \cup {InForce(Bound)}
    /\ EpochAt(h) <= campaigns[Bound].epoch
    /\ campaigns[Bound].terms =
          [heads[h].campaign.terms EXCEPT !.signer = campaigns[Bound].terms.signer]
    /\ EpochAt(h) = campaigns[Bound].epoch => SignerAt(h) = campaigns[Bound].terms.signer
    /\ \A r \in rewards :
          r.claim.id = Bound /\ r.claim.slot \notin heads[h].slots =>
              /\ r.claim.epoch >= EpochAt(h)
              /\ r.claim.epoch = EpochAt(h) => r.signer = SignerAt(h)

\* What was paid in the campaign is in the history of rewards, of an epoch no later than
\* the campaign's own.
SpendingHolds(id) ==
    /\ \A slot \in usedSlots[id] : \E r \in rewards : r.claim.id = id /\ r.claim.slot = slot
    /\ \A participant \in claimedParticipants[id] :
          \E r \in rewards : r.claim.id = id /\ r.claim.participant = participant
    /\ \A r \in rewards : r.claim.id = id => r.claim.epoch <= campaigns[id].epoch

\* The inductive invariant that relates the chain and the issuer.
ChainInv ==
    /\ \A id \in Existing : SpendingHolds(id)
    /\ \A h \in DOMAIN heads : HeadHolds(h)
    /\ rewards \subseteq signatures \cup Foreign

\* A claim that is paid names the epoch and bears the signature of its campaign.
LEMMA PaymentAdds ==
  ASSUME TypeOK, NEW signature \in Signature, PayClaim(signature)
  PROVE  /\ signature.claim.id \in Existing
         /\ signature.claim.epoch = campaigns[signature.claim.id].epoch
         /\ signature.signer = campaigns[signature.claim.id].terms.signer
         /\ rewards' = rewards \cup {signature}
         /\ Existing' = Existing
         /\ \A id \in CampaignIds :
               IF id = signature.claim.id
               THEN /\ usedSlots'[id] = usedSlots[id] \cup {signature.claim.slot}
                    /\ claimedParticipants'[id]
                          = claimedParticipants[id] \cup {signature.claim.participant}
               ELSE /\ usedSlots'[id] = usedSlots[id]
                    /\ claimedParticipants'[id] = claimedParticipants[id]
<1>1. /\ signature.claim.id \in Existing /\ Existing \subseteq CampaignIds
      /\ signature.claim.epoch = campaigns[signature.claim.id].epoch
      /\ signature.signer = campaigns[signature.claim.id].terms.signer
      /\ rewards' = rewards \cup {signature}
      /\ Existing' = Existing
  BY DEF PayClaim, IsOpen, Matches, TypeOK, Existing
<1>2. /\ usedSlots' = [usedSlots EXCEPT ![signature.claim.id] = @ \cup {signature.claim.slot}]
      /\ claimedParticipants' = [claimedParticipants EXCEPT
            ![signature.claim.id] = @ \cup {signature.claim.participant}]
      /\ usedSlots \in [CampaignIds -> SUBSET Slots]
      /\ claimedParticipants \in [CampaignIds -> SUBSET Participants]
  BY DEF PayClaim, TypeOK
<1> QED
  BY <1>1, <1>2

LEMMA OthersPayNothing ==
  ASSUME [Next]_vars, \A signature \in Signature : ~PayClaim(signature)
  PROVE  UNCHANGED <<usedSlots, claimedParticipants, rewards>>
  BY DEF Next, Govern, vars, chain, Tick, Donate, SetPaused, RotateSigner,
     CancelCampaign, RefundExpired, Refund, CreateCampaign

LEMMA SpendingKept ==
  ASSUME TypeOK, ClaimsInv, [Next]_vars, \A id \in Existing : campaigns[id].epoch \in Epochs,
         \A id \in Existing : SpendingHolds(id)
  PROVE  \A id \in Existing' : SpendingHolds(id)'
<1> SUFFICES ASSUME NEW id \in Existing' PROVE SpendingHolds(id)'
  OBVIOUS
<1>1. CASE id \notin Existing
  <2>1. UNCHANGED <<usedSlots, claimedParticipants, rewards>>
    BY <1>1, CampaignsStart
  <2>2. id \in CampaignIds
    BY TypeKept DEF TypeOK
  <2>3. /\ usedSlots[id] = {} /\ claimedParticipants[id] = {}
        /\ \A r \in rewards : r.claim.id # id
    BY <1>1, <2>2 DEF ClaimsInv, RewardsSpent
  <2> QED
    BY <2>1, <2>3 DEF SpendingHolds
<1>2. CASE id \in Existing
  <2>1. Continued(id) /\ SpendingHolds(id) /\ id \in CampaignIds /\ campaigns[id].epoch \in Nat
    BY <1>2, ChainContinues DEF TypeOK, Epochs
  <2>2. \A r \in rewards : r.claim.id = id => r.claim.epoch <= campaigns'[id].epoch
    <3> SUFFICES ASSUME NEW r \in rewards, r.claim.id = id
                 PROVE  r.claim.epoch <= campaigns'[id].epoch
      OBVIOUS
    <3>1. r.claim.epoch \in Nat /\ r.claim.epoch <= campaigns[id].epoch
      BY <2>1 DEF SpendingHolds, TypeOK, Signature, Claim
    <3>2. campaigns'[id].epoch \in Nat /\ campaigns[id].epoch <= campaigns'[id].epoch
      BY <2>1 DEF Continued, Epochs
    <3> QED
      BY <2>1, <3>1, <3>2
  <2>3. CASE \A signature \in Signature : ~PayClaim(signature)
    BY <2>1, <2>2, <2>3, OthersPayNothing DEF SpendingHolds
  <2>4. CASE \E signature \in Signature : PayClaim(signature)
    <3>1. PICK signature \in Signature : PayClaim(signature)
      BY <2>4
    <3>2. signature.claim.id = id => signature.claim.epoch <= campaigns'[id].epoch
      BY <2>1, <3>1, PaymentAdds DEF Continued
    <3> QED
      BY <2>1, <2>2, <3>1, <3>2, PaymentAdds DEF SpendingHolds
  <2> QED
    BY <2>3, <2>4
<1> QED
  BY <1>1, <1>2

\* Changing the signer twice is changing it once.
LEMMA SignerTwice ==
  ASSUME NEW t \in CampaignTerms, NEW x, NEW y
  PROVE  [[t EXCEPT !.signer = x] EXCEPT !.signer = y] = [t EXCEPT !.signer = y]
  BY DEF CampaignTerms

LEMMA HeadKept ==
  ASSUME TypeOK, IssuerTypeOK, EpochsHold, [Next]_vars, UNCHANGED heads,
         NEW h \in DOMAIN heads, HeadHolds(h)
  PROVE  HeadHolds(h)'
<1>1. /\ Bound \in Existing /\ Bound \in Existing' /\ Continued(Bound)
      /\ EpochAt(h) <= campaigns[Bound].epoch
      /\ EpochAt(h) \in Nat /\ campaigns[Bound].epoch \in Nat /\ campaigns'[Bound].epoch \in Nat
      /\ heads[h].campaign.terms \in CampaignTerms
  <2>1. Bound \in Existing /\ EpochAt(h) <= campaigns[Bound].epoch
    BY DEF HeadHolds
  <2>2. campaigns[Bound].epoch \in Epochs
    BY <2>1 DEF EpochsHold
  <2>3. Bound \in Existing' /\ Continued(Bound)
    BY <2>1, <2>2, ChainContinues
  <2>4. EpochAt(h) \in Nat /\ heads[h].campaign.terms \in CampaignTerms
    BY HeadType
  <2> QED
    BY <2>1, <2>2, <2>3, <2>4 DEF Continued, Epochs
<1>2. EpochAt(h)' = EpochAt(h) /\ SignerAt(h)' = SignerAt(h)
  BY DEF EpochAt, SignerAt
<1>3. EpochAt(h) <= campaigns'[Bound].epoch
  BY <1>1 DEF Continued
<1>4. campaigns'[Bound].terms =
         [heads[h].campaign.terms EXCEPT !.signer = campaigns'[Bound].terms.signer]
  BY <1>1, SignerTwice DEF Continued, HeadHolds
<1>5. EpochAt(h) = campaigns'[Bound].epoch => SignerAt(h) = campaigns'[Bound].terms.signer
  BY <1>1 DEF Continued, HeadHolds
<1>6. \A r \in rewards' :
         r.claim.id = Bound /\ r.claim.slot \notin heads[h].slots =>
             /\ r.claim.epoch >= EpochAt(h)
             /\ r.claim.epoch = EpochAt(h) => r.signer = SignerAt(h)
  <2>1. CASE \A signature \in Signature : ~PayClaim(signature)
    BY <2>1, OthersPayNothing DEF HeadHolds
  <2>2. CASE \E signature \in Signature : PayClaim(signature)
    <3>1. PICK signature \in Signature : PayClaim(signature)
      BY <2>2
    <3>2. /\ rewards' = rewards \cup {signature}
          /\ signature.claim.id = Bound =>
                /\ signature.claim.epoch = campaigns[Bound].epoch
                /\ signature.signer = campaigns[Bound].terms.signer
      BY <3>1, PaymentAdds
    <3> QED
      BY <1>1, <3>2 DEF HeadHolds
  <2> QED
    BY <2>1, <2>2
<1>7. AuthorityAt(h) \in retired' \cup {InForce(Bound)'}
  BY <1>1, AuthorityKept DEF HeadHolds
<1> QED
  BY <1>1, <1>2, <1>3, <1>4, <1>5, <1>6, <1>7 DEF HeadHolds, AuthorityAt

LEMMA NewHeadHolds ==
  ASSUME TypeOK, IssuerTypeOK, ClaimsInv, ChainInv, Finalize, NEW h \in DOMAIN heads'
  PROVE  HeadHolds(h)'
<1>1. PICK b : b = [campaign |-> campaigns[Bound], slots |-> usedSlots[Bound],
                    participants |-> claimedParticipants[Bound], at |-> now]
  OBVIOUS
<1>2. /\ heads' = Append(heads, b) /\ heads \in Seq(FinalBlock) /\ Bound \in Existing
      /\ UNCHANGED vars
  BY <1>1 DEF Finalize, IssuerTypeOK
<1>3. /\ UNCHANGED <<campaignCount, campaigns, rewards, retired>> /\ Existing' = Existing
      /\ InForce(Bound)' = InForce(Bound)
  BY <1>2 DEF vars, chain, Existing, InForce
<1>4. /\ DOMAIN heads = 1 .. Len(heads) /\ Len(heads) \in Nat
      /\ DOMAIN heads' = 1 .. Len(heads) + 1
      /\ \A i \in 1 .. Len(heads) + 1 : heads'[i] = IF i <= Len(heads) THEN heads[i] ELSE b
  BY <1>2, LenProperties
<1>5. CASE h \in DOMAIN heads
  <2>1. heads'[h] = heads[h] /\ HeadHolds(h)
    BY <1>4, <1>5 DEF ChainInv
  <2> QED
    BY <1>3, <2>1 DEF HeadHolds, AuthorityAt, EpochAt, SignerAt
<1>6. CASE h \notin DOMAIN heads
  <2>1. heads'[h] = b
    BY <1>4, <1>6
  <2>2. b.campaign = campaigns[Bound] /\ b.slots = usedSlots[Bound]
    BY <1>1
  <2>3. campaigns[Bound].terms \in CampaignTerms /\ campaigns[Bound].epoch \in Nat
    BY <1>2 DEF TypeOK, Campaign
  <2>4. campaigns[Bound].terms =
           [campaigns[Bound].terms EXCEPT !.signer = campaigns[Bound].terms.signer]
    BY <2>3 DEF CampaignTerms
  <2>5. \A r \in rewards : r.claim.id = Bound => r.claim.slot \in usedSlots[Bound]
    BY DEF ClaimsInv, RewardsSpent
  <2>6. AuthorityAt(h)' = InForce(Bound)
    BY <1>3, <2>1, <2>2 DEF AuthorityAt, EpochAt, SignerAt, InForce
  <2> QED
    BY <1>2, <1>3, <2>1, <2>2, <2>3, <2>4, <2>5, <2>6 DEF HeadHolds, EpochAt, SignerAt
<1> QED
  BY <1>5, <1>6

LEMMA ChainInvariant == IssuerSpec => []ChainInv
<1>1. IssuerInit => ChainInv
  BY EmptySeq DEF IssuerInit, Init, ChainInv, Existing
<1>2. StoreInv /\ ClaimsInv /\ ChainInv /\ [IssuerNext]_allVars => ChainInv'
  <2> SUFFICES ASSUME StoreInv, ClaimsInv, ChainInv, [IssuerNext]_allVars PROVE ChainInv'
    OBVIOUS
  <2>1. [Next]_vars /\ TypeOK /\ IssuerTypeOK /\ EpochsHold
    BY StepRefines DEF StoreInv
  <2>2. \A id \in Existing' : SpendingHolds(id)'
    BY <2>1, SpendingKept DEF ChainInv, EpochsHold
  <2>3. \A h \in DOMAIN heads' : HeadHolds(h)'
    <3>1. CASE Finalize
      BY <2>1, <3>1, NewHeadHolds
    <3>2. CASE ~Finalize
      <4>1. UNCHANGED heads
        BY <3>2 DEF IssuerNext, allVars, issuer, BindApprovedCampaign, Publish, Withdraw, Issue,
           LoadIssue, Reserve, Sign, Recheck, Save, EndCall
      <4> QED
        BY <2>1, <4>1, HeadKept DEF ChainInv
    <3> QED
      BY <3>1, <3>2
  <2>4. rewards' \subseteq signatures' \cup Foreign
    <3>1. CASE \E signature \in signatures \cup Foreign : PayClaim(signature) /\ UNCHANGED issuer
      BY <3>1 DEF PayClaim, ChainInv, issuer
    <3>2. CASE Govern /\ UNCHANGED issuer
      BY <3>2 DEF ChainInv, issuer, Govern, chain, Tick, Donate, SetPaused, RotateSigner,
         CancelCampaign, RefundExpired, Refund, CreateCampaign
    <3>3. CASE UNCHANGED vars /\ signatures \subseteq signatures'
      BY <3>3 DEF ChainInv, vars, chain
    <3> QED
      BY <3>1, <3>2, <3>3 DEF IssuerNext, allVars, issuer, Finalize, BindApprovedCampaign,
         Publish, Withdraw, Issue, LoadIssue, Reserve, Sign, Recheck, Save, EndCall
  <2> QED
    BY <2>2, <2>3, <2>4 DEF ChainInv
<1> QED
  BY <1>1, <1>2, StoreInvariant, ContractUnderIssuer, ClaimsInvariant, PTL DEF IssuerSpec

-----------------------------------------------------------------------------
(* What the issuer promises.                                                *)

\* Every signature is the one that the saved rows of its user determine, and the slots
\* that the rows hold are 0, 1, ..., one to a user and no more than were funded: no call,
\* crash or retry can leave a signature that the database does not account for, and none is
\* of an authority still to come, which the next rotation would not revoke.
THEOREM IssuerIsSafe == IssuerSpec => []IssuerSafe
<1>1. StoreInv /\ ChainInv => IssuerSafe
  <2> SUFFICES ASSUME StoreInv, ChainInv PROVE IssuerSafe
    OBVIOUS
  <2>1. SignedAsSaved
    <3> SUFFICES ASSUME NEW s \in signatures
                 PROVE  \E u \in Users :
                           LET row == authorizations[<<u, s.claim.epoch>>]
                           IN  /\ allocations[u] # None /\ row # None
                               /\ s = SignatureFor(u, s.claim.epoch, row.signer)
      BY DEF SignedAsSaved
    <3>1. PICK u \in Users, h \in DOMAIN heads : MadeFor(s, u, h)
      BY DEF StoreInv, SignaturesHold
    <3>2. s.claim.epoch = EpochAt(h)
      BY <3>1 DEF MadeFor, SignatureFor
    <3> QED
      BY <3>1, <3>2 DEF MadeFor, Allocated, Authorized
  <2>2. SignedInForce
    <3> SUFFICES ASSUME NEW s \in signatures
                 PROVE  AuthorityOf(s) \in retired \cup {InForce(Bound)}
      BY DEF SignedInForce
    <3>1. PICK u \in Users, h \in DOMAIN heads : MadeFor(s, u, h)
      BY DEF StoreInv, SignaturesHold
    <3>2. AuthorityOf(s) = AuthorityAt(h)
      BY <3>1 DEF MadeFor, SignatureFor, AuthorityOf, AuthorityAt
    <3> QED
      BY <3>2 DEF ChainInv, HeadHolds
  <2> QED
    BY <2>1, <2>2 DEF StoreInv, IssuerSafe, SlotsInv
<1> QED
  BY <1>1, StoreInvariant, ChainInvariant, PTL

\* The payment of a claim takes one slot and one participant of the campaign.
LEMMA RewardedParticipant ==
  ASSUME RewardedOnce, NEW id, NEW participant
  PROVE  Cardinality({r \in rewards : r.claim.id = id /\ r.claim.participant = participant}) <= 1
<1>1. PICK paid : paid = {r \in rewards : r.claim.id = id /\ r.claim.participant = participant}
  OBVIOUS
<1>2. CASE paid = {}
  BY <1>1, <1>2, FS_EmptySet
<1>3. CASE paid # {}
  <2>1. PICK r \in paid : TRUE
    BY <1>3
  <2>2. paid = {r}
    BY <1>1, <2>1 DEF RewardedOnce
  <2>3. Cardinality({r}) = 1
    BY FS_Singleton
  <2> QED
    BY <1>1, <2>2, <2>3
<1> QED
  BY <1>2, <1>3

\* No user has two rewards of the campaign, and what was paid on the server's signatures
\* went where a user's allocation said, whatever calls were repeated, interleaved or lost.
THEOREM OneRewardEach == IssuerSpec => []OneRewardPerUser
<1>1. StoreInv /\ ChainInv /\ ClaimsInv => OneRewardPerUser
  <2> SUFFICES ASSUME StoreInv, ChainInv, ClaimsInv PROVE OneRewardPerUser
    OBVIOUS
  <2>1. ASSUME NEW r \in rewards \ Foreign
        PROVE  \E u \in Users : /\ allocations[u] # None
                                /\ r.claim.participant = allocations[u].participant
                                /\ r.claim.recipient = allocations[u].recipient
    <3>1. r \in signatures
      BY <2>1 DEF ChainInv
    <3>2. PICK u \in Users, h \in DOMAIN heads : MadeFor(r, u, h)
      BY <3>1 DEF StoreInv, SignaturesHold
    <3> QED
      BY <3>2 DEF MadeFor, SignatureFor, Allocated
  <2>2. \A u \in Users : allocations[u] # None =>
           Cardinality({r \in rewards : /\ r.claim.id = Bound
                                        /\ r.claim.participant = allocations[u].participant}) <= 1
    <3>1. RewardedOnce
      BY DEF ClaimsInv
    <3>2. \A participant : Cardinality({r \in rewards : /\ r.claim.id = Bound
                                                        /\ r.claim.participant = participant}) <= 1
      BY <3>1, RewardedParticipant
    <3> QED
      BY <3>2
  <2> QED
    BY <2>1, <2>2 DEF OneRewardPerUser
<1> QED
  BY <1>1, StoreInvariant, ChainInvariant, ContractUnderIssuer, ClaimsInvariant, PTL

\* The slot of a signature of the epoch that the campaign is in can only have been spent
\* on that signature's own user.
LEMMA SlotIsTheUsers ==
  ASSUME StoreInv, ChainInv, NEW s \in signatures, Bound \in Existing,
         s.claim.epoch = campaigns[Bound].epoch, s.claim.slot \in usedSlots[Bound]
  PROVE  \E r \in rewards : r.claim.id = Bound /\ r.claim.participant = s.claim.participant
<1>1. PICK u \in Users, h \in DOMAIN heads : MadeFor(s, u, h)
  BY DEF StoreInv, SignaturesHold
<1>2. /\ s.signer = SignerAt(h) /\ s.claim.epoch = EpochAt(h)
      /\ s.claim.slot = allocations[u].slot /\ s.claim.participant = allocations[u].participant
      /\ s.claim.slot \notin heads[h].slots /\ SignerAt(h) \in Configured /\ Allocated(u)
  BY <1>1 DEF MadeFor, SignatureFor, Unused, Ours
<1>3. PICK r \in rewards : r.claim.id = Bound /\ r.claim.slot = s.claim.slot
  BY DEF ChainInv, SpendingHolds
<1>4. r.claim.epoch = EpochAt(h) /\ r.signer = SignerAt(h)
  <2>1. r.claim.epoch >= EpochAt(h) /\ r.claim.epoch <= campaigns[Bound].epoch
    BY <1>2, <1>3 DEF ChainInv, HeadHolds, SpendingHolds
  <2>2. r.claim.epoch \in Nat /\ EpochAt(h) \in Nat
    BY <1>3, HeadType DEF StoreInv, TypeOK, Signature, Claim
  <2>3. r.claim.epoch = EpochAt(h)
    BY <1>2, <2>1, <2>2
  <2> QED
    BY <1>2, <1>3, <2>3 DEF ChainInv, HeadHolds
<1>5. r \in signatures
  BY <1>2, <1>3, <1>4 DEF ChainInv, Foreign
<1>6. PICK v \in Users, g \in DOMAIN heads : MadeFor(r, v, g)
  BY <1>5 DEF StoreInv, SignaturesHold
<1>7. Allocated(v) /\ r.claim.slot = allocations[v].slot
      /\ r.claim.participant = allocations[v].participant
  BY <1>6 DEF MadeFor, SignatureFor
<1>8. v = u
  BY <1>2, <1>3, <1>7 DEF StoreInv, SlotsInv, SlotsDistinct
<1> QED
  BY <1>2, <1>3, <1>7, <1>8

\* An unused slot in range leaves the campaign a reward to pay.
LEMMA SlotLeavesReward ==
  ASSUME TypeOK, ClaimsInv, NothingUnderflows, NEW id \in OpenIds, NEW slot \in Nat,
         slot < campaigns[id].terms.maxClaims, slot \notin usedSlots[id]
  PROVE  totalReserved >= campaigns[id].terms.reward /\ balance >= campaigns[id].terms.reward
<1>1. id \in Existing /\ Counted(id)
  BY DEF OpenIds, ClaimsInv
<1>2. PICK c \in Campaign : c = campaigns[id]
  BY <1>1 DEF TypeOK
<1>3. c.terms \in CampaignTerms /\ c.paid \in Nat
  BY DEF Campaign
<1>4. c.terms.maxClaims \in Nat /\ c.terms.reward \in Nat
  BY <1>3 DEF CampaignTerms
<1>5. PICK m \in Nat : m = c.terms.maxClaims
  BY <1>4
<1>6. /\ IsFiniteSet(usedSlots[id] \cup {slot})
      /\ Cardinality(usedSlots[id] \cup {slot}) = c.paid + 1
  BY <1>1, <1>2, FS_AddElement DEF Counted
<1>7. usedSlots[id] \cup {slot} \subseteq 0 .. m - 1
  BY <1>1, <1>2, <1>5 DEF Counted
<1>8. IsFiniteSet(0 .. m - 1) /\ Cardinality(0 .. m - 1) = m
  BY SlotCount
<1>9. Cardinality(usedSlots[id] \cup {slot}) <= Cardinality(0 .. m - 1)
  BY <1>7, <1>8, FS_Subset
<1>10. c.paid < m
  BY <1>3, <1>6, <1>8, <1>9
<1>11. /\ Outstanding(c) \in 0 .. totalReserved /\ Outstanding(c) <= balance
       /\ c.terms.reward <= Outstanding(c)
  BY <1>2, <1>5, <1>10 DEF NothingUnderflows
<1>12. totalReserved \in Nat /\ balance \in Nat
  BY DEF TypeOK
<1> QED
  BY <1>2, <1>4, <1>11, <1>12

\* A signature that was handed out can be cashed until its user is paid: whatever else was
\* signed and paid meanwhile, its slot is free, its signer is the campaign's, and the
\* tokens for it are in the contract.
THEOREM AuthorizedIsPayable == IssuerSpec => []AuthorizedCanClaim
<1>1. StoreInv /\ ChainInv /\ ClaimsInv /\ NothingUnderflows => AuthorizedCanClaim
  <2> SUFFICES ASSUME StoreInv, ChainInv, ClaimsInv, NothingUnderflows, NEW s \in signatures,
                      IsOpen(Bound), InWindow(campaigns[Bound], s.claim),
                      s.claim.epoch = campaigns[Bound].epoch,
                      ~ \E r \in rewards :
                           r.claim.id = Bound /\ r.claim.participant = s.claim.participant
               PROVE  /\ Unclaimed(s.claim) /\ Matches(campaigns[Bound], s.claim)
                      /\ s.signer = campaigns[Bound].terms.signer
                      /\ totalReserved >= s.claim.amount /\ balance >= s.claim.amount
    BY DEF AuthorizedCanClaim
  <2>1. PICK u \in Users, h \in DOMAIN heads : MadeFor(s, u, h)
    BY DEF StoreInv, SignaturesHold
  <2>2. /\ s.signer = SignerAt(h) /\ s.claim.epoch = EpochAt(h) /\ s.claim.id = Bound
        /\ s.claim.slot = allocations[u].slot /\ s.claim.amount = Approved.reward
        /\ Allocated(u) /\ Ours(h)
    BY <2>1 DEF MadeFor, SignatureFor
  <2>3. /\ Bound \in OpenIds /\ Bound \in Existing /\ HeadHolds(h) /\ SpendingHolds(Bound)
    BY DEF ChainInv, IsOpen, OpenIds
  <2>4. s.signer = campaigns[Bound].terms.signer
    BY <2>2, <2>3 DEF HeadHolds
  <2>5. /\ campaigns[Bound].terms.reward = Approved.reward
        /\ campaigns[Bound].terms.maxClaims = Approved.maxClaims
    <3>1. heads[h].campaign.terms \in CampaignTerms
      BY HeadType DEF StoreInv
    <3>2. /\ heads[h].campaign.terms.reward = Approved.reward
          /\ heads[h].campaign.terms.maxClaims = Approved.maxClaims
      BY <2>2, <3>1, ApprovedTerms DEF Ours
    <3>3. campaigns[Bound].terms =
             [heads[h].campaign.terms EXCEPT !.signer = campaigns[Bound].terms.signer]
      BY <2>3 DEF HeadHolds
    <3>4. PICK t \in CampaignTerms : t = heads[h].campaign.terms
      BY <3>1
    <3>5. PICK x : x = campaigns[Bound].terms.signer
      OBVIOUS
    <3>6. [t EXCEPT !.signer = x].reward = t.reward
          /\ [t EXCEPT !.signer = x].maxClaims = t.maxClaims
      BY DEF CampaignTerms
    <3> QED
      BY <3>2, <3>3, <3>4, <3>5, <3>6
  <2>6. s.claim.slot \in Nat /\ s.claim.slot < Approved.maxClaims
    <3>1. s.claim.slot \in 0 .. nextSlot - 1
      BY <2>2 DEF StoreInv, SlotsInv, SlotsFit, Allocated
    <3>2. nextSlot \in Nat /\ nextSlot <= Approved.maxClaims /\ Approved.maxClaims \in Nat
      BY BoundAssumption DEF StoreInv, SlotsInv, SlotsFit, IssuerTypeOK, CampaignTerms
    <3> QED
      BY <3>1, <3>2
  <2>7. Matches(campaigns[Bound], s.claim)
    BY <2>2, <2>5, <2>6 DEF Matches
  <2>8. s.claim.slot \notin usedSlots[Bound]
    BY <2>3, SlotIsTheUsers
  <2>9. s.claim.participant \notin claimedParticipants[Bound]
    BY <2>3 DEF SpendingHolds
  <2>10. totalReserved >= Approved.reward /\ balance >= Approved.reward
    BY <2>3, <2>5, <2>6, <2>8, SlotLeavesReward DEF StoreInv
  <2> QED
    BY <2>2, <2>4, <2>7, <2>8, <2>9, <2>10 DEF Unclaimed
<1> QED
  BY <1>1, StoreInvariant, ChainInvariant, ContractUnderIssuer, ClaimsInvariant,
     RefundsAlwaysCovered, PTL

\* What was proved of the contract alone holds of it under the issuer: the sponsor's
\* funding caps what any signer can spend, and a rotation revokes what was signed before.
THEOREM RewardsUnderIssuer ==
  IssuerSpec => []TypeOK /\ []RewardsSafe /\ RotationRevokes
  BY ContractUnderIssuer, TypeCorrect, RewardsAreSafe, RotationIsFinal, PTL

=============================================================================
