--------------------------- MODULE LearningRewards ---------------------------
(***************************************************************************)
(* The Base reward escrow of contract-base/src/LearningRewards.sol.  Every   *)
(* external method is nonReentrant and reverts as a whole, so each one is an *)
(* atomic action whose guard is the conjunction of its checks.  A call that  *)
(* reverts, a failed token transfer included, changes nothing.              *)
(*                                                                         *)
(* The ERC-20 token is outside this repository: only the balance of the      *)
(* contract is kept.  A signature is the pair of its signer and the claim it *)
(* covers: EIP-712 binds every field of the claim, the contract and the      *)
(* chain.  Left out: events, terms hashes, zero addresses, and overflow of   *)
(* the 32, 64 and 256 bit counters, which Solidity 0.8 turns into reverts.   *)
(***************************************************************************)
EXTENDS Integers, FiniteSets

CONSTANTS
    CampaignIds,   \* the campaign ids that exist before the bound is reached: 1 .. n
    Slots,         \* slot numbers a claim may name
    Participants,  \* participant ids
    Sponsors,      \* accounts that create campaigns
    Recipients,    \* addresses that receive rewards
    Signers,       \* eligibility signers
    Terms,         \* the campaign terms that sponsors submit
    Amounts,       \* the amounts that claims name
    Deadlines,     \* the deadlines that claims name
    Donations,     \* amounts that anyone may send to the contract
    MaxTime,       \* bound on the clock
    MaxEpoch,      \* bound on signer epochs
    MaxSurplus     \* bound on donated tokens

\* CampaignTerms as submitted, and as createCampaign lets them through.
Offer == [reward : Nat, maxClaims : Nat, startsAt : Nat, endsAt : Nat,
          claimDeadline : Nat, signer : Signers]
CampaignTerms == [reward : Nat \ {0}, maxClaims : Nat \ {0}, startsAt : Nat, endsAt : Nat,
                  claimDeadline : Nat, signer : Signers]

Campaign == [sponsor : Sponsors, terms : CampaignTerms, funded : Nat, refunded : Nat,
             epoch : Nat, paid : Nat, paused : BOOLEAN, closed : BOOLEAN]

Claim == [id : CampaignIds, slot : Slots, participant : Participants,
          recipient : Recipients, amount : Amounts, deadline : Deadlines,
          epoch : 1 .. MaxEpoch]

\* The signatures a signer can make: of any claim it likes, conflicting ones included.
Signature == [signer : Signers, claim : Claim]

ASSUME IdsAssumption == CampaignIds \subseteq Nat
ASSUME ClaimsAssumption == Slots \subseteq Nat /\ Amounts \subseteq Nat /\ Deadlines \subseteq Nat
ASSUME TermsAssumption == Terms \subseteq Offer /\ Donations \subseteq Nat
ASSUME BoundsAssumption == MaxTime \in Nat /\ MaxEpoch \in Nat \ {0} /\ MaxSurplus \in Nat

VARIABLES
    now,                 \* block.timestamp
    campaignCount,
    campaigns,           \* campaigns of the ids 1 .. campaignCount
    usedSlots,           \* per campaign, the slots that were paid
    claimedParticipants, \* per campaign, the participants that were paid
    totalReserved,
    balance,             \* token balance of the contract
    surplus,             \* history: tokens sent to the contract outside createCampaign
    rewards,             \* history: the signatures that were paid
    retired              \* history: the authorities that were rotated away

chain == <<campaignCount, campaigns, usedSlots, claimedParticipants, totalReserved,
           balance, surplus, rewards, retired>>
vars == <<now, chain>>

Existing == 1 .. campaignCount

\* An authority to sign: of a signer, over a campaign, for an epoch of it.
SigningAuthority == [id : CampaignIds, signer : Signers, epoch : Nat]

\* The authority that claim accepts now, and the one that a signature was made under.
InForce(id) == [id |-> id, signer |-> campaigns[id].terms.signer, epoch |-> campaigns[id].epoch]
AuthorityOf(s) == [id |-> s.claim.id, signer |-> s.signer, epoch |-> s.claim.epoch]

TypeOK ==
    /\ now \in Nat
    /\ campaignCount \in Nat /\ Existing \subseteq CampaignIds
    /\ campaigns \in [Existing -> Campaign]
    /\ usedSlots \in [CampaignIds -> SUBSET Slots]
    /\ claimedParticipants \in [CampaignIds -> SUBSET Participants]
    /\ totalReserved \in Nat /\ balance \in Nat /\ surplus \in Nat
    /\ rewards \subseteq Signature
    /\ retired \subseteq SigningAuthority

Init ==
    /\ now = 0
    /\ campaignCount = 0
    /\ campaigns = [id \in 1 .. 0 |-> 0]
    /\ usedSlots = [id \in CampaignIds |-> {}]
    /\ claimedParticipants = [id \in CampaignIds |-> {}]
    /\ totalReserved = 0 /\ balance = 0 /\ surplus = 0
    /\ rewards = {} /\ retired = {}

-----------------------------------------------------------------------------
ValidTermsZeroReward(terms) ==
    /\ terms.maxClaims > 0
    /\ terms.startsAt >= now
    /\ terms.endsAt > terms.startsAt
    /\ terms.claimDeadline > terms.endsAt

\* createCampaign's checks on the terms.
ValidTerms(terms) ==
    /\ terms.reward > 0 /\ terms.maxClaims > 0
    /\ terms.startsAt >= now
    /\ terms.endsAt > terms.startsAt
    /\ terms.claimDeadline > terms.endsAt

Principal(terms) == terms.reward * terms.maxClaims

\* createCampaign's record of a campaign.
Funded(sponsor, terms) ==
    [sponsor |-> sponsor, terms |-> terms, funded |-> Principal(terms), refunded |-> 0,
     epoch |-> 1, paid |-> 0, paused |-> FALSE, closed |-> FALSE]

\* createCampaign: the token delivered exactly the principal, or the call reverts.
CreateCampaign(sponsor, terms) ==
    LET id == campaignCount + 1
    IN  /\ id \in CampaignIds
        /\ ValidTerms(terms)
        /\ campaignCount' = id
        /\ campaigns' = [i \in 1 .. id |->
                            IF i = id THEN Funded(sponsor, terms) ELSE campaigns[i]]
        /\ totalReserved' = totalReserved + Principal(terms)
        /\ balance' = balance + Principal(terms)
        /\ UNCHANGED <<now, usedSlots, claimedParticipants, surplus, rewards, retired>>

\* _campaign and _openCampaign
IsOpen(id) == id \in Existing /\ ~campaigns[id].closed

InWindow(c, claim) ==
    /\ now >= c.terms.startsAt
    /\ now <= claim.deadline
    /\ claim.deadline <= c.terms.claimDeadline

MatchesAnyEpoch(c, claim) ==
    claim.slot < c.terms.maxClaims /\ claim.amount = c.terms.reward

MatchesAnySlot(c, claim) == claim.amount = c.terms.reward /\ claim.epoch = c.epoch

Matches(c, claim) ==
    /\ claim.slot < c.terms.maxClaims
    /\ claim.amount = c.terms.reward
    /\ claim.epoch = c.epoch

UnclaimedSlot(claim) == claim.slot \notin usedSlots[claim.id]

Unclaimed(claim) ==
    /\ claim.slot \notin usedSlots[claim.id]
    /\ claim.participant \notin claimedParticipants[claim.id]

\* claim: anyone may submit a signed claim, any number of times.  Its subtraction
\* and its token transfer revert when they would fall below zero.
PayClaim(signature) ==
    LET claim == signature.claim
        id == claim.id
    IN  /\ IsOpen(id)
        /\ signature.signer = campaigns[id].terms.signer
        /\ ~campaigns[id].paused
        /\ InWindow(campaigns[id], claim)
        /\ Matches(campaigns[id], claim)
        /\ Unclaimed(claim)
        /\ totalReserved >= claim.amount /\ balance >= claim.amount
        /\ usedSlots' = [usedSlots EXCEPT ![id] = @ \cup {claim.slot}]
        /\ claimedParticipants' = [claimedParticipants EXCEPT ![id] = @ \cup {claim.participant}]
        /\ campaigns' = [campaigns EXCEPT ![id].paid = @ + 1]
        /\ totalReserved' = totalReserved - claim.amount
        /\ balance' = balance - claim.amount
        /\ rewards' = rewards \cup {signature}
        /\ UNCHANGED <<now, campaignCount, surplus, retired>>

\* _controlledCampaign
Controls(caller, id) == IsOpen(id) /\ campaigns[id].sponsor = caller

SetPaused(caller, id, paused) ==
    /\ Controls(caller, id)
    /\ campaigns' = [campaigns EXCEPT ![id].paused = paused]
    /\ UNCHANGED <<now, campaignCount, usedSlots, claimedParticipants, totalReserved,
                   balance, surplus, rewards, retired>>

RotateSignerSameEpoch(caller, id, signer) ==
    /\ Controls(caller, id)
    /\ campaigns' = [campaigns EXCEPT ![id].terms.signer = signer]
    /\ retired' = retired \cup {InForce(id)}
    /\ UNCHANGED <<now, campaignCount, usedSlots, claimedParticipants, totalReserved,
                   balance, surplus, rewards>>

\* rotateSigner: the authority in force goes, also when the signer stays the same.
RotateSigner(caller, id, signer) ==
    /\ Controls(caller, id)
    /\ campaigns[id].epoch < MaxEpoch
    /\ campaigns' = [campaigns EXCEPT ![id].terms.signer = signer, ![id].epoch = @ + 1]
    /\ retired' = retired \cup {InForce(id)}
    /\ UNCHANGED <<now, campaignCount, usedSlots, claimedParticipants, totalReserved,
                   balance, surplus, rewards>>

OutstandingGross(c) == c.funded - c.refunded

\* _outstanding
Outstanding(c) == c.funded - c.paid * c.terms.reward - c.refunded

\* _refund
Refund(id) ==
    LET amount == Outstanding(campaigns[id])
    IN  /\ amount >= 0
        /\ totalReserved >= amount /\ balance >= amount
        /\ campaigns' = [campaigns EXCEPT ![id].closed = TRUE, ![id].refunded = @ + amount]
        /\ totalReserved' = totalReserved - amount
        /\ balance' = balance - amount
        /\ UNCHANGED <<now, campaignCount, usedSlots, claimedParticipants, surplus, rewards, retired>>

CancelCampaign(caller, id) ==
    /\ Controls(caller, id)
    /\ now < campaigns[id].terms.startsAt
    /\ campaigns[id].paid = 0
    /\ Refund(id)

\* refundExpired: anyone may call it.
RefundExpired(id) ==
    /\ IsOpen(id)
    /\ now > campaigns[id].terms.claimDeadline
    /\ Refund(id)

\* Someone sends tokens to the contract without creating a campaign.
Donate(amount) ==
    /\ amount > 0 /\ surplus + amount <= MaxSurplus
    /\ surplus' = surplus + amount
    /\ balance' = balance + amount
    /\ UNCHANGED <<now, campaignCount, campaigns, usedSlots, claimedParticipants,
                   totalReserved, rewards, retired>>

Tick ==
    /\ now < MaxTime
    /\ now' = now + 1
    /\ UNCHANGED chain

\* Every step but the claims.
Govern ==
    \/ \E sponsor \in Sponsors, terms \in Terms : CreateCampaign(sponsor, terms)
    \/ \E caller \in Sponsors, id \in CampaignIds :
          \/ \E paused \in BOOLEAN : SetPaused(caller, id, paused)
          \/ \E signer \in Signers : RotateSigner(caller, id, signer)
          \/ CancelCampaign(caller, id)
    \/ \E id \in CampaignIds : RefundExpired(id)
    \/ \E amount \in Donations : Donate(amount)
    \/ Tick

Next == Govern \/ \E signature \in Signature : PayClaim(signature)

Spec == Init /\ [][Next]_vars

-----------------------------------------------------------------------------
OpenIds == {id \in Existing : ~campaigns[id].closed}

\* Every atom that an open campaign still owes, once.
ReservedUnits == UNION {{id} \X (1 .. Outstanding(campaigns[id])) : id \in OpenIds}

\* totalReserved is the sum of what the open campaigns still owe, and the tokens in
\* the contract are exactly those and the ones nobody has a claim to.
Accounting ==
    /\ IsFiniteSet(ReservedUnits) /\ totalReserved = Cardinality(ReservedUnits)
    /\ balance = totalReserved + surplus

\* LearningRewards.sol:144, "In-range unused slots cap paidCount, even if an issuer
\* signs conflicting authorizations": as many slots and participants as payments, all
\* slots in range, so that a campaign never pays more rewards than its sponsor funded.
PaidWithinFunding ==
    \A id \in Existing :
        LET c == campaigns[id]
        IN  /\ usedSlots[id] \subseteq 0 .. c.terms.maxClaims - 1
            /\ Cardinality(usedSlots[id]) = c.paid
            /\ Cardinality(claimedParticipants[id]) = c.paid
            /\ c.paid <= c.terms.maxClaims
            /\ c.paid * c.terms.reward + c.refunded <= c.funded

\* No checked subtraction and no transfer of an open campaign can revert for want of
\* tokens: its refund is always covered, and so is each reward it has left.
NothingUnderflows ==
    \A id \in OpenIds :
        LET c == campaigns[id]
        IN  /\ Outstanding(c) \in 0 .. totalReserved /\ Outstanding(c) <= balance
            /\ c.paid < c.terms.maxClaims => c.terms.reward <= Outstanding(c)

\* One reward per slot and per participant, however many claims the signers signed
\* for them and whatever rotations came in between.
RewardedOnce ==
    \A r1, r2 \in rewards :
        /\ r1.claim.id = r2.claim.id
        /\ \/ r1.claim.slot = r2.claim.slot
           \/ r1.claim.participant = r2.claim.participant
        => r1 = r2

\* A closed campaign has given everything back: what was not paid was refunded.
ClosedEmpty ==
    \A id \in Existing : campaigns[id].closed => Outstanding(campaigns[id]) = 0

\* Whatever the signers sign, a campaign pays each participant once, no more than it has,
\* and gives the rest back, and the accounts of the contract balance.
RewardsSafe ==
    Accounting /\ PaidWithinFunding /\ RewardedOnce /\ NothingUnderflows /\ ClosedEmpty

\* LearningRewards.sol:165, rotateSigner revokes: what was signed under an authority that a
\* rotation has taken away is never paid again, whatever was paid or rotated since, and
\* also when the rotation left the same signer or a later one brought it back.
RotationRevokes ==
    [][\A s \in rewards' \ rewards : AuthorityOf(s) \notin retired]_vars
=============================================================================
