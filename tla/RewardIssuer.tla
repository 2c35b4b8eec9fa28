----------------------------- MODULE RewardIssuer -----------------------------
(***************************************************************************)
(* The off-chain issuer of src/server/base/issuer.ts over the contract of     *)
(* LearningRewards: it binds an approved campaign to its on-chain funding,    *)
(* allocates one slot per verified user, and signs the user's claim for the   *)
(* signer epoch it reads from finalized chain state.                         *)
(*                                                                         *)
(* issue is not atomic.  It reads the chain, verifies the user, reserves in a *)
(* database transaction, signs, reads the chain again and saves the signature *)
(* in a second transaction; other calls, the sponsor and the claimants run in *)
(* between, and a call may end at every point (a failed check, a timeout, a   *)
(* crash, a lost response).  Each chain read returns a finalized block, not   *)
(* always the newest one.                                                    *)
(*                                                                         *)
(* A sponsor may rotate to a signer of its own, which signs whatever it likes: *)
(* what RewardsSafe and RotationRevokes say of LearningRewards is checked here.*)
(*                                                                         *)
(* One approved campaign, with on-chain id Bound.  Left out: the review       *)
(* revisions (funded material is immutable), e-mail verification and the      *)
(* wallet proof (verify succeeds or the call ends), and the token amounts     *)
(* that matchingState cross-checks.                                          *)
(***************************************************************************)
EXTENDS LearningRewards, Sequences

CONSTANTS
    Bound,       \* the on-chain id that the owner binds
    Approved,    \* the approved terms
    Users,       \* users who passed the eligibility checks
    Calls,       \* issue calls that may run at once
    Configured,  \* signers whose key a server has
    None,        \* absence of a row
    MaxLag,      \* maxFinalizedLagSeconds
    MaxHeads     \* bound on finalized blocks

ASSUME BoundAssumption == Bound \in CampaignIds /\ Approved \in CampaignTerms
\* The bounded sets of what claims name hold what the approved terms make them name.
ASSUME ClaimableAssumption ==
    /\ Approved.reward \in Amounts /\ Approved.claimDeadline \in Deadlines
    /\ 0 .. Approved.maxClaims - 1 \subseteq Slots
ASSUME ConfiguredAssumption == Configured \subseteq Signers
ASSUME IssuerBoundsAssumption == MaxLag \in Nat /\ MaxHeads \in Nat

VARIABLES
    heads,          \* finalized blocks: what getCampaign, usedSlots and claimedParticipants return
    bound,          \* base_reward_campaigns has a row
    published,      \* base_learning_publications has a row that is not withdrawn
    nextSlot,       \* base_reward_campaigns.next_slot
    allocations,    \* base_reward_allocations: user -> row or None
    authorizations, \* base_reward_authorizations: user, epoch -> row or None
    calls,          \* the issue calls in progress
    signatures      \* the signatures that were ever made

FinalBlock == [campaign : Campaign, slots : SUBSET Slots, participants : SUBSET Participants, at : Nat]

Allocation == [slot : Slots, participant : Participants, recipient : Recipients]

Authorization == [signer : Signers, head : Nat, signed : BOOLEAN]

Call == [stage : {"loaded", "reserved", "signed", "checked"}, user : Users,
         recipient : Recipients, head : Nat, latest : Nat]

\* None is no row.
ASSUME NoneAssumption == None \notin Allocation \cup Authorization

Epochs == 1 .. MaxEpoch

\* A sponsor may name, or rotate to, a signer whose key no server has: it signs anything.
Foreign == {s \in Signature : s.signer \notin Configured}

store == <<bound, published, nextSlot, allocations, authorizations>>
issuer == <<heads, store, calls, signatures>>
allVars == <<vars, issuer>>

IssuerTypeOK ==
    /\ heads \in Seq(FinalBlock)
    /\ bound \in BOOLEAN /\ published \in BOOLEAN
    /\ nextSlot \in Nat
    /\ allocations \in [Users -> Allocation \cup {None}]
    /\ authorizations \in [Users \X Epochs -> Authorization \cup {None}]
    /\ calls \in [Calls -> Call \cup {None}]
    /\ signatures \subseteq Signature

IssuerInit ==
    /\ Init
    /\ heads = <<>>
    /\ bound = FALSE /\ published = FALSE
    /\ nextSlot = 0
    /\ allocations = [u \in Users |-> None]
    /\ authorizations = [row \in Users \X Epochs |-> None]
    /\ calls = [k \in Calls |-> None]
    /\ signatures = {}

-----------------------------------------------------------------------------
(* The chain as the issuer reads it.                                        *)

\* A block with the present state of the campaign becomes final.
Finalize ==
    /\ Bound \in Existing
    /\ Len(heads) < MaxHeads
    /\ heads' = Append(heads, [campaign |-> campaigns[Bound], slots |-> usedSlots[Bound],
                               participants |-> claimedParticipants[Bound], at |-> now])
    /\ UNCHANGED <<vars, store, calls, signatures>>

\* freshState
Fresh(h) == now - heads[h].at <= MaxLag

\* matchingState: the terms without the signer, which the sponsor may rotate.
Matching(h) == Fresh(h) /\ [heads[h].campaign.terms EXCEPT !.signer = Approved.signer] = Approved

\* available
Available(h) ==
    LET c == heads[h].campaign
    IN  ~c.paused /\ ~c.closed /\ now >= c.terms.startsAt /\ now <= c.terms.claimDeadline

\* assertUnused, at the block h
Unused(user, h) ==
    /\ allocations[user].slot \notin heads[h].slots
    /\ allocations[user].participant \notin heads[h].participants

EpochAt(h) == heads[h].campaign.epoch

SignerAtNewest(h) == heads[Len(heads)].campaign.terms.signer

SignerAt(h) == heads[h].campaign.terms.signer

-----------------------------------------------------------------------------
\* bindApprovedCampaign: only funding that nobody has touched.
BindApprovedCampaign(h) ==
    /\ ~bound
    /\ Matching(h)
    /\ heads[h].campaign.paid = 0 /\ EpochAt(h) = 1 /\ SignerAt(h) = Approved.signer
    /\ ~heads[h].campaign.closed /\ ~heads[h].campaign.paused
    /\ bound' = TRUE
    /\ UNCHANGED <<vars, heads, published, nextSlot, allocations, authorizations, calls, signatures>>

\* publish, as far as issue depends on it.
Publish(h) ==
    /\ bound /\ Matching(h)
    /\ ~heads[h].campaign.closed /\ ~heads[h].campaign.paused
    /\ now < Approved.endsAt /\ nextSlot < Approved.maxClaims
    /\ published' = TRUE
    /\ UNCHANGED <<vars, heads, bound, nextSlot, allocations, authorizations, calls, signatures>>

Withdraw ==
    /\ published' = FALSE
    /\ UNCHANGED <<vars, heads, bound, nextSlot, allocations, authorizations, calls, signatures>>

\* issue, up to the verification of the user.
LoadIssue(k) ==
    /\ calls[k] = None
    /\ bound
    /\ \E h \in DOMAIN heads :
          /\ Matching(h) /\ Available(h)
          /\ SignerAt(h) \in Configured
          /\ \E user \in Users, recipient \in Recipients :
                calls' = [calls EXCEPT ![k] =
                    [stage |-> "loaded", user |-> user, recipient |-> recipient,
                     head |-> h, latest |-> h]]
    /\ UNCHANGED <<vars, heads, store, signatures>>

\* issue's history query: finalized state has not moved backwards.
NotBackwards(h) ==
    \A row \in Users \X Epochs : authorizations[row] # None =>
        row[2] <= EpochAt(h) /\ authorizations[row].head <= h

SlotLeftOffByOne(h) == nextSlot <= heads[h].campaign.terms.maxClaims

\* A slot is left for a new allocation.
SlotLeft(h) == nextSlot < heads[h].campaign.terms.maxClaims

KeepAllocationRedirected(call) ==
    /\ allocations[call.user] # None
    /\ allocations' = [allocations EXCEPT ![call.user].recipient = call.recipient]
    /\ UNCHANGED nextSlot

\* The user has an allocation, whose recipient cannot change.
KeepAllocation(call) ==
    /\ allocations[call.user] # None
    /\ allocations[call.user].recipient = call.recipient
    /\ UNCHANGED <<allocations, nextSlot>>

\* The user takes the next slot under a fresh participant id.
NewAllocation(call, participant) ==
    /\ allocations[call.user] = None
    /\ published
    /\ now < heads[call.head].campaign.terms.endsAt
    /\ SlotLeft(call.head)
    /\ \A u \in Users : allocations[u] # None => allocations[u].participant # participant
    /\ allocations' = [allocations EXCEPT ![call.user] =
          [slot |-> nextSlot, participant |-> participant, recipient |-> call.recipient]]
    /\ nextSlot' = nextSlot + 1

NewAuthorization(call) ==
    [signer |-> SignerAt(call.head), head |-> call.head, signed |-> FALSE]

\* ON CONFLICT (allocation_id, signer_epoch) DO NOTHING, and the saved row must agree.
Authorize(call) ==
    LET row == <<call.user, EpochAt(call.head)>>
    IN  \/ /\ authorizations[row] = None
           /\ authorizations' = [authorizations EXCEPT ![row] = NewAuthorization(call)]
        \/ /\ authorizations[row] # None
           /\ authorizations[row].signer = SignerAt(call.head)
           /\ UNCHANGED authorizations

\* issue's first transaction, on the chain state that the call read before.
Reserve(k, participant) ==
    LET call == calls[k]
    IN  /\ call # None /\ call.stage = "loaded"
        /\ Matching(call.head) /\ Available(call.head)
        /\ NotBackwards(call.head)
        /\ KeepAllocation(call) \/ NewAllocation(call, participant)
        /\ Authorize(call)
        /\ calls' = [calls EXCEPT ![k].stage = "reserved"]
        /\ UNCHANGED <<vars, heads, bound, published, signatures>>

\* claimFromRow and the signer's signature of it.
SignatureFor(user, epoch, signer) ==
    [signer |-> signer,
     claim |-> [id |-> Bound, slot |-> allocations[user].slot,
                participant |-> allocations[user].participant,
                recipient |-> allocations[user].recipient,
                amount |-> Approved.reward, deadline |-> Approved.claimDeadline,
                epoch |-> epoch]]

SignableEarly(call) == call.stage \in {"loaded", "reserved"} /\ allocations[call.user] # None

\* The full tuple is committed before any signature can escape.
Signable(call) == call.stage = "reserved"

\* The claim is unused at the block of the call: sign it (a saved signature is the same one).
Sign(k) ==
    LET call == calls[k]
    IN  /\ call # None /\ Signable(call)
        /\ Unused(call.user, call.head)
        /\ signatures' = signatures \cup
              {SignatureFor(call.user, EpochAt(call.head), SignerAt(call.head))}
        /\ calls' = [calls EXCEPT ![k].stage = "signed"]
        /\ UNCHANGED <<vars, heads, store>>

\* issue's second look at the chain.
Recheck(k, h) ==
    LET call == calls[k]
    IN  /\ call # None /\ call.stage = "signed"
        /\ Matching(h) /\ Available(h)
        /\ h >= call.head
        /\ EpochAt(h) = EpochAt(call.head) /\ SignerAt(h) = SignerAt(call.head)
        /\ Unused(call.user, h)
        /\ calls' = [calls EXCEPT ![k].stage = "checked", ![k].latest = h]
        /\ UNCHANGED <<vars, heads, store, signatures>>

\* issue's second transaction: the answer carries the saved signature.
Save(k) ==
    LET call == calls[k]
        row == <<call.user, EpochAt(call.head)>>
    IN  /\ call # None /\ call.stage = "checked"
        /\ Fresh(call.latest) /\ Available(call.latest)
        /\ authorizations[row] # None
        /\ authorizations' = [authorizations EXCEPT ![row].signed = TRUE]
        /\ calls' = [calls EXCEPT ![k] = None]
        /\ UNCHANGED <<vars, heads, bound, published, nextSlot, allocations, signatures>>

\* A check fails, a port times out, the server crashes or the response is lost.
EndCall(k) ==
    /\ calls[k] # None
    /\ calls' = [calls EXCEPT ![k] = None]
    /\ UNCHANGED <<vars, heads, store, signatures>>

-----------------------------------------------------------------------------
Issue ==
    \E k \in Calls :
        \/ LoadIssue(k)
        \/ \E participant \in Participants : Reserve(k, participant)
        \/ Sign(k)
        \/ \E h \in DOMAIN heads : Recheck(k, h)
        \/ Save(k)
        \/ EndCall(k)

IssuerNext ==
    \/ Govern /\ UNCHANGED issuer
    \/ \E signature \in signatures \cup Foreign : PayClaim(signature) /\ UNCHANGED issuer
    \/ Finalize
    \/ \E h \in DOMAIN heads : BindApprovedCampaign(h) \/ Publish(h)
    \/ Withdraw
    \/ Issue

IssuerSpec == IssuerInit /\ [][IssuerNext]_allVars

-----------------------------------------------------------------------------
\* The full tuple is in the database before any signature exists, so that no crash or
\* lost response can leave a signature that a retry would not make again: every
\* signature is the one that the saved rows of its user determine.
SignedAsSaved ==
    \A s \in signatures : \E u \in Users :
        LET row == authorizations[<<u, s.claim.epoch>>]
        IN  /\ allocations[u] # None /\ row # None
            /\ s = SignatureFor(u, s.claim.epoch, row.signer)

\* The allocations have the slots 0, 1, ... of the campaign, one each, and no more than
\* were funded.
SlotsFit ==
    /\ {allocations[u].slot : u \in {x \in Users : allocations[x] # None}} = 0 .. nextSlot - 1
    /\ Cardinality({u \in Users : allocations[u] # None}) = nextSlot
    /\ nextSlot <= Approved.maxClaims

\* However stale the block that issue read, it signs under an authority that is or was in
\* force, never one still to come: every signature made before a rotation is among those
\* that RotationRevokes is about.
SignedInForce ==
    \A s \in signatures : AuthorityOf(s) \in retired \cup {InForce(Bound)}

\* The rows are well formed, the slots fit, and no signature is without its row or of an
\* authority that a rotation cannot revoke.
IssuerSafe == IssuerTypeOK /\ SlotsFit /\ SignedAsSaved /\ SignedInForce

\* What the contract paid on the server's signatures belongs to users, whatever the sponsor's
\* own signer signs: each such reward went to the recipient of one user's allocation, and
\* the campaign gave no user two, whatever calls were repeated, interleaved or lost and
\* however often the signer rotated.
OneRewardPerUser ==
    /\ \A r \in rewards \ Foreign : \E u \in Users :
          /\ allocations[u] # None
          /\ r.claim.participant = allocations[u].participant
          /\ r.claim.recipient = allocations[u].recipient
    /\ \A u \in Users : allocations[u] # None =>
          Cardinality({r \in rewards : /\ r.claim.id = Bound
                                       /\ r.claim.participant = allocations[u].participant}) <= 1

\* A signature that was handed out can be cashed until its user is paid: while the
\* campaign is open and unpaused, in time, and not rotated, nothing else takes its slot
\* or uses up its tokens.
AuthorizedCanClaim ==
    \A s \in signatures :
        LET c == campaigns[Bound]
        IN  IsOpen(Bound) /\ InWindow(c, s.claim) /\ s.claim.epoch = c.epoch =>
               \/ \E r \in rewards :
                     r.claim.id = Bound /\ r.claim.participant = s.claim.participant
               \/ /\ Unclaimed(s.claim) /\ Matches(c, s.claim)
                  /\ s.signer = c.terms.signer
                  /\ totalReserved >= s.claim.amount /\ balance >= s.claim.amount
=============================================================================
