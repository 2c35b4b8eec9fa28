---------------------------- MODULE LessonJourney ----------------------------
(***************************************************************************)
(* One lesson of the Base product on its way through Postgres: its owner      *)
(* revises and approves it (src/server/base/review-repository.ts), approves   *)
(* the crossword layout, links the funding and publishes or withdraws it      *)
(* (publication.ts, issuer.ts); a participant completes it, asks for a wallet *)
(* challenge, signs it and gets a reward allocated (participant-repository.ts *)
(* and issuer.ts).                                                          *)
(*                                                                         *)
(* A transaction is one step.  Linking, publishing, completing and issuing    *)
(* await a chain read, and issuing the wallet check as well, so they have a   *)
(* first step (load and chain read, and the first look at the challenge) and  *)
(* later ones.  Loading shares a step with the reads behind it: what it found *)
(* is an input or never changes, or the commit checks it again.  A call may   *)
(* end at every point.                                                       *)
(*                                                                         *)
(* The hashes of terms, review and layout commit to the revision, and its     *)
(* number stands for them.  A signature the wallet check refuses ends a call. *)
(* Slots, epochs, claims and rotations are the matter of RewardIssuer, and so *)
(* is funding that was used before it was linked.  Left out: the creation of  *)
(* the lesson, contact consent, owners, and what drafts and answers contain.  *)
(***************************************************************************)
EXTENDS Naturals, FiniteSets

CONSTANTS
    Users, Wallets,
    OnChainIds,    \* campaigns of the escrow that sponsors may fund
    ChallengeIds,
    Signatures,    \* a wallet may sign one message in several ways
    Calls,         \* calls that may wait for an answer at once
    StartsAt, EndsAt, ClaimDeadline, MaxClaims,   \* of the terms
    ProofWindow,   \* 5 minutes
    MaxLag,        \* maxFinalizedLagSeconds
    MaxRevision,   \* bound on revisions
    MaxTime,       \* bound on the clock
    None

ASSUME JourneyAssumption ==
    /\ StartsAt \in Nat /\ EndsAt \in Nat /\ ClaimDeadline \in Nat /\ MaxClaims \in Nat
    /\ StartsAt < EndsAt /\ EndsAt < ClaimDeadline
    /\ ProofWindow \in Nat \ {0} /\ MaxLag \in Nat /\ MaxRevision \in Nat \ {0} /\ MaxTime \in Nat

VARIABLES
    now,
    revision,      \* base_learning_campaigns.current_revision
    approved,      \* base_learning_approvals
    layouts,       \* base_learning_layouts
    chain,         \* the escrow: on-chain id -> campaign
    bound,         \* base_reward_campaigns
    publication,   \* base_learning_publications
    verified,      \* users.email_verified
    completions,   \* base_participant_completions
    challenges,    \* base_wallet_challenges
    receipts,      \* base_participant_eligibility: challenge -> row
    allocations,   \* base_reward_allocations: user -> row
    calls          \* the calls that wait

review == <<revision, approved, layouts>>
funding == <<bound, publication>>
proofs == <<verified, completions, challenges>>
rewards == <<receipts, allocations>>
vars == <<now, review, chain, funding, proofs, rewards, calls>>

Revisions == 1 .. MaxRevision
Campaign == [revision : Revisions, paused : BOOLEAN, closed : BOOLEAN]
Seen == [revision : Revisions, running : BOOLEAN, at : Nat]
Binding == [revision : Revisions, id : OnChainIds]
Publication == [revision : Revisions, withdrawn : BOOLEAN]
Challenge == [user : Users, recipient : Wallets, revision : Revisions, expires : Nat]
Receipt == [signature : Signatures, at : Nat]
Allocation == [recipient : Wallets, receipt : ChallengeIds]
Call ==
    [op : {"bind"}, id : OnChainIds, revision : Revisions, seen : Seen]
        \cup [op : {"publish"}, revision : Revisions, seen : Seen]
        \cup [op : {"complete"}, user : Users, revision : Revisions, seen : Seen]
        \cup [op : {"issue", "reserve"}, challenge : ChallengeIds, signature : Signatures,
              revision : Revisions, seen : Seen]

ASSUME NoneAssumption ==
    None \notin Campaign \cup Binding \cup Publication \cup Challenge \cup Receipt \cup Allocation \cup Call

TypeOK ==
    /\ now \in Nat
    /\ revision \in Revisions /\ approved \subseteq Revisions /\ layouts \subseteq Revisions
    /\ chain \in [OnChainIds -> Campaign \cup {None}]
    /\ bound \in Binding \cup {None}
    /\ publication \in Publication \cup {None}
    /\ verified \subseteq Users
    /\ completions \subseteq Users \X Revisions
    /\ challenges \in [ChallengeIds -> Challenge \cup {None}]
    /\ receipts \in [ChallengeIds -> Receipt \cup {None}]
    /\ allocations \in [Users -> Allocation \cup {None}]
    /\ calls \in [Calls -> Call \cup {None}]

Init ==
    /\ now = 0
    /\ revision = 1 /\ approved = {} /\ layouts = {}
    /\ chain = [id \in OnChainIds |-> None]
    /\ bound = None /\ publication = None
    /\ verified = {} /\ completions = {}
    /\ challenges = [h \in ChallengeIds |-> None]
    /\ receipts = [h \in ChallengeIds |-> None]
    /\ allocations = [u \in Users |-> None]
    /\ calls = [k \in Calls |-> None]

-----------------------------------------------------------------------------
(* What sponsors do on chain, and what the server reads of it.               *)

\* Anybody may fund a campaign with the terms of any revision, before it starts.
Fund(id, r) ==
    /\ chain[id] = None /\ now <= StartsAt
    /\ chain' = [chain EXCEPT ![id] =
          [revision |-> r, paused |-> FALSE, closed |-> FALSE]]

SetPaused(id, paused) ==
    /\ chain[id] # None /\ ~chain[id].closed
    /\ chain[id].paused # paused
    /\ chain' = [chain EXCEPT ![id].paused = paused]

\* A cancellation before the start, or a refund after the deadline.
Close(id) ==
    /\ chain[id] # None /\ ~chain[id].closed
    /\ now < StartsAt \/ now > ClaimDeadline
    /\ chain' = [chain EXCEPT ![id].closed = TRUE]

SponsorMoves ==
    /\ \E id \in OnChainIds :
          \/ \E r \in 1 .. revision : Fund(id, r)
          \/ \E paused \in BOOLEAN : SetPaused(id, paused)
          \/ Close(id)
    /\ UNCHANGED <<now, review, funding, proofs, rewards, calls>>

\* readFinalizedCampaign, of what somebody has funded.
Read(id) ==
    [revision |-> chain[id].revision, running |-> ~chain[id].paused /\ ~chain[id].closed, at |-> now]

\* matchingState with freshState
Matching(seen, r) == now <= seen.at + MaxLag /\ seen.revision = r

-----------------------------------------------------------------------------
(* The owner.                                                               *)

RevisableAlways == TRUE

\* Funded review material is immutable.
Revisable == bound = None

\* revise, with the revision the owner has read.
Revise(r) ==
    /\ r = revision /\ Revisable
    /\ revision < MaxRevision
    /\ revision' = revision + 1
    /\ UNCHANGED <<now, approved, layouts, chain, funding, proofs, rewards, calls>>

Approve(r) ==
    /\ r = revision
    /\ approved' = approved \cup {r}
    /\ UNCHANGED <<now, revision, layouts, chain, funding, proofs, rewards, calls>>

ApproveLayout(r) ==
    /\ r = revision /\ r \in approved
    /\ layouts' = layouts \cup {r}
    /\ UNCHANGED <<now, revision, approved, chain, funding, proofs, rewards, calls>>

\* participantCampaign: funding that was linked to the approved revision.
Funded == bound # None /\ revision \in approved /\ bound.revision = revision

\* bindApprovedCampaign: the approved review, and funding of its terms on chain.
StartBind(k, r, id) ==
    /\ r = revision /\ r \in approved
    /\ chain[id] # None /\ Matching(Read(id), r)
    /\ Read(id).running
    /\ calls' = [calls EXCEPT ![k] = [op |-> "bind", id |-> id, revision |-> r, seen |-> Read(id)]]

StillApprovedOnce(r) == r \in approved

\* The owner may have revised it meanwhile.
StillApproved(r) == revision = r /\ r \in approved

\* bindApprovedCampaign's transaction, with the material that the owner expects, as the
\* API always gives it; an exact repetition finds the row.
CommitBind(k) ==
    LET call == calls[k]
    IN  /\ call # None /\ call.op = "bind"
        /\ StillApproved(call.revision) /\ call.revision \in layouts
        /\ now <= call.seen.at + MaxLag
        /\ bound # None => bound.id = call.id
        /\ bound' = IF bound = None THEN [revision |-> call.revision, id |-> call.id] ELSE bound
        /\ calls' = [calls EXCEPT ![k] = None]
        /\ UNCHANGED <<now, review, chain, publication, proofs, rewards>>

\* The material that the owner expects to publish.
Expected(r) == r = revision /\ r \in layouts

StartPublish(k, r) ==
    /\ Funded /\ Expected(r)
    /\ chain[bound.id] # None
    /\ calls' = [calls EXCEPT ![k] =
          [op |-> "publish", revision |-> r, seen |-> Read(bound.id)]]

Allocated == {u \in Users : allocations[u] # None}
SlotLeft == Cardinality(Allocated) < MaxClaims

\* publish's second transaction: one commitment for ever, published or withdrawn.
CommitPublish(k) ==
    LET call == calls[k]
    IN  /\ call # None /\ call.op = "publish"
        /\ Funded /\ Expected(call.revision)
        /\ Matching(call.seen, revision) /\ call.seen.running
        /\ now < EndsAt /\ SlotLeft
        /\ publication # None => publication.revision = call.revision
        /\ publication' = [revision |-> call.revision, withdrawn |-> FALSE]
        /\ calls' = [calls EXCEPT ![k] = None]
        /\ UNCHANGED <<now, review, chain, bound, proofs, rewards>>

Withdraw(r) ==
    /\ Expected(r)
    /\ publication # None
    /\ publication' = [publication EXCEPT !.withdrawn = TRUE]
    /\ UNCHANGED <<now, review, chain, bound, proofs, rewards, calls>>

-----------------------------------------------------------------------------
(* The participant.                                                         *)

\* persistGoogleEmailVerification
VerifyEmail(u) ==
    /\ verified' = verified \cup {u}
    /\ UNCHANGED <<now, review, chain, funding, completions, challenges, rewards, calls>>

\* assertPublished
Published(r) == publication # None /\ publication.revision = r /\ ~publication.withdrawn

StartComplete(k, u) ==
    /\ Funded /\ chain[bound.id] # None
    /\ calls' = [calls EXCEPT ![k] =
          [op |-> "complete", user |-> u, revision |-> revision, seen |-> Read(bound.id)]]

OpenToAll(r) == publication # None /\ publication.revision = r

\* Where new completions and allocations are made.
OpenToNew(r) == Published(r)

\* complete's second transaction, with the right answers; a repetition finds the row.
CommitComplete(k) ==
    LET call == calls[k]
    IN  /\ call # None /\ call.op = "complete"
        /\ Funded /\ Matching(call.seen, revision) /\ call.revision = revision
        /\ \/ <<call.user, revision>> \in completions
           \/ /\ OpenToNew(revision)
              /\ call.seen.running /\ StartsAt <= now /\ now < EndsAt
        /\ completions' = completions \cup {<<call.user, revision>>}
        /\ calls' = [calls EXCEPT ![k] = None]
        /\ UNCHANGED <<now, review, chain, funding, verified, challenges, rewards>>

CutoffForAll(u) == EndsAt

\* Whoever has an allocation may prove the wallet again until the claim deadline.
Cutoff(u) == IF allocations[u] # None THEN ClaimDeadline + 1 ELSE EndsAt

\* challenge's checks.
MayProve(u, w) ==
    /\ Funded /\ u \in verified /\ <<u, revision>> \in completions
    /\ allocations[u] # None => allocations[u].recipient = w
    /\ now < Cutoff(u)

Earlier(s, t) == IF s < t THEN s ELSE t

AskChallenge(h, u, w) ==
    /\ challenges[h] = None
    /\ MayProve(u, w)
    /\ challenges' = [challenges EXCEPT ![h] =
          [user |-> u, recipient |-> w, revision |-> revision,
           expires |-> Earlier(now + ProofWindow, Cutoff(u))]]
    /\ UNCHANGED <<now, review, chain, funding, verified, completions, rewards, calls>>

\* verify's load: a challenge of this revision that has not expired.
Loadable(h, r) ==
    /\ Funded /\ revision = r
    /\ challenges[h].user \in verified /\ <<challenges[h].user, r>> \in completions
    /\ challenges[h].revision = r
    /\ now < challenges[h].expires

\* issue, to the wallet check: the campaign, the chain and the challenge of this user.
StartIssue(k, h, s) ==
    /\ Funded /\ chain[bound.id] # None
    /\ Matching(Read(bound.id), revision) /\ Read(bound.id).running
    /\ StartsAt <= now /\ now <= ClaimDeadline
    /\ challenges[h] # None /\ Loadable(h, revision)
    /\ calls' = [calls EXCEPT ![k] = [op |-> "issue", challenge |-> h, signature |-> s,
                                      revision |-> revision, seen |-> Read(bound.id)]]

LoadOnce(h, r) == TRUE

\* verify loads again once the wallet check has answered.
LoadAgain(h, r) == Loadable(h, r)

SaveReceiptAnyhow(h, s) == receipts' = [receipts EXCEPT ![h] = [signature |-> s, at |-> now]]

\* ON CONFLICT (challenge_id) DO NOTHING
SaveReceipt(h, s) ==
    /\ receipts[h] # None => receipts[h].signature = s
    /\ receipts' = IF receipts[h] = None
                   THEN [receipts EXCEPT ![h] = [signature |-> s, at |-> now]] ELSE receipts

\* verify's second transaction: the challenge is used up, by one signature.
VerifyWallet(k) ==
    LET call == calls[k]
    IN  /\ call # None /\ call.op = "issue"
        /\ LoadAgain(call.challenge, call.revision)
        /\ SaveReceipt(call.challenge, call.signature)
        /\ calls' = [calls EXCEPT ![k].op = "reserve"]
        /\ UNCHANGED <<now, review, chain, funding, proofs, allocations>>

\* issue's reservation, as far as it concerns the user.
Reserve(k) ==
    LET call == calls[k]
        u == challenges[call.challenge].user
        w == challenges[call.challenge].recipient
    IN  /\ call # None /\ call.op = "reserve"
        /\ Funded /\ Matching(call.seen, revision)
        /\ call.seen.running /\ now <= ClaimDeadline
        /\ u \in verified
        /\ \/ allocations[u] # None /\ allocations[u].recipient = w
           \/ allocations[u] = None /\ OpenToNew(revision) /\ now < EndsAt /\ SlotLeft
        /\ allocations' =
              IF allocations[u] = None
              THEN [allocations EXCEPT ![u] = [recipient |-> w, receipt |-> call.challenge]]
              ELSE allocations
        /\ calls' = [calls EXCEPT ![k] = None]
        /\ UNCHANGED <<now, review, chain, funding, proofs, receipts>>

\* A check fails, a wait times out, the server dies, the response is lost.
EndCall(k) ==
    /\ calls[k] # None
    /\ calls' = [calls EXCEPT ![k] = None]
    /\ UNCHANGED <<now, review, chain, funding, proofs, rewards>>

TimePasses ==
    /\ now < MaxTime
    /\ now' = now + 1
    /\ UNCHANGED <<review, chain, funding, proofs, rewards, calls>>

-----------------------------------------------------------------------------
OwnerActs ==
    \E r \in Revisions : Revise(r) \/ Approve(r) \/ ApproveLayout(r) \/ Withdraw(r)

ParticipantActs ==
    \/ \E u \in Users : VerifyEmail(u)
    \/ \E h \in ChallengeIds, u \in Users, w \in Wallets : AskChallenge(h, u, w)

Start(k) ==
    /\ calls[k] = None
    /\ \/ \E r \in Revisions, id \in OnChainIds : StartBind(k, r, id)
       \/ \E r \in Revisions : StartPublish(k, r)
       \/ \E u \in Users : StartComplete(k, u)
       \/ \E h \in ChallengeIds, s \in Signatures : StartIssue(k, h, s)
    /\ UNCHANGED <<now, review, chain, funding, proofs, rewards>>

GoOn(k) ==
    \/ CommitBind(k) \/ CommitPublish(k) \/ CommitComplete(k)
    \/ VerifyWallet(k) \/ Reserve(k) \/ EndCall(k)

Next ==
    \/ SponsorMoves \/ OwnerActs \/ ParticipantActs \/ TimePasses
    \/ \E k \in Calls : Start(k) \/ GoOn(k)

Spec == Init /\ [][Next]_vars

-----------------------------------------------------------------------------
\* What is funded is what was approved, although linking is confirmed on chain between
\* two transactions: the linked revision is current, approved with its layout, and its
\* terms are the ones on chain; what is published is the linked revision.
FundedAsApproved ==
    /\ bound # None =>
          /\ bound.revision = revision /\ revision \in approved \cap layouts
          /\ chain[bound.id] # None /\ chain[bound.id].revision = revision
    /\ publication # None => bound # None /\ publication.revision = bound.revision

\* A challenge is used up before it expires, whatever time the wallet check takes.
ProofInTime ==
    \A h \in ChallengeIds : receipts[h] # None =>
        challenges[h] # None /\ receipts[h].at < challenges[h].expires

\* A reward is earned: its user completed the linked revision, and proved the wallet that
\* is rewarded.
RewardIsEarned ==
    \A u \in Allocated :
        LET h == allocations[u].receipt
        IN  /\ Funded /\ <<u, revision>> \in completions
            /\ receipts[h] # None /\ challenges[h].revision = revision
            /\ challenges[h].user = u /\ challenges[h].recipient = allocations[u].recipient

\* A reward can be recovered: until the claim deadline its user gets new challenges for
\* the same wallet, whether the lesson is withdrawn or its response was lost.
RewardIsRecoverable ==
    \A u \in Allocated : now <= ClaimDeadline => MayProve(u, allocations[u].recipient)

JourneySafe ==
    TypeOK /\ FundedAsApproved /\ ProofInTime /\ RewardIsEarned /\ RewardIsRecoverable

\* What others have relied on stays as it is, however calls overlap: the linked funding and
\* its revision, the published commitment, who used a challenge up, and each allocation;
\* and while the lesson is not published, nobody newly completes it or gets an allocation.
JourneyKept ==
    [][/\ bound # None => bound' = bound /\ revision' = revision
       /\ publication # None =>
             publication' # None /\ publication'.revision = publication.revision
       /\ \A h \in ChallengeIds : receipts[h] # None => receipts'[h] = receipts[h]
       /\ \A u \in Allocated : allocations'[u] = allocations[u]
       /\ ~Published(revision) => completions' = completions /\ allocations' = allocations]_vars
===============================================================================
