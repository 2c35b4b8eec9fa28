------------------------- MODULE LessonJourneyProofs -------------------------
(***************************************************************************)
(* Theorems about LessonJourney for every value of its constants.            *)
(***************************************************************************)
EXTENDS LessonJourney, TLAPS

\* A challenge that was used up, by a user who still fulfils what verify asks for.
Proved(h) ==
    /\ receipts[h] # None /\ challenges[h].revision = revision
    /\ challenges[h].user \in verified /\ <<challenges[h].user, revision>> \in completions

\* What the calls that wait rely on, and what keeps JourneySafe: funding that is being
\* linked has the terms of the call's revision, and whoever is about to be rewarded has
\* proved the wallet for the linked revision.
Agrees(call) ==
    /\ call.op = "bind" =>
          chain[call.id] # None /\ chain[call.id].revision = call.revision
    /\ call.op \in {"issue", "reserve"} => challenges[call.challenge] # None
    /\ call.op = "reserve" => bound # None /\ Proved(call.challenge)

CallsAgree == \A k \in Calls : calls[k] # None => Agrees(calls[k])

RewardedIsVerified == \A u \in Allocated : u \in verified

\* The inductive invariant.
JourneyInv == JourneySafe /\ CallsAgree /\ RewardedIsVerified

\* What no step takes back: terms on chain, linked funding and its revision, approvals,
\* challenges, receipts, allocations, and what a participant has done.
Stable ==
    /\ \A id \in OnChainIds : chain[id] # None =>
          chain'[id] # None /\ chain'[id].revision = chain[id].revision
    /\ bound # None => bound' = bound /\ revision' = revision
    /\ approved \subseteq approved' /\ layouts \subseteq layouts'
    /\ verified \subseteq verified' /\ completions \subseteq completions'
    /\ \A h \in ChallengeIds :
          /\ challenges[h] # None => challenges'[h] = challenges[h]
          /\ receipts[h] # None => receipts'[h] = receipts[h]
    /\ \A u \in Allocated : allocations'[u] = allocations[u]

-----------------------------------------------------------------------------
(* Type correctness.                                                        *)

\* A chain read is well formed.
LEMMA ReadType ==
  ASSUME TypeOK, NEW id \in OnChainIds, chain[id] # None
  PROVE  Read(id) \in Seen
<1>1. chain[id] \in Campaign /\ now \in Nat
  BY DEF TypeOK
<1> QED
  BY <1>1 DEF Read, Campaign, Seen

\* The records of calls by their operation.
LEMMA CallShape ==
  ASSUME NEW call \in Call
  PROVE  /\ call.op \in {"bind", "publish", "complete", "issue", "reserve"}
         /\ call.revision \in Revisions /\ call.seen \in Seen
         /\ call.op = "bind" => call.id \in OnChainIds
         /\ call.op = "complete" => call.user \in Users
         /\ call.op \in {"issue", "reserve"} =>
               /\ call.challenge \in ChallengeIds /\ call.signature \in Signatures
               /\ [call EXCEPT !.op = "reserve"] \in Call
BY DEF Call

LEMMA StartType ==
  ASSUME TypeOK, NEW k \in Calls, Start(k)
  PROVE  TypeOK'
<1>1. Revisions \subseteq Nat /\ revision \in Revisions
  BY DEF TypeOK, Revisions
<1>2. \E call \in Call : calls' = [calls EXCEPT ![k] = call]
  <2>1. CASE \E r \in Revisions, id \in OnChainIds : StartBind(k, r, id)
    <3>1. PICK r \in Revisions, id \in OnChainIds : StartBind(k, r, id)
      BY <2>1
    <3>2. Read(id) \in Seen
      BY <3>1, ReadType DEF StartBind
    <3> QED
      BY <3>1, <3>2 DEF StartBind, Call
  <2>2. CASE \E r \in Revisions : StartPublish(k, r)
    <3>1. PICK r \in Revisions : StartPublish(k, r)
      BY <2>2
    <3>2. bound.id \in OnChainIds
      BY <3>1 DEF StartPublish, Funded, TypeOK, Binding
    <3>3. Read(bound.id) \in Seen
      BY <3>1, <3>2, ReadType DEF StartPublish
    <3> QED
      BY <3>1, <3>3 DEF StartPublish, Call
  <2>3. CASE \E u \in Users : StartComplete(k, u)
    <3>1. PICK u \in Users : StartComplete(k, u)
      BY <2>3
    <3>2. bound.id \in OnChainIds
      BY <3>1 DEF StartComplete, Funded, TypeOK, Binding
    <3>3. Read(bound.id) \in Seen
      BY <3>1, <3>2, ReadType DEF StartComplete
    <3> QED
      BY <1>1, <3>1, <3>3 DEF StartComplete, Call
  <2>4. CASE \E h \in ChallengeIds, s \in Signatures : StartIssue(k, h, s)
    <3>1. PICK h \in ChallengeIds, s \in Signatures : StartIssue(k, h, s)
      BY <2>4
    <3>2. bound.id \in OnChainIds
      BY <3>1 DEF StartIssue, Funded, TypeOK, Binding
    <3>3. Read(bound.id) \in Seen
      BY <3>1, <3>2, ReadType DEF StartIssue
    <3> QED
      BY <1>1, <3>1, <3>3 DEF StartIssue, Call
  <2> QED
    BY <2>1, <2>2, <2>3, <2>4 DEF Start
<1>3. calls' \in [Calls -> Call \cup {None}]
  BY <1>2 DEF TypeOK
<1> QED
  BY <1>3 DEF TypeOK, Start, review, funding, proofs, rewards

LEMMA SponsorType ==
  ASSUME TypeOK, SponsorMoves
  PROVE  TypeOK'
<1>1. 1 .. revision \subseteq Revisions
  BY JourneyAssumption DEF TypeOK, Revisions
<1>2. PICK id \in OnChainIds :
          \/ \E r \in 1 .. revision : Fund(id, r)
          \/ \E paused \in BOOLEAN : SetPaused(id, paused)
          \/ Close(id)
  BY DEF SponsorMoves
<1>3. chain' \in [OnChainIds -> Campaign \cup {None}]
  <2>1. CASE \E r \in 1 .. revision : Fund(id, r)
    BY <1>1, <2>1 DEF Fund, TypeOK, Campaign
  <2>2. CASE \E paused \in BOOLEAN : SetPaused(id, paused)
    <3>1. PICK paused \in BOOLEAN : SetPaused(id, paused)
      BY <2>2
    <3>2. chain[id] \in Campaign
      BY <3>1 DEF SetPaused, TypeOK
    <3>3. [chain[id] EXCEPT !.paused = paused] \in Campaign
      BY <3>2 DEF Campaign
    <3> QED
      BY <3>1, <3>3 DEF SetPaused, TypeOK
  <2>3. CASE Close(id)
    <3>1. chain[id] \in Campaign
      BY <2>3 DEF Close, TypeOK
    <3>2. [chain[id] EXCEPT !.closed = TRUE] \in Campaign
      BY <3>1 DEF Campaign
    <3> QED
      BY <2>3, <3>2 DEF Close, TypeOK
  <2> QED
    BY <1>2, <2>1, <2>2, <2>3
<1> QED
  BY <1>3 DEF TypeOK, SponsorMoves, review, funding, proofs, rewards

LEMMA OwnerType ==
  ASSUME TypeOK, OwnerActs
  PROVE  TypeOK'
<1>1. PICK r \in Revisions : Revise(r) \/ Approve(r) \/ ApproveLayout(r) \/ Withdraw(r)
  BY DEF OwnerActs
<1>2. CASE Revise(r)
  <2>1. revision' \in Revisions
    BY <1>2, JourneyAssumption DEF Revise, TypeOK, Revisions
  <2> QED
    BY <1>2, <2>1 DEF Revise, TypeOK, funding, proofs, rewards
<1>3. CASE Approve(r) \/ ApproveLayout(r)
  BY <1>3 DEF Approve, ApproveLayout, TypeOK, funding, proofs, rewards
<1>4. CASE Withdraw(r)
  <2>1. publication \in Publication
    BY <1>4 DEF Withdraw, TypeOK
  <2>2. publication' \in Publication
    BY <1>4, <2>1 DEF Withdraw, Publication
  <2> QED
    BY <1>4, <2>2 DEF Withdraw, TypeOK, review, proofs, rewards
<1> QED
  BY <1>1, <1>2, <1>3, <1>4

LEMMA ParticipantType ==
  ASSUME TypeOK, ParticipantActs
  PROVE  TypeOK'
<1>1. CASE \E u \in Users : VerifyEmail(u)
  BY <1>1 DEF VerifyEmail, TypeOK, review, funding, rewards
<1>2. CASE \E h \in ChallengeIds, u \in Users, w \in Wallets : AskChallenge(h, u, w)
  <2>1. PICK h \in ChallengeIds, u \in Users, w \in Wallets : AskChallenge(h, u, w)
    BY <1>2
  <2>2. Earlier(now + ProofWindow, Cutoff(u)) \in Nat
    BY JourneyAssumption DEF TypeOK, Earlier, Cutoff
  <2>3. challenges' \in [ChallengeIds -> Challenge \cup {None}]
    BY <2>1, <2>2 DEF AskChallenge, TypeOK, Challenge
  <2> QED
    BY <2>1, <2>3 DEF AskChallenge, TypeOK, review, funding, rewards
<1> QED
  BY <1>1, <1>2 DEF ParticipantActs

\* A step of a call that waits; issue's second step needs the challenge it was started with.
LEMMA GoOnType ==
  ASSUME TypeOK, CallsAgree, NEW k \in Calls, GoOn(k)
  PROVE  TypeOK'
<1> USE DEF review, funding, proofs, rewards
<1>1. CASE CommitBind(k)
  <2>1. calls[k] \in Call /\ calls[k].op = "bind"
    BY <1>1 DEF CommitBind, TypeOK
  <2>2. bound' \in Binding \cup {None}
    BY <1>1, <2>1, CallShape DEF CommitBind, TypeOK, Binding
  <2> QED
    BY <1>1, <2>2 DEF CommitBind, TypeOK
<1>2. CASE CommitPublish(k)
  <2>1. calls[k] \in Call
    BY <1>2 DEF CommitPublish, TypeOK
  <2>2. publication' \in Publication
    BY <1>2, <2>1, CallShape DEF CommitPublish, Publication
  <2> QED
    BY <1>2, <2>2 DEF CommitPublish, TypeOK
<1>3. CASE CommitComplete(k)
  <2>1. calls[k] \in Call /\ calls[k].op = "complete"
    BY <1>3 DEF CommitComplete, TypeOK
  <2>2. completions' \subseteq Users \X Revisions
    <3>1. <<calls[k].user, revision>> \in Users \X Revisions
      BY <2>1, CallShape DEF TypeOK
    <3> QED
      BY <1>3, <3>1 DEF CommitComplete, TypeOK
  <2> QED
    BY <1>3, <2>2 DEF CommitComplete, TypeOK
<1>4. CASE VerifyWallet(k)
  <2>1. calls[k] \in Call /\ calls[k].op = "issue"
    BY <1>4 DEF VerifyWallet, TypeOK
  <2>2. /\ calls[k].challenge \in ChallengeIds /\ calls[k].signature \in Signatures
        /\ [calls[k] EXCEPT !.op = "reserve"] \in Call
    BY <2>1, CallShape
  <2>3. receipts' \in [ChallengeIds -> Receipt \cup {None}]
    BY <1>4, <2>2 DEF VerifyWallet, SaveReceipt, TypeOK, Receipt
  <2>4. calls' \in [Calls -> Call \cup {None}]
    BY <1>4, <2>2 DEF VerifyWallet, TypeOK
  <2> QED
    BY <1>4, <2>3, <2>4 DEF VerifyWallet, TypeOK
<1>5. CASE Reserve(k)
  <2> DEFINE h == calls[k].challenge
  <2>1. calls[k] \in Call /\ calls[k].op = "reserve"
    BY <1>5 DEF Reserve, TypeOK
  <2>2. h \in ChallengeIds /\ challenges[h] # None
    BY <1>5, <2>1, CallShape DEF CallsAgree, Agrees, Reserve
  <2>3. challenges[h] \in Challenge
    BY <2>2 DEF TypeOK
  <2>4. challenges[h].user \in Users /\ challenges[h].recipient \in Wallets
    BY <2>3 DEF Challenge
  <2>5. allocations' \in [Users -> Allocation \cup {None}]
    BY <1>5, <2>2, <2>4 DEF Reserve, TypeOK, Allocation
  <2> QED
    BY <1>5, <2>5 DEF Reserve, TypeOK
<1>6. CASE EndCall(k)
  BY <1>6 DEF EndCall, TypeOK
<1> QED
  BY <1>1, <1>2, <1>3, <1>4, <1>5, <1>6 DEF GoOn

-----------------------------------------------------------------------------
(* No step takes back what others rely on.                                  *)

LEMMA SponsorStable ==
  ASSUME TypeOK, SponsorMoves
  PROVE  Stable
<1>1. PICK id \in OnChainIds :
          \/ \E r \in 1 .. revision : Fund(id, r)
          \/ \E paused \in BOOLEAN : SetPaused(id, paused)
          \/ Close(id)
  BY DEF SponsorMoves
<1>2. ASSUME chain[id] # None
      PROVE  \E c \in Campaign : chain' = [chain EXCEPT ![id] = c] /\ c.revision = chain[id].revision
  <2>1. chain[id] \in Campaign
    BY <1>2 DEF TypeOK
  <2>2. CASE \E paused \in BOOLEAN : SetPaused(id, paused)
    <3>1. PICK paused \in BOOLEAN : SetPaused(id, paused)
      BY <2>2
    <3>2. [chain[id] EXCEPT !.paused = paused] \in Campaign
      BY <2>1 DEF Campaign
    <3>3. [chain[id] EXCEPT !.paused = paused].revision = chain[id].revision
      BY <2>1 DEF Campaign
    <3> QED
      BY <3>1, <3>2, <3>3 DEF SetPaused
  <2>3. CASE Close(id)
    <3>1. [chain[id] EXCEPT !.closed = TRUE] \in Campaign
      BY <2>1 DEF Campaign
    <3>2. [chain[id] EXCEPT !.closed = TRUE].revision = chain[id].revision
      BY <2>1 DEF Campaign
    <3> QED
      BY <2>3, <3>1, <3>2 DEF Close
  <2> QED
    BY <1>1, <1>2, <2>2, <2>3 DEF Fund
<1>3. ASSUME NEW i \in OnChainIds, chain[i] # None
      PROVE  chain'[i] # None /\ chain'[i].revision = chain[i].revision
  <2>1. CASE i = id
    <3>1. PICK c \in Campaign : chain' = [chain EXCEPT ![id] = c] /\ c.revision = chain[id].revision
      BY <1>2, <1>3, <2>1
    <3> QED
      BY <2>1, <3>1, NoneAssumption DEF TypeOK
  <2>2. CASE i # id
    <3>1. chain'[i] = chain[i]
      BY <1>1, <2>2 DEF Fund, SetPaused, Close, TypeOK
    <3> QED
      BY <1>3, <3>1
  <2> QED
    BY <2>1, <2>2
<1> QED
  BY <1>3 DEF SponsorMoves, Stable, Allocated, review, funding, proofs, rewards

LEMMA OwnerStable ==
  ASSUME TypeOK, OwnerActs
  PROVE  Stable
BY DEF OwnerActs, Revise, Revisable, Approve, ApproveLayout, Withdraw, Stable, Allocated,
       review, funding, proofs, rewards

LEMMA ParticipantStable ==
  ASSUME TypeOK, ParticipantActs
  PROVE  Stable
<1>1. CASE \E u \in Users : VerifyEmail(u)
  BY <1>1 DEF VerifyEmail, Stable, Allocated, review, funding, rewards
<1>2. CASE \E h \in ChallengeIds, u \in Users, w \in Wallets : AskChallenge(h, u, w)
  <2>1. PICK h \in ChallengeIds, u \in Users, w \in Wallets : AskChallenge(h, u, w)
    BY <1>2
  <2>2. \A x \in ChallengeIds : challenges[x] # None => challenges'[x] = challenges[x]
    BY <2>1 DEF AskChallenge, TypeOK
  <2> QED
    BY <2>1, <2>2 DEF AskChallenge, Stable, Allocated, review, funding, rewards
<1> QED
  BY <1>1, <1>2 DEF ParticipantActs

LEMMA GoOnStable ==
  ASSUME TypeOK, CallsAgree, NEW k \in Calls, GoOn(k)
  PROVE  Stable
<1> USE DEF review, funding, proofs, rewards, Allocated
<1>1. CASE CommitBind(k)
  BY <1>1 DEF CommitBind, Stable
<1>2. CASE CommitPublish(k)
  BY <1>2 DEF CommitPublish, Stable
<1>3. CASE CommitComplete(k)
  BY <1>3 DEF CommitComplete, Stable
<1>4. CASE VerifyWallet(k)
  <2>1. \A h \in ChallengeIds : receipts[h] # None => receipts'[h] = receipts[h]
    BY <1>4 DEF VerifyWallet, SaveReceipt, TypeOK
  <2> QED
    BY <1>4, <2>1 DEF VerifyWallet, Stable
<1>5. CASE Reserve(k)
  <2>1. \A u \in Users : allocations[u] # None => allocations'[u] = allocations[u]
    BY <1>5 DEF Reserve, TypeOK
  <2> QED
    BY <1>5, <2>1 DEF Reserve, Stable
<1>6. CASE EndCall(k)
  BY <1>6 DEF EndCall, Stable
<1> QED
  BY <1>1, <1>2, <1>3, <1>4, <1>5, <1>6 DEF GoOn

LEMMA StepStable ==
  ASSUME TypeOK, CallsAgree, [Next]_vars
  PROVE  Stable
<1>1. CASE \E k \in Calls : Start(k)
  BY <1>1 DEF Start, Stable, Allocated, review, funding, proofs, rewards
<1>2. CASE TimePasses
  BY <1>2 DEF TimePasses, Stable, Allocated, review, funding, proofs, rewards
<1>3. CASE UNCHANGED vars
  BY <1>3 DEF vars, Stable, Allocated, review, funding, proofs, rewards
<1> QED
  BY <1>1, <1>2, <1>3, SponsorStable, OwnerStable, ParticipantStable, GoOnStable DEF Next

LEMMA StepType ==
  ASSUME TypeOK, CallsAgree, [Next]_vars
  PROVE  TypeOK'
<1>1. CASE TimePasses
  BY <1>1 DEF TimePasses, TypeOK, review, funding, proofs, rewards
<1>2. CASE UNCHANGED vars
  BY <1>2 DEF vars, TypeOK, review, funding, proofs, rewards
<1> QED
  BY <1>1, <1>2, StartType, SponsorType, OwnerType, ParticipantType, GoOnType DEF Next

-----------------------------------------------------------------------------
(* The inductive invariant.                                                 *)

\* What a call relies on is still there after any step.
LEMMA AgreesStays ==
  ASSUME TypeOK, Stable, NEW call \in Call, Agrees(call)
  PROVE  Agrees(call)'
<1>1. call.op = "bind" => chain'[call.id] # None /\ chain'[call.id].revision = call.revision
  BY CallShape DEF Agrees, Stable
<1>2. ASSUME call.op \in {"issue", "reserve"}
      PROVE  /\ call.challenge \in ChallengeIds
             /\ challenges[call.challenge] # None
             /\ challenges'[call.challenge] = challenges[call.challenge]
  BY <1>2, CallShape DEF Agrees, Stable
<1>3. ASSUME call.op = "reserve" PROVE bound' # None /\ Proved(call.challenge)'
  <2>1. bound # None /\ Proved(call.challenge)
    BY <1>3 DEF Agrees
  <2>2. bound' = bound /\ revision' = revision
    BY <2>1 DEF Stable
  <2>3. receipts'[call.challenge] = receipts[call.challenge]
    BY <1>2, <1>3, <2>1 DEF Proved, Stable
  <2> QED
    BY <1>2, <1>3, <2>1, <2>2, <2>3 DEF Proved, Stable
<1> QED
  BY <1>1, <1>2, <1>3 DEF Agrees

\* So it is for a call that the step leaves alone.
LEMMA OthersAgree ==
  ASSUME TypeOK, CallsAgree, Stable, NEW j \in Calls, calls'[j] = calls[j], calls[j] # None
  PROVE  Agrees(calls[j])'
<1>1. PICK call \in Call : call = calls[j]
  BY DEF TypeOK
<1>2. Agrees(call)'
  BY <1>1, AgreesStays DEF CallsAgree
<1> QED
  BY <1>1, <1>2 DEF Agrees, Proved

\* What a new call relies on was checked when it started.
LEMMA StartAgrees ==
  ASSUME TypeOK, CallsAgree, Stable, NEW k \in Calls, Start(k)
  PROVE  CallsAgree'
<1>1. ASSUME NEW j \in Calls, j # k, calls'[j] # None PROVE Agrees(calls[j])'
  <2>1. calls'[j] = calls[j]
    BY <1>1 DEF Start, StartBind, StartPublish, StartComplete, StartIssue, TypeOK
  <2> QED
    BY <1>1, <2>1, OthersAgree
<1>2. Agrees(calls[k])'
  <2>1. chain' = chain /\ challenges' = challenges
    BY DEF Start, proofs
  <2>2. CASE \E r \in Revisions, id \in OnChainIds : StartBind(k, r, id)
    BY <2>1, <2>2 DEF StartBind, Matching, Read, Agrees, TypeOK
  <2>3. CASE \E r \in Revisions : StartPublish(k, r)
    BY <2>3 DEF StartPublish, Agrees, TypeOK
  <2>4. CASE \E u \in Users : StartComplete(k, u)
    BY <2>4 DEF StartComplete, Agrees, TypeOK
  <2>5. CASE \E h \in ChallengeIds, s \in Signatures : StartIssue(k, h, s)
    BY <2>1, <2>5 DEF StartIssue, Agrees, TypeOK
  <2> QED
    BY <2>2, <2>3, <2>4, <2>5 DEF Start
<1> QED
  BY <1>1, <1>2 DEF CallsAgree

\* The second step of issue leaves the challenge used up, and all it loaded as it was.
LEMMA VerifyAgrees ==
  ASSUME TypeOK, CallsAgree, Stable, NEW k \in Calls, VerifyWallet(k)
  PROVE  CallsAgree'
<1>1. calls[k] \in Call /\ calls[k] # None /\ calls[k].op = "issue"
  BY DEF VerifyWallet, TypeOK
<1>2. PICK h \in ChallengeIds : h = calls[k].challenge /\ challenges[h] # None
  BY <1>1, CallShape DEF CallsAgree, Agrees
<1>3. bound' # None /\ challenges'[h] # None /\ Proved(h)'
  <2>1. receipts'[h] # None
    <3>1. CASE receipts[h] # None
      BY <1>2, <3>1 DEF Stable
    <3>2. CASE receipts[h] = None
      <4>1. receipts'[h] = [signature |-> calls[k].signature, at |-> now]
        BY <1>2, <3>2 DEF VerifyWallet, SaveReceipt, TypeOK
      <4>2. receipts'[h] \in Receipt
        <5>1. calls[k].signature \in Signatures
          BY <1>1, CallShape
        <5>2. now \in Nat
          BY DEF TypeOK
        <5> QED
          BY <4>1, <5>1, <5>2 DEF Receipt
      <4> QED
        BY <4>2, NoneAssumption
    <3> QED
      BY <3>1, <3>2
  <2>2. UNCHANGED <<bound, revision, challenges, verified, completions>>
    BY DEF VerifyWallet, review, proofs, funding
  <2>3. Loadable(h, calls[k].revision)
    BY <1>2 DEF VerifyWallet, LoadAgain
  <2> QED
    BY <1>2, <2>1, <2>2, <2>3 DEF Loadable, Funded, Proved
<1>4. calls'[k].op = "reserve" /\ calls'[k].challenge = h
  BY <1>1, <1>2 DEF VerifyWallet, TypeOK, Call
<1>5. Agrees(calls[k])'
  BY <1>3, <1>4 DEF Agrees, Proved
<1>6. ASSUME NEW j \in Calls, j # k, calls'[j] # None PROVE Agrees(calls[j])'
  <2>1. calls'[j] = calls[j]
    BY <1>6 DEF VerifyWallet, TypeOK
  <2> QED
    BY <1>6, <2>1, OthersAgree
<1> QED
  BY <1>5, <1>6 DEF CallsAgree

LEMMA StepAgrees ==
  ASSUME TypeOK, CallsAgree, Stable, [Next]_vars
  PROVE  CallsAgree'
<1>1. CASE \E k \in Calls : Start(k)
  BY <1>1, StartAgrees
<1>2. CASE \E k \in Calls : VerifyWallet(k)
  BY <1>2, VerifyAgrees
<1>3. CASE \E k \in Calls : calls' = [calls EXCEPT ![k] = None]
  <2>1. ASSUME NEW j \in Calls, calls'[j] # None PROVE calls'[j] = calls[j]
    BY <1>3, <2>1 DEF TypeOK
  <2> QED
    BY <2>1, OthersAgree DEF CallsAgree
<1>4. CASE calls' = calls
  BY <1>4, OthersAgree DEF CallsAgree
<1>5. \/ \E k \in Calls : Start(k) \/ VerifyWallet(k) \/ calls' = [calls EXCEPT ![k] = None]
      \/ calls' = calls
  BY DEF Next, GoOn, CommitBind, CommitPublish, CommitComplete, Reserve, EndCall, SponsorMoves,
         OwnerActs, Revise, Approve, ApproveLayout, Withdraw, ParticipantActs, VerifyEmail,
         AskChallenge, TimePasses, vars
<1> QED
  BY <1>1, <1>2, <1>3, <1>4, <1>5

\* The funding that is linked, and then published, is that of the approved revision.
LEMMA StepFunded ==
  ASSUME TypeOK, CallsAgree, Stable, FundedAsApproved, [Next]_vars
  PROVE  FundedAsApproved'
<1>1. CASE \E k \in Calls : CommitBind(k)
  <2>1. PICK k \in Calls : CommitBind(k)
    BY <1>1
  <2>2. calls[k] \in Call /\ calls[k].op = "bind" /\ calls[k] # None
    BY <2>1 DEF CommitBind, TypeOK
  <2>3. chain[calls[k].id] # None /\ chain[calls[k].id].revision = calls[k].revision
    BY <2>2 DEF CallsAgree, Agrees
  <2>4. CASE bound = None
    <3>1. bound' = [revision |-> calls[k].revision, id |-> calls[k].id]
      BY <2>1, <2>4 DEF CommitBind
    <3>2. UNCHANGED <<revision, approved, layouts, chain, publication>>
      BY <2>1 DEF CommitBind, review
    <3> QED
      BY <2>1, <2>3, <2>4, <3>1, <3>2 DEF CommitBind, StillApproved, FundedAsApproved
  <2>5. CASE bound # None
    BY <2>1, <2>5 DEF CommitBind, FundedAsApproved, review
  <2> QED
    BY <2>4, <2>5
<1>2. CASE \E k \in Calls : CommitPublish(k)
  BY <1>2 DEF CommitPublish, Funded, Expected, FundedAsApproved, review
<1>3. CASE \E r \in Revisions : Withdraw(r)
  <2>1. publication \in Publication
    BY <1>3 DEF Withdraw, TypeOK
  <2>2. publication'.revision = publication.revision
    BY <1>3, <2>1 DEF Withdraw, Publication
  <2> QED
    BY <1>3, <2>2 DEF Withdraw, FundedAsApproved, review
<1>4. CASE bound' = bound /\ publication' = publication
  <2>1. ASSUME bound # None
        PROVE  /\ bound.revision = revision' /\ revision' \in approved' \cap layouts'
               /\ chain'[bound.id] # None /\ chain'[bound.id].revision = revision'
    <3>1. bound.id \in OnChainIds
      BY <2>1 DEF TypeOK, Binding
    <3> QED
      BY <2>1, <3>1 DEF FundedAsApproved, Stable
  <2> QED
    BY <1>4, <2>1 DEF FundedAsApproved
<1>5. \/ \E k \in Calls : CommitBind(k) \/ CommitPublish(k)
      \/ \E r \in Revisions : Withdraw(r)
      \/ bound' = bound /\ publication' = publication
  BY DEF Next, Start, GoOn, CommitComplete, VerifyWallet, Reserve, EndCall, SponsorMoves,
         OwnerActs, Revise, Approve, ApproveLayout, ParticipantActs, VerifyEmail,
         AskChallenge, TimePasses, funding, vars
<1> QED
  BY <1>1, <1>2, <1>3, <1>4, <1>5

\* A receipt is made while its challenge is valid.
LEMMA StepInTime ==
  ASSUME TypeOK, CallsAgree, Stable, ProofInTime, [Next]_vars
  PROVE  ProofInTime'
<1>1. CASE \E k \in Calls : VerifyWallet(k)
  <2>1. PICK k \in Calls : VerifyWallet(k)
    BY <1>1
  <2>2. calls[k] \in Call /\ calls[k] # None /\ calls[k].op = "issue"
    BY <2>1 DEF VerifyWallet, TypeOK
  <2>3. PICK h \in ChallengeIds : h = calls[k].challenge /\ challenges[h] # None
    BY <2>2, CallShape DEF CallsAgree, Agrees
  <2>4. now < challenges[h].expires
    BY <2>1, <2>3 DEF VerifyWallet, LoadAgain, Loadable
  <2>5. receipts' = receipts
           \/ receipts' = [receipts EXCEPT ![h] = [signature |-> calls[k].signature, at |-> now]]
    BY <2>1, <2>3 DEF VerifyWallet, SaveReceipt
  <2>6. challenges' = challenges
    BY <2>1 DEF VerifyWallet, proofs
  <2> QED
    BY <2>3, <2>4, <2>5, <2>6 DEF ProofInTime, TypeOK
<1>2. CASE receipts' = receipts
  BY <1>2 DEF ProofInTime, Stable
<1>3. (\E k \in Calls : VerifyWallet(k)) \/ receipts' = receipts
  BY DEF Next, Start, GoOn, CommitBind, CommitPublish, CommitComplete, Reserve, EndCall,
         SponsorMoves, OwnerActs, Revise, Approve, ApproveLayout, Withdraw, ParticipantActs,
         VerifyEmail, AskChallenge, TimePasses, rewards, vars
<1> QED
  BY <1>1, <1>2, <1>3

\* What RewardIsEarned says of one user.
Earned(u) ==
    /\ u \in verified
    /\ LET h == allocations[u].receipt
       IN  /\ Funded /\ <<u, revision>> \in completions
           /\ receipts[h] # None /\ challenges[h].revision = revision
           /\ challenges[h].user = u /\ challenges[h].recipient = allocations[u].recipient

\* A reward stays earned, because nothing it rests on is taken back.
LEMMA EarnedStays ==
  ASSUME TypeOK, ProofInTime, Stable, NEW u \in Users, u \in Allocated, Earned(u)
  PROVE  Earned(u)'
<1>1. allocations'[u] = allocations[u] /\ allocations[u] \in Allocation
  BY DEF Stable, Allocated, TypeOK
<1>2. PICK h \in ChallengeIds : h = allocations[u].receipt
  BY <1>1 DEF Allocation
<1>3. receipts'[h] # None /\ challenges'[h] = challenges[h]
  BY <1>2 DEF Earned, ProofInTime, Stable
<1>4. revision' = revision /\ Funded'
  BY DEF Earned, Funded, Stable
<1>5. u \in verified' /\ <<u, revision>> \in completions'
  BY DEF Earned, Stable
<1> QED
  BY <1>1, <1>2, <1>3, <1>4, <1>5 DEF Earned

\* Who gets an allocation has just proved the wallet.
LEMMA StepEarned ==
  ASSUME TypeOK, CallsAgree, ProofInTime, Stable, [Next]_vars,
         \A u \in Allocated : Earned(u)
  PROVE  \A u \in Allocated' : Earned(u)'
<1>1. CASE \E k \in Calls : Reserve(k)
  <2>1. PICK k \in Calls : Reserve(k)
    BY <1>1
  <2>2. calls[k] \in Call /\ calls[k] # None /\ calls[k].op = "reserve"
    BY <2>1 DEF Reserve, TypeOK
  <2>3. PICK h \in ChallengeIds : h = calls[k].challenge /\ challenges[h] # None
    BY <2>2, CallShape DEF CallsAgree, Agrees
  <2>4. Proved(h) /\ Funded
    BY <2>1, <2>2, <2>3 DEF CallsAgree, Agrees, Reserve
  <2>5. UNCHANGED <<revision, approved, bound, verified, completions, challenges, receipts>>
    BY <2>1 DEF Reserve, review, funding, proofs
  <2>6. PICK owner \in Users : owner = challenges[h].user
    BY <2>3 DEF TypeOK, Challenge
  <2>7. ASSUME NEW u \in Allocated', u \notin Allocated PROVE Earned(u)'
    <3>1. u = owner /\ allocations'[u] = [recipient |-> challenges[h].recipient, receipt |-> h]
      BY <2>1, <2>3, <2>6, <2>7 DEF Reserve, Allocated, TypeOK
    <3> QED
      BY <2>4, <2>5, <2>6, <3>1 DEF Earned, Proved, Funded
  <2>8. ASSUME NEW u \in Allocated' PROVE u \in Users
    BY DEF Allocated
  <2> QED
    BY <2>7, <2>8, EarnedStays DEF Allocated
<1>2. CASE allocations' = allocations
  BY <1>2, EarnedStays DEF Allocated
<1>3. (\E k \in Calls : Reserve(k)) \/ allocations' = allocations
  BY DEF Next, Start, GoOn, CommitBind, CommitPublish, CommitComplete, VerifyWallet, EndCall,
         SponsorMoves, OwnerActs, Revise, Approve, ApproveLayout, Withdraw, ParticipantActs,
         VerifyEmail, AskChallenge, TimePasses, rewards, vars
<1> QED
  BY <1>1, <1>2, <1>3

\* Whoever has earned a reward is given new challenges until the claim deadline.
LEMMA EarnedRecovers ==
  TypeOK /\ RewardIsEarned /\ RewardedIsVerified => RewardIsRecoverable
BY JourneyAssumption DEF RewardIsEarned, RewardedIsVerified, RewardIsRecoverable, MayProve,
   Cutoff, Allocated, TypeOK

-----------------------------------------------------------------------------
(* The theorems.                                                            *)

LEMMA InitInv == Init => JourneyInv
BY JourneyAssumption, NoneAssumption
   DEF Init, JourneyInv, JourneySafe, TypeOK, FundedAsApproved, ProofInTime, RewardIsEarned,
       RewardIsRecoverable, CallsAgree, RewardedIsVerified, Allocated, Revisions

LEMMA StepInv == JourneyInv /\ [Next]_vars => JourneyInv' /\ Stable
<1> SUFFICES ASSUME JourneyInv, [Next]_vars
             PROVE  JourneyInv' /\ Stable
  OBVIOUS
<1> USE DEF JourneyInv, JourneySafe
<1>1. TypeOK /\ CallsAgree /\ FundedAsApproved /\ ProofInTime
  OBVIOUS
<1>2. \A u \in Allocated : Earned(u)
  BY DEF RewardIsEarned, RewardedIsVerified, Earned
<1>3. Stable
  BY <1>1, StepStable
<1>4. TypeOK' /\ CallsAgree' /\ FundedAsApproved' /\ ProofInTime'
  BY <1>1, <1>3, StepType, StepAgrees, StepFunded, StepInTime
<1>5. RewardIsEarned' /\ RewardedIsVerified'
  <2>1. \A u \in Allocated' : Earned(u)'
    BY <1>1, <1>2, <1>3, StepEarned
  <2> QED
    BY <2>1 DEF RewardIsEarned, RewardedIsVerified, Earned
<1>6. RewardIsRecoverable'
  BY <1>4, <1>5, EarnedRecovers, PTL
<1> QED
  BY <1>3, <1>4, <1>5, <1>6

\* The lesson's rows are safe for any users, wallets, challenges, calls and times: what is
\* funded was approved, challenges are used in time, rewards are earned and recoverable.
THEOREM JourneyIsSafe == Spec => []JourneySafe
<1>1. JourneyInv => JourneySafe
  BY DEF JourneyInv
<1> QED
  BY InitInv, StepInv, <1>1, PTL DEF Spec

\* A lesson that is not published gets no completions and no allocations.
LEMMA OnlyWhenPublished ==
  ASSUME TypeOK, CallsAgree, [Next]_vars, ~Published(revision)
  PROVE  completions' = completions /\ allocations' = allocations
<1>1. CASE \E k \in Calls : CommitComplete(k)
  BY <1>1 DEF CommitComplete, OpenToNew, rewards, TypeOK
<1>2. CASE \E k \in Calls : Reserve(k)
  <2>1. PICK k \in Calls : Reserve(k)
    BY <1>2
  <2>2. calls[k] \in Call /\ calls[k] # None /\ calls[k].op = "reserve"
    BY <2>1 DEF Reserve, TypeOK
  <2>3. PICK h \in ChallengeIds : h = calls[k].challenge /\ challenges[h] # None
    BY <2>2, CallShape DEF CallsAgree, Agrees
  <2> QED
    BY <2>1, <2>3 DEF Reserve, OpenToNew, proofs
<1>3. \/ \E k \in Calls : CommitComplete(k) \/ Reserve(k)
      \/ completions' = completions /\ allocations' = allocations
  BY DEF Next, Start, GoOn, CommitBind, CommitPublish, VerifyWallet, EndCall, SponsorMoves,
         OwnerActs, Revise, Approve, ApproveLayout, Withdraw, ParticipantActs, VerifyEmail,
         AskChallenge, TimePasses, proofs, rewards, vars
<1> QED
  BY <1>1, <1>2, <1>3

\* A published commitment is never replaced.
LEMMA PublicationStays ==
  ASSUME TypeOK, TypeOK', [Next]_vars, publication # None
  PROVE  publication' # None /\ publication'.revision = publication.revision
<1>1. CASE \E k \in Calls : CommitPublish(k)
  <2>1. PICK k \in Calls : CommitPublish(k)
    BY <1>1
  <2>2. calls[k] \in Call
    BY <2>1 DEF CommitPublish, TypeOK
  <2>3. publication' \in Publication
    BY <2>1, <2>2, CallShape DEF CommitPublish, Publication
  <2> QED
    BY <2>1, <2>3, NoneAssumption DEF CommitPublish
<1>2. CASE \E r \in Revisions : Withdraw(r)
  <2>1. publication \in Publication
    BY DEF TypeOK
  <2>2. publication' \in Publication /\ publication'.revision = publication.revision
    BY <1>2, <2>1 DEF Withdraw, Publication
  <2> QED
    BY <2>2, NoneAssumption
<1>3. \/ \E k \in Calls : CommitPublish(k)
      \/ \E r \in Revisions : Withdraw(r)
      \/ publication' = publication
  BY DEF Next, Start, GoOn, CommitBind, CommitComplete, VerifyWallet, Reserve, EndCall,
         SponsorMoves, OwnerActs, Revise, Approve, ApproveLayout, ParticipantActs,
         VerifyEmail, AskChallenge, TimePasses, funding, vars
<1> QED
  BY <1>1, <1>2, <1>3

\* No call, however late, changes what is linked, published, proved or allocated, and none
\* completes or rewards a lesson that was withdrawn.
THEOREM JourneyIsKept == Spec => JourneyKept
<1>1. JourneyInv /\ JourneyInv' /\ [Next]_vars =>
        [/\ bound # None => bound' = bound /\ revision' = revision
         /\ publication # None =>
               publication' # None /\ publication'.revision = publication.revision
         /\ \A h \in ChallengeIds : receipts[h] # None => receipts'[h] = receipts[h]
         /\ \A u \in Allocated : allocations'[u] = allocations[u]
         /\ ~Published(revision) => completions' = completions /\ allocations' = allocations]_vars
  <2> SUFFICES ASSUME JourneyInv, JourneyInv', [Next]_vars
               PROVE  /\ bound # None => bound' = bound /\ revision' = revision
                      /\ publication # None =>
                            publication' # None /\ publication'.revision = publication.revision
                      /\ \A h \in ChallengeIds : receipts[h] # None => receipts'[h] = receipts[h]
                      /\ \A u \in Allocated : allocations'[u] = allocations[u]
                      /\ ~Published(revision) =>
                            completions' = completions /\ allocations' = allocations
    OBVIOUS
  <2>1. Stable
    BY StepInv
  <2> QED
    BY <2>1, PublicationStays, OnlyWhenPublished DEF JourneyInv, JourneySafe, Stable
<1> QED
  BY InitInv, StepInv, <1>1, PTL DEF Spec, JourneyKept
==============================================================================
