---------------------------- MODULE MCRewardIssuer ----------------------------
(***************************************************************************)
(* Instances of RewardIssuer for TLC: an approved campaign that opens at 0,   *)
(* ends at 1 and takes claims until 2, or another one that opens at 1; two    *)
(* users, two signer keys.  The server has the key of s1; s2 signs whatever   *)
(* it likes.                                                                 *)
(***************************************************************************)
EXTENDS RewardIssuer, TLC

CONSTANTS s1, s2

TermsOf(maxClaims, reward, startsAt, signer) ==
    [maxClaims |-> maxClaims, reward |-> reward, startsAt |-> startsAt,
     endsAt |-> startsAt + 1, claimDeadline |-> startsAt + 2, signer |-> signer]

OneReward == TermsOf(1, 1, 0, s1)

\* The sponsor funds the approved terms, or others: under a signer of its own, or without
\* a reward.
Offers == {OneReward, TermsOf(2, 1, 1, s2), TermsOf(1, 0, 0, s1)}

\* Participants, recipients, users and calls are only compared.
Symmetry ==
    Permutations(Participants) \cup Permutations(Recipients) \cup Permutations(Users)
      \cup Permutations(Calls)
=============================================================================
