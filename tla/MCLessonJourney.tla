--------------------------- MODULE MCLessonJourney ---------------------------
(* One participant with two wallets and two challenges; two campaigns on chain. *)
EXTENDS LessonJourney, TLC

Symmetry ==
    Permutations(Users) \cup Permutations(Wallets) \cup Permutations(OnChainIds)
        \cup Permutations(ChallengeIds) \cup Permutations(Signatures) \cup Permutations(Calls)
============================================================================
