------------------------ MODULE MCCrosswordCampaigns ------------------------
(***************************************************************************)
(* Instances of CrosswordCampaigns for TLC.  Campaign c1 opens at 1 and      *)
(* expires at 3, with the clock running to MaxTime: cancellation, claims and *)
(* expiry all happen.  SelfFunded has the one creator, controller and refund *)
(* account that an external authorization demands; the third spec of         *)
(* Submitted has not, so it can only be funded directly.                     *)
(***************************************************************************)
EXTENDS CrosswordCampaigns, TLC

CONSTANTS c1, c2, alice, bob

SpecOf(id, controller, opens, expires) ==
    [id |-> id, controller |-> controller, opens |-> opens, expires |-> expires,
     creator |-> alice, refundTo |-> alice]

SelfFunded == {SpecOf(c1, alice, 1, 3)}
SelfFundedPair == {SpecOf(c1, alice, 1, 3), SpecOf(c2, alice, 4, 5)}
Submitted == SelfFundedPair \cup {SpecOf(c1, bob, 1, 3)}

\* References and transfer names are only compared: permuting them changes nothing.
Symmetry == Permutations(References) \cup Permutations(Transfers)
=============================================================================
