---------------------------- MODULE MCClaimLedger ----------------------------
(***************************************************************************)
(* Instances of ClaimLedger for TLC.  OpenAtOnce can be claimed from the      *)
(* start, OpensLater can be cancelled before it opens and expires before the  *)
(* clock ends.                                                              *)
(***************************************************************************)
EXTENDS ClaimLedger, TLC

CONSTANTS c1, alice, bob, direct, routed

SpecOf(opens, expires) ==
    [id |-> c1, controller |-> alice, opens |-> opens, expires |-> expires,
     creator |-> alice, refundTo |-> alice]

OpenAtOnce == {SpecOf(0, 3)}
OpensLater == {SpecOf(1, 2)}

ReceiverOf == [cl \in Claims |-> IF cl = direct THEN alice ELSE bob]

KeysOf ==
    {ClaimKey(cl) : cl \in Claims} \cup {PayoutKey(cl) : cl \in OneClick}
      \cup {RefundKey(reason) : reason \in Reasons} \cup {LifecycleKey}

WorkerSymmetry == Permutations(Workers)
=============================================================================
