--------------------------- MODULE MCFundingLedger ---------------------------
(***************************************************************************)
(* Instances of FundingLedger for TLC: a direct and a routed request for one  *)
(* campaign, whose draft may be moved from an opening at 0 to one at 2.       *)
(***************************************************************************)
EXTENDS FundingLedger, TLC

CONSTANTS c1, alice, direct, routed, r1, r2

SpecOf(opens, expires) ==
    [id |-> c1, controller |-> alice, opens |-> opens, expires |-> expires,
     creator |-> alice, refundTo |-> alice]

Drafts == {SpecOf(2, 5), SpecOf(0, 2)}

References2 == [q \in Requests |-> IF q = direct THEN r1 ELSE r2]

KeysOf ==
    {ReconcileKey(q) : q \in Requests} \cup {AllocateKey(q) : q \in OneClick} \cup {LifecycleKey}
=============================================================================
