----------------------------- MODULE PrizeEscrow -----------------------------
(***************************************************************************)
(* What the prize escrow promises a sponsor and a solver, without promises, *)
(* callbacks, nonces or retries: a prize is held once, leaves once, and      *)
(* leaves only for a receiver endorsed with the solution key or for the     *)
(* refund account fixed when it was funded.                                *)
(***************************************************************************)
EXTENDS Naturals

CONSTANTS CampaignIds, Accounts, None

VARIABLES
    prize,     \* where the prize of each campaign is
    refundTo,  \* the refund account fixed at funding, or None
    endorsed,  \* <<campaign, receiver>> pairs endorsed with the solution key
    payee,     \* who got the prize, or None
    exits      \* how many transfers have left the escrow for each campaign

vars == <<prize, refundTo, endorsed, payee, exits>>

Init ==
    /\ prize = [id \in CampaignIds |-> "none"]
    /\ refundTo = [id \in CampaignIds |-> None]
    /\ endorsed = {}
    /\ payee = [id \in CampaignIds |-> None]
    /\ exits = [id \in CampaignIds |-> 0]

Fund(id, account) ==
    /\ prize[id] = "none"
    /\ prize' = [prize EXCEPT ![id] = "held"]
    /\ refundTo' = [refundTo EXCEPT ![id] = account]
    /\ UNCHANGED <<endorsed, payee, exits>>

Endorse(id, account) ==
    /\ prize[id] # "none"
    /\ endorsed' = endorsed \cup {<<id, account>>}
    /\ UNCHANGED <<prize, refundTo, payee, exits>>

Pay(id, account) ==
    /\ prize[id] = "held"
    /\ <<id, account>> \in endorsed
    /\ prize' = [prize EXCEPT ![id] = "paid"]
    /\ payee' = [payee EXCEPT ![id] = account]
    /\ exits' = [exits EXCEPT ![id] = 1]
    /\ UNCHANGED <<refundTo, endorsed>>

Return(id) ==
    /\ prize[id] = "held"
    /\ prize' = [prize EXCEPT ![id] = "returned"]
    /\ payee' = [payee EXCEPT ![id] = refundTo[id]]
    /\ exits' = [exits EXCEPT ![id] = 1]
    /\ UNCHANGED <<refundTo, endorsed>>

Leave(id) == Return(id) \/ \E account \in Accounts : Pay(id, account)

Next ==
    \E id \in CampaignIds :
        \/ Leave(id)
        \/ \E account \in Accounts : Fund(id, account) \/ Endorse(id, account)

Spec == Init /\ [][Next]_vars

LiveSpec == Spec /\ \A id \in CampaignIds : WF_vars(Leave(id))
==============================================================================
