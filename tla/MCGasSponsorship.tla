-------------------------- MODULE MCGasSponsorship --------------------------
(* Two allocations of one account; a wallet may ask with another gas estimate *)
(* and for another operation.                                              *)
EXTENDS GasSponsorship, TLC

CONSTANTS a1, a2, p1, p2

Same == [a \in Allocations |-> "bob"]

RequestOf(op, final, gas) == [op |-> op, final |-> final, gas |-> gas]
Wallet == {RequestOf("o1", FALSE, 1), RequestOf("o1", TRUE, 1), RequestOf("o2", FALSE, 1)}

Symmetry == Permutations(Allocations) \cup Permutations(Proxies)
============================================================================
