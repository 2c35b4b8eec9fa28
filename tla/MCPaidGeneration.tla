-------------------------- MODULE MCPaidGeneration --------------------------
(* One payment identifier, signed, and signed again with another nonce.      *)
EXTENDS PaidGeneration

CONSTANTS i1

Identifiers == [h \in Headers |-> i1]

\* Every stage but the one at which a failed write forgets that a settlement may be open.
Tolerated == Stages \ {"SETTLEMENT_UNKNOWN"}
============================================================================
