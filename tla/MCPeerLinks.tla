----------------------------- MODULE MCPeerLinks -----------------------------
(* Node b bootstraps from a.  Either may be told of the other, and a of     *)
(* itself, so that dials cross and repeat.  a advertises no address, so b   *)
(* cannot tell that a link a dialled reaches its bootstrap peer, and keeps  *)
(* redialling.                                                              *)
EXTENDS PeerLinks

CONSTANTS a, b

MCNode == {a, b}
MCBootstrap == [n \in MCNode |-> IF n = b THEN {a} ELSE {}]
MCAdvertises == {b}
\* Faults without a ban, for Converges (which a ban satisfies), and a ban with one.
MCBudgets == {[fault |-> 2, learn |-> 1, flood |-> 0], [fault |-> 1, learn |-> 1, flood |-> 1]}
MCTold == [n \in MCNode |-> IF n = a THEN {a, b} ELSE {a}]
=============================================================================
