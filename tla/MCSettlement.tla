---------------------------- MODULE MCSettlement ----------------------------
(***************************************************************************)
(* Settling on an EVM chain: the queue and the store shared by the tasks   *)
(* (Settlement), and the transactions of one attempt after another (EvmTx),*)
(* each on a small instance of its own.                                    *)
(***************************************************************************)
EXTENDS Settlement, EvmTx

VARIABLE part       \* which of the two is looked at

ClaimKey == [swap |-> "s1", action |-> "Claim"]
RefundKey == [swap |-> "s2", action |-> "Refund"]
MCActions == {ClaimKey, RefundKey}
MCScenarios ==
    LET Bounded(keys, c, m, v, r) ==
            [keys |-> keys,
             budget |-> [commits |-> c, emits |-> m, evictions |-> v, crashes |-> r]]
    IN  {Bounded(MCActions, 0, 0, 1, 0), Bounded(MCActions, 0, 0, 0, 1),
         Bounded({ClaimKey}, 1, 0, 0, 1), Bounded({RefundKey}, 2, 0, 0, 0),
         Bounded({ClaimKey}, 0, 1, 0, 1)}

Looking(p) == part = p /\ UNCHANGED part

MCInit ==
    /\ part \in {"queue", "transactions"}
    /\ Init /\ TxInit
    /\ part = "queue" => budget.commits = 2 /\ price = 100

MCNext ==
    \/ Looking("queue") /\ Next /\ UNCHANGED txVars
    \/ Looking("transactions") /\ TxNext /\ UNCHANGED vars

MCSpec == MCInit /\ [][MCNext]_<<part, vars, txVars>>
=============================================================================
