----------------------------- MODULE MCContract -----------------------------
(***************************************************************************)
(* The contract, and the daemon that follows its events: StroemHTLC with   *)
(* two usable swap ids and hashes, an ordinary account, one that refuses   *)
(* ether and the zero address; and SwapHandler with one kill.  Each is a   *)
(* small instance of its own.                                              *)
(***************************************************************************)
EXTENDS StroemHTLC, SwapHandler, TLC

CONSTANTS id0, id1, id2, h0, h1, h2, x1, x2, alice, bob, zero

MCSha256 == x1 :> h1 @@ x2 :> h2
MCFunds == alice :> 5000 @@ bob :> 1500 @@ zero :> 0

VARIABLE part       \* which of the two is looked at

Looking(p) == part = p /\ UNCHANGED part

MCInit ==
    /\ part \in {"contract", "daemon"}
    /\ Init /\ HandlerInit
    /\ part = "contract" => is_lp

MCNext ==
    \/ Looking("contract") /\ Next /\ UNCHANGED handlerVars
    \/ Looking("daemon") /\ HandlerNext /\ UNCHANGED vars

MCSpec == MCInit /\ [][MCNext]_<<part, vars, handlerVars>> /\ Fairness

=============================================================================
