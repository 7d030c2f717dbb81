------------------------------- MODULE Escrow -------------------------------
(***************************************************************************)
(* What a hash-time-locked contract promises, whichever chain carries it:  *)
(* a swap is locked once with a deadline and leaves the lock once, either  *)
(* to its receiver or back to its sender, and never back to its sender     *)
(* before the deadline.  The Ethereum contract also closes the claim path  *)
(* at the deadline (ClaimExpires = TRUE); the Kaspa script leaves it open  *)
(* (ClaimExpires = FALSE).                                                 *)
(***************************************************************************)
EXTENDS Naturals

CONSTANTS
    Swaps,          \* swap identifiers
    Times,          \* the values of the chain's clock, natural numbers
    ClaimExpires    \* does the claim path close at the deadline?

VARIABLES
    status,         \* where the funds of each swap are
    deadline,       \* the unlock time of each swap, meaningful once locked
    now             \* the chain's own clock

vars == <<status, deadline, now>>

Status == {"none", "locked", "claimed", "refunded"}

Init ==
    /\ status = [s \in Swaps |-> "none"]
    /\ deadline \in [Swaps -> Times]
    /\ now \in Times

Lock(s, t) ==
    /\ status[s] = "none"
    /\ ClaimExpires => t > now
    /\ status' = [status EXCEPT ![s] = "locked"]
    /\ deadline' = [deadline EXCEPT ![s] = t]
    /\ now' = now

Claim(s) ==
    /\ status[s] = "locked"
    /\ ClaimExpires => now < deadline[s]
    /\ status' = [status EXCEPT ![s] = "claimed"]
    /\ UNCHANGED <<deadline, now>>

Refund(s) ==
    /\ status[s] = "locked"
    /\ now >= deadline[s]
    /\ status' = [status EXCEPT ![s] = "refunded"]
    /\ UNCHANGED <<deadline, now>>

Tick ==
    /\ \E t \in Times : t > now /\ now' = t
    /\ UNCHANGED <<status, deadline>>

Next ==
    \/ \E s \in Swaps : (\E t \in Times : Lock(s, t)) \/ Claim(s) \/ Refund(s)
    \/ Tick

Spec == Init /\ [][Next]_vars
=============================================================================
