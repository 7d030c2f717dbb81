----------------------------- MODULE AtomicSwap -----------------------------
(***************************************************************************)
(* Both legs of one swap against real time: the taker's deposit on channel *)
(* A, the LP's counter lock on channel B, the clocks of the two chains as  *)
(* the LP reads them, and the LP's answers.  The LP mirrors a deposit only *)
(* if its remaining lock, on the cached clock of A, is at least twice the  *)
(* lock time of B (build_counter_commitment).                              *)
(*                                                                         *)
(* What surrounds the LP is bounded by named constants: a chain's clock is *)
(* within Skew of real time, and what the LP does on chain (send the       *)
(* counter, claim the deposit once the counter is claimed, refund the      *)
(* counter once it is refundable), detection and confirmations included,   *)
(* takes at most Reaction.  So does the taker's reveal, if it comes at all *)
(* (its page may be closed), and then the claim of the counter by those    *)
(* who settle for a reward.                                                *)
(***************************************************************************)
EXTENDS Integers

CONSTANTS
    lock_time_secs,   \* the lock of a counter on channel B
    max_age,          \* the oldest clock reading the LP uses
    Skew,             \* bound: |clock of a chain - real time|
    Reaction,         \* bound: how long an answer takes
    is_evm,           \* per channel: the contract, whose claim path closes at
                      \* the timelock, or the Kaspa script, whose does not
    uses_synthetic_clock,   \* per channel: the LP's own clock will not do
    DepositLocks,     \* the lock durations the taker may choose
    MaxTime           \* bound on real time

Channels == {"A", "B"}

\* How long after the counter's timelock its claim may still surprise the LP.
Exposure == IF is_evm["B"] THEN Reaction ELSE 2 * Reaction

ASSUME SwapAssumption ==
    /\ lock_time_secs \in Nat /\ max_age \in Nat /\ Skew \in Nat \ {0} /\ Reaction \in Nat
    /\ is_evm \in [Channels -> BOOLEAN]
    /\ uses_synthetic_clock \in [Channels -> BOOLEAN]
    /\ DepositLocks \subseteq Nat
    /\ MaxTime \in Nat /\ MaxTime >= Skew

\* The margin the factor two leaves for delays.
ASSUME MarginAssumption == Exposure + max_age + 4 * Skew < lock_time_secs

\* The time a counter lock leaves for landing, reveal and claim.
ASSUME RevealAssumption == 3 * Reaction + max_age + 2 * Skew < lock_time_secs

VARIABLES
    now,       \* real time
    clock,     \* the timestamp of each chain's latest block
    cache,     \* the LP's last_block_ts of each channel, and when it was read
    leg,       \* where the funds of each leg are; "sent" is a counter in flight
    unlock,    \* the timelock of each leg
    secret,    \* whether the taker has broadcast its secret
    since      \* when the counter was sent, landed, or claimed, or the secret
               \* broadcast: the last of these

vars == <<now, clock, cache, leg, unlock, secret, since>>

Init ==
    /\ now = Skew
    /\ clock \in [Channels -> 0 .. 2 * Skew]
    /\ cache = [c \in Channels |-> [ts |-> clock[c], observed |-> now]]
    /\ leg = [c \in Channels |-> "none"]
    /\ unlock = [c \in Channels |-> 0]
    /\ secret = FALSE
    /\ since = 0

-----------------------------------------------------------------------------
(* The contract or script of a leg.                                        *)

\* (mutant) A refund before the timelock.
RefundableEarly(c) == leg[c] = "open" /\ clock[c] + 1 >= unlock[c]

Lockable(c, t) == is_evm[c] => t > clock[c]
Claimable(c) == leg[c] = "open" /\ (is_evm[c] => clock[c] < unlock[c])
Refundable(c) == leg[c] = "open" /\ clock[c] >= unlock[c]

Move(c, status) == leg' = [leg EXCEPT ![c] = status]

Deposit ==
    /\ leg["A"] = "none"
    /\ \E d \in DepositLocks :
        /\ clock["A"] + d <= MaxTime
        /\ Lockable("A", clock["A"] + d)
        /\ unlock' = [unlock EXCEPT !["A"] = clock["A"] + d]
    /\ Move("A", "open")
    /\ UNCHANGED <<now, clock, cache, secret, since>>

\* The taker's node sees the counter and broadcasts the secret.  It does not
\* look at the counter's timelock (pending_claim_matches).
TransmitReveal ==
    /\ leg["B"] = "open" /\ ~secret
    /\ now <= since + Reaction
    /\ secret' = TRUE
    /\ since' = now
    /\ UNCHANGED <<now, clock, cache, leg, unlock>>

\* The taker, or anyone it gave the secret to.
TakerClaims ==
    /\ Claimable("B")
    /\ Move("B", "claimed")
    /\ since' = now
    /\ UNCHANGED <<now, clock, cache, unlock, secret>>

\* Anyone may refund either leg.
RefundLeg(c) ==
    /\ Refundable(c)
    /\ Move(c, "refunded")
    /\ UNCHANGED <<now, clock, cache, unlock, secret, since>>

-----------------------------------------------------------------------------
(* The LP.                                                                 *)

\* poll_finalized of an EVM channel reads the chain's clock.  Readings after the counter
\* is sent are not used for this swap, and are left out.
ReadClock(c) ==
    /\ is_evm[c]
    /\ leg["B"] = "none"
    /\ cache' = [cache EXCEPT ![c] = [ts |-> clock[c], observed |-> now]]
    /\ UNCHANGED <<now, clock, leg, unlock, secret, since>>

\* chain_now: None without a reading, and once the reading is too old.
Fresh(c) == is_evm[c] /\ now - cache[c].observed <= max_age

\* The channels with a time of their own.
chain_clock == {c \in Channels : Fresh(c)}

\* now_checked falls back to the LP's own clock, which is real time here,
\* except on a channel with a synthetic one.
Known(c) == c \in chain_clock \/ ~uses_synthetic_clock[c]
now_checked(c) == IF c \in chain_clock THEN cache[c].ts ELSE now

\* Mutant: the deposit need only outlast one counter lock.
required_lock_single == lock_time_secs
required_init_lock_secs == 2 * lock_time_secs

counter_unlock_ts == now_checked("B") + lock_time_secs

\* build_counter_commitment, with prices and amounts in order.
Mirror ==
    /\ leg["A"] # "none" /\ leg["B"] = "none"
    /\ Known("A") /\ Known("B")
    /\ unlock["A"] - now_checked("A") >= required_init_lock_secs
    /\ unlock' = [unlock EXCEPT !["B"] = counter_unlock_ts]
    /\ Move("B", "sent")
    /\ since' = now
    /\ UNCHANGED <<now, clock, cache, secret>>

CounterLands ==
    /\ leg["B"] = "sent"
    /\ Lockable("B", unlock["B"])
    /\ Move("B", "open")
    /\ since' = now
    /\ UNCHANGED <<now, clock, cache, unlock, secret>>

\* The broadcast fails or the transaction is dropped; there is no retry.
CounterDropped ==
    /\ leg["B"] = "sent"
    /\ Move("B", "dropped")
    /\ UNCHANGED <<now, clock, cache, unlock, secret, since>>

\* The secret, from the counter's claim or from the broadcast, opens the deposit.
LpClaims ==
    /\ leg["B"] = "claimed" \/ secret
    /\ Claimable("A")
    /\ Move("A", "claimed")
    /\ UNCHANGED <<now, clock, cache, unlock, secret, since>>

-----------------------------------------------------------------------------
(* Time.                                                                   *)

Block(c) ==
    /\ \E t \in clock[c] + 1 .. now + Skew : clock' = [clock EXCEPT ![c] = t]
    /\ UNCHANGED <<now, cache, leg, unlock, secret, since>>

\* Answers happen before their bound passes, if the chain lets them.
Tick ==
    /\ now < MaxTime
    /\ \A c \in Channels : now + 1 - clock[c] <= Skew
    /\ leg["B"] = "sent" => now < since + Reaction
    /\ leg["B"] = "claimed" /\ Claimable("A") => now < since + Reaction
    /\ secret /\ Claimable("B") => now < since + Reaction
    /\ Refundable("B") => now < unlock["B"] + Skew + Reaction
    /\ now' = now + 1
    /\ UNCHANGED <<clock, cache, leg, unlock, secret, since>>

Next ==
    \/ Deposit \/ TransmitReveal \/ TakerClaims
    \/ Mirror \/ CounterLands \/ CounterDropped \/ LpClaims
    \/ \E c \in Channels : RefundLeg(c) \/ ReadClock(c) \/ Block(c)
    \/ Tick

Spec == Init /\ [][Next]_vars

-----------------------------------------------------------------------------
TypeOK ==
    /\ now \in Nat
    /\ clock \in [Channels -> Nat] /\ unlock \in [Channels -> Nat]
    /\ cache \in [Channels -> [ts : Nat, observed : Nat]]
    /\ leg \in [Channels -> {"none", "sent", "dropped", "open", "claimed", "refunded"}]
    /\ secret \in BOOLEAN
    /\ since \in Nat

\* The swap is atomic: neither does the LP pay the counter and lose the deposit,
\* nor does a taker whose node reveals on sight of the counter, whatever its
\* timelock, lose the deposit and not get the counter (build_counter_commitment,
\* required_init_lock_secs, pending_claim_matches).
SwapIsAtomic == {leg["A"], leg["B"]} # {"claimed", "refunded"}

\* Once the deposit can be taken back, its counter can be neither claimed nor
\* locked: the two windows do not overlap.
WindowsDisjoint ==
    Refundable("A") =>
        /\ ~Claimable("B")
        /\ leg["B"] = "sent" => ~Lockable("B", unlock["B"])

Status(c) == IF leg[c] \in {"sent", "dropped"} THEN "none"
             ELSE IF leg[c] = "open" THEN "locked" ELSE leg[c]

Deadline(c) == IF Status(c) = "none" THEN 0 ELSE unlock[c]

EscrowA == INSTANCE Escrow WITH
    Swaps <- {"A"}, Times <- 0 .. MaxTime + Skew, ClaimExpires <- is_evm["A"],
    status <- [c \in {"A"} |-> Status(c)], deadline <- [c \in {"A"} |-> Deadline(c)],
    now <- clock["A"]

EscrowB == INSTANCE Escrow WITH
    Swaps <- {"B"}, Times <- 0 .. MaxTime + Skew, ClaimExpires <- is_evm["B"],
    status <- [c \in {"B"} |-> Status(c)], deadline <- [c \in {"B"} |-> Deadline(c)],
    now <- clock["B"]

\* Each leg does on its own chain's clock what an escrow does, as StroemHTLC
\* is shown to: the timed swap assumes no more of a chain than that.
LegsAreEscrows == EscrowA!Spec /\ EscrowB!Spec
=============================================================================
