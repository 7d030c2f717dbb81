----------------------------- MODULE StroemHTLC -----------------------------
(***************************************************************************)
(* The Ethereum contract StroemHTLCV1: newSwap, claim and refund, each an  *)
(* atomic transaction that either takes effect whole or reverts.  Hashing  *)
(* is a function from secrets to hashes; a payment fails, and reverts the  *)
(* transaction, when its target is an account that refuses ether.          *)
(***************************************************************************)
EXTENDS Integers, Sequences, Functions, FiniteSetsExt

CONSTANTS
    SwapIds, Hashes, Secrets, Accounts,
    ZeroId, ZeroHash, ZeroAddress,     \* the all-zero bytes32 and address
    Sha256,                            \* sha256 of each secret
    Rejecting,                         \* accounts that refuse to be paid
    Values,                            \* the msg.value inputs of newSwap
    Funds,                             \* what each account holds at deployment
    BPS_DENOMINATOR,
    MaxTime                            \* bound on block.timestamp

ASSUME HTLCAssumption ==
    /\ ZeroId \in SwapIds /\ ZeroHash \in Hashes /\ ZeroAddress \in Accounts
    /\ Sha256 \in [Secrets -> Hashes]
    /\ Rejecting \subseteq Accounts
    /\ Values \subseteq Nat
    /\ Funds \in [Accounts -> Nat]
    /\ BPS_DENOMINATOR \in Nat \ {0}
    /\ MaxTime \in Nat

VARIABLES
    swaps,          \* mapping swapId => Swap
    secretHashes,   \* the hashes some swap has used
    log,            \* the contract's events, in the order of emission
    balance,        \* ether held by the contract
    wallet,         \* ether held by every account
    now             \* block.timestamp

vars == <<swaps, secretHashes, log, balance, wallet, now>>

Swap == [sender : Accounts, receiver : Accounts, amount : Nat,
         secretHash : Hashes, timelock : 0..MaxTime,
         initialized : BOOLEAN, finalized : BOOLEAN]

EmptySwap == [sender |-> ZeroAddress, receiver |-> ZeroAddress, amount |-> 0,
              secretHash |-> ZeroHash, timelock |-> 0,
              initialized |-> FALSE, finalized |-> FALSE]

Event == [kind : {"Commitment", "Claim", "Refund"}, swapId : SwapIds]

Init ==
    /\ swaps = [s \in SwapIds |-> EmptySwap]
    /\ secretHashes = {}
    /\ log = <<>>
    /\ balance = 0
    /\ wallet = Funds
    /\ now = 0

\* Mutant: a refund leaves no event.
EmitNoRefund(kind, s) ==
    log' = IF kind = "Refund" THEN log ELSE Append(log, [kind |-> kind, swapId |-> s])

Emit(kind, s) == log' = Append(log, [kind |-> kind, swapId |-> s])

\* Mutant: a hash may be used again.
AcceptsSwapHashUnchecked(receiver, hash, value, timelock, s) ==
    /\ value > BPS_DENOMINATOR
    /\ timelock > now
    /\ receiver # ZeroAddress
    /\ hash # ZeroHash
    /\ ~swaps[s].initialized
    /\ s # ZeroId

\* newSwap accepts any value above the denominator, for a hash and an id
\* never used before, with a timelock still ahead.
AcceptsSwap(receiver, hash, value, timelock, s) ==
    /\ value > BPS_DENOMINATOR
    /\ timelock > now
    /\ receiver # ZeroAddress
    /\ hash # ZeroHash
    /\ ~swaps[s].initialized
    /\ s # ZeroId
    /\ hash \notin secretHashes

NewSwap(caller, onBehalfOf, receiver, hash, value, timelock, s) ==
    /\ wallet[caller] >= value
    /\ AcceptsSwap(receiver, hash, value, timelock, s)
    /\ secretHashes' = secretHashes \cup {hash}
    /\ swaps' = [swaps EXCEPT ![s] =
                   [sender |-> onBehalfOf, receiver |-> receiver,
                    amount |-> value, secretHash |-> hash,
                    timelock |-> timelock,
                    initialized |-> TRUE, finalized |-> FALSE]]
    /\ Emit("Commitment", s)
    /\ balance' = balance + value
    /\ wallet' = [wallet EXCEPT ![caller] = @ - value]
    /\ UNCHANGED now

\* Mutant: the reward is kept.
PayoutRewardKept(amount, beneficiary, solver) ==
    LET receiverAmount == amount - amount \div BPS_DENOMINATOR
    IN  /\ beneficiary \notin Rejecting
        /\ balance' = balance - receiverAmount
        /\ wallet' = [wallet EXCEPT ![beneficiary] = @ + receiverAmount]

\* Both transfers of a settlement: the solver's share is the floor of
\* amount / BPS_DENOMINATOR, the beneficiary gets the remainder.
Payout(amount, beneficiary, solver) ==
    LET solverReward == amount \div BPS_DENOMINATOR
        receiverAmount == amount - solverReward
    IN  /\ beneficiary \notin Rejecting
        /\ solver \notin Rejecting
        /\ balance >= amount
        /\ balance' = balance - amount
        /\ wallet' = [a \in Accounts |->
                        wallet[a] + (IF a = beneficiary THEN receiverAmount ELSE 0)
                                  + (IF a = solver THEN solverReward ELSE 0)]

Open(s) == swaps[s].initialized /\ ~swaps[s].finalized

Finalize(s) == swaps' = [swaps EXCEPT ![s].finalized = TRUE]

\* Mutant: the block at the timelock still accepts a claim.
ClaimableAtDeadline(s) == now <= swaps[s].timelock
Claimable(s) == now < swaps[s].timelock

Claim(solver, s, secret) ==
    /\ Open(s)
    /\ Sha256[secret] = swaps[s].secretHash
    /\ Claimable(s)
    /\ Finalize(s)
    /\ Emit("Claim", s)
    /\ Payout(swaps[s].amount, swaps[s].receiver, solver)
    /\ UNCHANGED <<secretHashes, now>>

Refund(solver, s) ==
    /\ Open(s)
    /\ now >= swaps[s].timelock
    /\ Finalize(s)
    /\ Emit("Refund", s)
    /\ Payout(swaps[s].amount, swaps[s].sender, solver)
    /\ UNCHANGED <<secretHashes, now>>

\* A later block.
Mine ==
    /\ \E t \in now + 1 .. MaxTime : now' = t
    /\ UNCHANGED <<swaps, secretHashes, log, balance, wallet>>

Next ==
    \/ \E caller, onBehalfOf, receiver \in Accounts, hash \in Hashes,
          value \in Values, timelock \in 0..MaxTime, s \in SwapIds :
            NewSwap(caller, onBehalfOf, receiver, hash, value, timelock, s)
    \/ \E solver \in Accounts, s \in SwapIds :
            \/ \E secret \in Secrets : Claim(solver, s, secret)
            \/ Refund(solver, s)
    \/ Mine

Spec == Init /\ [][Next]_vars

-----------------------------------------------------------------------------
\* Every variable stays in its type; no account and no contract balance ever
\* goes below zero.
TypeOK ==
    /\ swaps \in [SwapIds -> Swap]
    /\ secretHashes \subseteq Hashes
    /\ log \in Seq(Event)
    /\ balance \in Nat
    /\ wallet \in [Accounts -> Nat]
    /\ now \in 0..MaxTime

\* The contract holds exactly the amounts of the swaps that are still open:
\* a settlement pays out its own swap, whole, and no other ("No funds remain
\* in contract", StroemHTLCV1.sol:98).
Solvency ==
    balance = MapThenSumSet(LAMBDA s : swaps[s].amount, {s \in SwapIds : Open(s)})

\* One secret never opens two swaps: newSwap refuses a hash already used, so
\* the secret a claim publishes cannot settle a swap other than its own.
SecretOpensOneSwap ==
    \A s, r \in SwapIds :
        swaps[s].initialized /\ swaps[r].initialized
            /\ swaps[s].secretHash = swaps[r].secretHash => s = r

Terminal == {"Claim", "Refund"}

Logged(kind, s) == [kind |-> kind, swapId |-> s] \in Range(log)

\* The events, which are all a node ever sees, tell the truth about the
\* storage: each swap has one Commitment, then at most one Claim or Refund,
\* and it has the terminal event exactly when it is finalized.
LogTellsStorage ==
    /\ \A s \in SwapIds :
        /\ swaps[s].initialized <=> Logged("Commitment", s)
        /\ swaps[s].finalized <=> Logged("Claim", s) \/ Logged("Refund", s)
    /\ \A i, j \in DOMAIN log :
        i < j /\ log[i].swapId = log[j].swapId
            => log[i].kind = "Commitment" /\ log[j].kind \in Terminal

\* The storage does not say how a swap was finalized; its terminal event does.
EscrowStatus(s) ==
    CASE ~swaps[s].initialized -> "none"
      [] Open(s) -> "locked"
      [] OTHER -> IF Logged("Claim", s) THEN "claimed" ELSE "refunded"

E == INSTANCE Escrow WITH
        Swaps <- SwapIds, Times <- 0..MaxTime, ClaimExpires <- TRUE,
        status <- [s \in SwapIds |-> EscrowStatus(s)],
        deadline <- [s \in SwapIds |-> swaps[s].timelock]

\* The contract implements the escrow whose claim path closes at the
\* deadline: no swap is settled twice, refunded early or claimed late.
ImplementsEscrow == E!Spec
=============================================================================
