-------------------------------- MODULE EvmTx --------------------------------
(***************************************************************************)
(* The transactions of one EVM account.  The settler sends one transaction *)
(* per claim or refund and, while the action stays queued, sends it again  *)
(* under the same nonce at a higher gas price.  The driver sends           *)
(* commitments from the same account, with nonces the provider fills in.   *)
(* Every attempt carries its nonce and last gas price, in memory and in    *)
(* the swap store, so that a restart replaces what is already in the       *)
(* network's pool.  The pool and the fee market are external.              *)
(*                                                                         *)
(* An attempt's times are left out: the backoff is 5 * 2^k seconds for k   *)
(* up to 13, plus less than a minute, so a queued action is always due     *)
(* again.  Prices are in any unit in which MAX_GAS_PRICE is a small        *)
(* number.  Settlement has the intents, the deadline and the steps of      *)
(* persist_swap; here a claim or a refund stays intended while it is       *)
(* queued, and the settler's own persist_swap is one step.                 *)
(***************************************************************************)
EXTENDS Integers, FiniteSets

CONSTANTS
    Actions,         \* claims and refunds: [swap, action]
    Prices,          \* the gas prices the network may ask for
    MAX_GAS_PRICE,
    MAX_GAS_BUMPS,
    Scenarios        \* the keys scheduled at first, and bounds on what may happen

ASSUME TxAssumption ==
    /\ \A k \in Actions : k.action \in {"Claim", "Refund"}
    /\ Prices \subseteq Nat
    /\ MAX_GAS_PRICE \in Nat /\ MAX_GAS_BUMPS \in Nat

VARIABLES
    swap,       \* the contract's view of each swap
    unlocked,   \* swaps whose timelock the chain's clock has passed
    price,      \* what the network asks for now
    confirmed,  \* transactions mined from this account
    pool,       \* its pending transactions
    attempts,   \* RetryQueue: the attempt of each key, None once settled
    disk,       \* the attempt in the swap store
    settler,    \* the settlement in progress
    commit,     \* the commitment being sent
    emit,       \* a second emission of a reveal, in persist_swap
    overwritten,   \* history: keys whose row such an emission put back
    dropped,       \* history: the network has forgotten a transaction
    budget      \* what may still happen

ledger == <<swap, unlocked, price, confirmed, pool>>
ghosts == <<overwritten, dropped>>
txVars == <<ledger, attempts, disk, settler, commit, emit, ghosts, budget>>

SwapIds == {k.swap : k \in Actions}

\* The owner of a newSwap transaction, beside the keys.
Commitment == [swap |-> "new", action |-> "Commitment"]

None == [attempt_count |-> -1, nonce |-> -1, last_gas |-> 0]
AttemptNew == [attempt_count |-> 0, nonce |-> -1, last_gas |-> 0]

AnyAction == CHOOSE k \in Actions : TRUE
NoSettlement == [pc |-> "idle", key |-> AnyAction, attempt |-> None, confirmed |-> 0,
                 nonce |-> 0, gas |-> 0]
NoCommit == [pc |-> "idle", nonce |-> 0, gas |-> 0]
NoEmit == [pc |-> "idle", key |-> AnyAction, attempt |-> None]

TxInit ==
    /\ unlocked = {}
    /\ price \in Prices
    /\ confirmed = 0 /\ pool = {}
    /\ settler = NoSettlement /\ commit = NoCommit /\ emit = NoEmit
    /\ overwritten = {}
    /\ dropped = FALSE
    /\ \E c \in Scenarios :
           /\ attempts = [k \in Actions |-> IF k \in c.keys THEN AttemptNew ELSE None]
           /\ swap = [s \in SwapIds |-> IF \E k \in c.keys : k.swap = s THEN "open" ELSE "settled"]
           /\ budget = c.budget
    /\ disk = attempts

-----------------------------------------------------------------------------
(* The chain, its pool and the other parties.                              *)

Lower(a, b) == IF a < b THEN a ELSE b
Higher(a, b) == IF a > b THEN a ELSE b

AtNonce(n) == {t \in pool : t.nonce = n}

\* get_transaction_count, pending: one past the unbroken run of transactions.
PendingCount ==
    CHOOSE n \in confirmed .. confirmed + Cardinality(pool) :
        /\ AtNonce(n) = {}
        /\ \A m \in confirmed .. n - 1 : AtNonce(m) # {}

Succeeds(k) ==
    /\ swap[k.swap] = "open"
    /\ (k.action = "Refund") = (k.swap \in unlocked)

\* The pool takes a transaction the account has not yet mined, and in place of
\* another one only at a tenth more.
Replaceable(old, gas) == gas >= (old.gas * 110) \div 100
Admits(nonce, gas) ==
    /\ nonce >= confirmed
    /\ \A old \in AtNonce(nonce) : Replaceable(old, gas)

Put(tx) == pool' = (pool \ AtNonce(tx.nonce)) \cup {tx}

\* A block takes the account's next transaction if it pays the price.
MineTx(t) ==
    /\ t \in pool /\ t.nonce = confirmed /\ t.gas >= price
    /\ pool' = pool \ {t}
    /\ confirmed' = confirmed + 1
    /\ swap' = IF t.owner \in Actions /\ Succeeds(t.owner)
               THEN [swap EXCEPT ![t.owner.swap] = "settled"] ELSE swap
    /\ UNCHANGED <<unlocked, price, attempts, disk, settler, commit, emit, ghosts, budget>>

OthersWin(s) ==
    /\ swap[s] = "open"
    /\ swap' = [swap EXCEPT ![s] = "settled"]
    /\ UNCHANGED <<unlocked, price, confirmed, pool, attempts, disk, settler, commit, emit,
                   ghosts, budget>>

Unlock(s) ==
    /\ swap[s] = "open" /\ s \notin unlocked
    /\ unlocked' = unlocked \cup {s}
    /\ UNCHANGED <<swap, price, confirmed, pool, attempts, disk, settler, commit, emit,
                   ghosts, budget>>

PriceMoves(p) ==
    /\ p # price
    /\ price' = p
    /\ UNCHANGED <<swap, unlocked, confirmed, pool, attempts, disk, settler, commit, emit,
                   ghosts, budget>>

\* The network forgets a pending transaction.
Evict(t) ==
    /\ budget.evictions > 0 /\ t \in pool
    /\ pool' = pool \ {t}
    /\ budget' = [budget EXCEPT !.evictions = @ - 1]
    /\ dropped' = TRUE
    /\ UNCHANGED <<swap, unlocked, price, confirmed, attempts, disk, settler, commit, emit,
                   overwritten>>

-----------------------------------------------------------------------------
(* The settler: settle_claim, settle_refund, replacement.                  *)

key == settler.key
In(pc) == settler.pc = pc
GoOn(pc) == settler' = [settler EXCEPT !.pc = pc]

persist_swap(k) == disk' = [disk EXCEPT ![k] = attempts'[k]]

\* on_failure: the count matters up to the last bump.
on_failure(a) ==
    IF a = None THEN a ELSE [a EXCEPT !.attempt_count = Lower(@ + 1, MAX_GAS_BUMPS)]

\* Every outcome of settle ends in record_failure, on the queue and on disk; a
\* key that left the queue is not put back.
record_failed_attempt ==
    /\ attempts' = [attempts EXCEPT ![key] = on_failure(@)]
    /\ persist_swap(key)
    /\ settler' = NoSettlement

\* One bump of 15 % per attempt, MAX_GAS_BUMPS at most, under the cap.
Bumped(base) ==
    LET gas[n \in Nat] == IF n = 0 THEN base ELSE (gas[n - 1] * 115) \div 100
    IN  gas
escalated_gas(base, attempt_count) ==
    Lower(Bumped(base)[Lower(attempt_count, MAX_GAS_BUMPS)], MAX_GAS_PRICE)

\* Mutant: the price paid last time is not outbid.
next_gas_forgets(base, a) == escalated_gas(base, a.attempt_count)

\* The escalated price, and at least 15 % over the last one, under the cap.
next_gas(base, a) ==
    LET gas == escalated_gas(base, a.attempt_count)
    IN  IF a.last_gas = 0 THEN gas
        ELSE Lower(Higher(gas, (a.last_gas * 115) \div 100), MAX_GAS_PRICE)

\* settle_refund wants a block at or past the timelock, settle_claim checks it
\* later.  replacement copies the attempt and asks for the price.
Replacement(k) ==
    /\ In("idle") /\ attempts[k] # None
    /\ k.action = "Refund" => k.swap \in unlocked
    /\ settler' = [NoSettlement EXCEPT !.pc = "confirmed", !.key = k, !.attempt = attempts[k],
                                       !.gas = next_gas(price, attempts[k])]
    /\ UNCHANGED <<ledger, attempts, disk, commit, emit, ghosts, budget>>

\* Not yet unlocked, or a call failed three times before a nonce was chosen.
TooEarly(k) ==
    /\ In("idle") /\ attempts[k] # None
    /\ attempts' = [attempts EXCEPT ![k] = on_failure(@)]
    /\ persist_swap(k)
    /\ UNCHANGED <<ledger, settler, commit, emit, ghosts, budget>>

\* Mutant: the nonce and the price stay in memory.
UseNonceInMemory(nonce, own) ==
    /\ attempts' = [attempts EXCEPT ![key] =
                   IF @ = None THEN @ ELSE [@ EXCEPT !.nonce = nonce, !.last_gas = settler.gas]]
    /\ UNCHANGED disk
    /\ settler' = [NoSettlement EXCEPT !.pc = "check", !.key = key, !.nonce = nonce,
                                       !.gas = settler.gas]

\* set_nonce when it is new, set_last_gas and persist_swap run without a pause.
UseNonce(nonce, own) ==
    LET a == attempts[key]
        used == [a EXCEPT !.nonce = IF own THEN a.nonce ELSE nonce, !.last_gas = settler.gas]
    IN  /\ attempts' = [attempts EXCEPT ![key] = IF a = None THEN a ELSE used]
        /\ persist_swap(key)
        /\ settler' = [NoSettlement EXCEPT !.pc = "check", !.key = key, !.nonce = nonce,
                                           !.gas = settler.gas]

\* The attempt's nonce is used again until the account has passed it.
ReadConfirmed ==
    /\ In("confirmed")
    /\ IF settler.attempt.nonce >= confirmed
       THEN UseNonce(settler.attempt.nonce, TRUE)
       ELSE /\ settler' = [settler EXCEPT !.pc = "pending", !.confirmed = confirmed]
            /\ UNCHANGED <<attempts, disk>>
    /\ UNCHANGED <<ledger, commit, emit, ghosts, budget>>

\* Mutant: one nonce too far.
ReadPendingSkips ==
    /\ In("pending")
    /\ UseNonce(Higher(PendingCount, settler.confirmed) + 1, FALSE)
    /\ UNCHANGED <<ledger, commit, emit, ghosts, budget>>

ReadPending ==
    /\ In("pending")
    /\ UseNonce(Higher(PendingCount, settler.confirmed), FALSE)
    /\ UNCHANGED <<ledger, commit, emit, ghosts, budget>>

\* submit_claim looks the swap up and skips what cannot be claimed, keeping the
\* nonce; submit_refund goes straight to the call.
claim_skip_reason(s) == swap[s] # "open" \/ s \in unlocked
Check ==
    /\ In("check")
    /\ IF key.action = "Claim" /\ claim_skip_reason(key.swap) THEN record_failed_attempt
       ELSE GoOn("send") /\ UNCHANGED <<attempts, disk>>
    /\ UNCHANGED <<ledger, commit, emit, ghosts, budget>>

\* As a legacy price, or as both the fee and the tip of EIP-1559.
apply_gas_and_nonce(owner, nonce, gas) == [owner |-> owner, nonce |-> nonce, gas |-> gas]

\* The provider estimates the call's gas first: one that would revert is not
\* sent.  The answer may be lost on the way back.
Send ==
    /\ In("send")
    /\ IF Succeeds(key) /\ Admits(settler.nonce, settler.gas)
       THEN /\ Put(apply_gas_and_nonce(key, settler.nonce, settler.gas))
            /\ settler' = [NoSettlement EXCEPT !.pc = "receipt", !.key = key]
            /\ UNCHANGED <<attempts, disk>>
       ELSE record_failed_attempt /\ UNCHANGED pool
    /\ UNCHANGED <<swap, unlocked, price, confirmed, commit, emit, ghosts, budget>>

\* A receipt, good or bad, and its timeout all end in Retry.
Receipt ==
    /\ In("receipt")
    /\ record_failed_attempt
    /\ UNCHANGED <<ledger, commit, emit, ghosts, budget>>

\* The call is not answered, or the settlement exceeds its time.
GiveUp ==
    /\ settler.pc \in {"check", "send"}
    /\ record_failed_attempt
    /\ UNCHANGED <<ledger, commit, emit, ghosts, budget>>

-----------------------------------------------------------------------------
(* The driver: commitments, resolutions, and reveals emitted again.        *)

\* newSwap: the provider fills in the pending count, and the price is the
\* network's plus a fifth.
CommitPrepare ==
    /\ commit.pc = "idle" /\ budget.commits > 0
    /\ commit' = [pc |-> "send", nonce |-> PendingCount, gas |-> (price * 6) \div 5]
    /\ budget' = [budget EXCEPT !.commits = @ - 1]
    /\ UNCHANGED <<ledger, attempts, disk, settler, emit, ghosts>>

\* A commitment is sent once: nobody replaces it.
CommitSend ==
    /\ commit.pc = "send"
    /\ \/ /\ Admits(commit.nonce, commit.gas)
          /\ Put([owner |-> Commitment, nonce |-> commit.nonce, gas |-> commit.gas])
       \/ UNCHANGED pool
    /\ commit' = NoCommit
    /\ UNCHANGED <<swap, unlocked, price, confirmed, attempts, disk, settler, emit,
                   ghosts, budget>>

\* track_actionable_event on the Reveal or Refund of a settled swap.
Resolve(s) ==
    /\ swap[s] = "settled"
    /\ \E k \in Actions : k.swap = s /\ attempts[k] # None
    /\ attempts' = [k \in Actions |-> IF k.swap = s THEN None ELSE attempts[k]]
    /\ disk' = [k \in Actions |-> IF k.swap = s THEN None ELSE disk[k]]
    /\ UNCHANGED <<ledger, settler, commit, emit, ghosts, budget>>

\* A reveal heard again: the claim is already pending and queued, and its row is
\* read now and written later.
EmitAgain(k) ==
    /\ emit.pc = "idle" /\ budget.emits > 0
    /\ k.action = "Claim" /\ attempts[k] # None
    /\ emit' = [pc |-> "save", key |-> k, attempt |-> attempts[k]]
    /\ budget' = [budget EXCEPT !.emits = @ - 1]
    /\ UNCHANGED <<ledger, attempts, disk, settler, commit, ghosts>>

EmitSave ==
    /\ emit.pc = "save"
    /\ disk' = [disk EXCEPT ![emit.key] = emit.attempt]
    /\ overwritten' = IF disk[emit.key] = emit.attempt THEN overwritten
                      ELSE overwritten \cup {emit.key}
    /\ emit' = NoEmit
    /\ UNCHANGED <<ledger, attempts, settler, commit, dropped, budget>>

\* A kill; seed_queue takes the attempts from disk.
Restart ==
    /\ budget.crashes > 0
    /\ attempts' = disk
    /\ settler' = NoSettlement /\ commit' = NoCommit /\ emit' = NoEmit
    /\ budget' = [budget EXCEPT !.crashes = @ - 1]
    /\ UNCHANGED <<ledger, disk, ghosts>>

-----------------------------------------------------------------------------
ReplaceStep ==
    \/ \E k \in Actions : Replacement(k) \/ TooEarly(k)
    \/ ReadConfirmed \/ ReadPending \/ Check \/ Send \/ Receipt \/ GiveUp

Network ==
    \/ \E t \in pool : MineTx(t) \/ Evict(t)
    \/ \E s \in SwapIds : OthersWin(s) \/ Unlock(s)
    \/ \E p \in Prices : PriceMoves(p)

SenderStep ==
    \/ CommitPrepare \/ CommitSend \/ EmitSave
    \/ \E s \in SwapIds : Resolve(s)
    \/ \E k \in Actions : EmitAgain(k)

TxNext == Network \/ SenderStep \/ ReplaceStep \/ Restart

TxSpec == TxInit /\ [][TxNext]_txVars

-----------------------------------------------------------------------------
OfKey(k) == {t \in pool : t.owner = k}

\* replacement and submit_claim: however often an action is retried and the node
\* restarted, the network holds at most one live transaction for it, because
\* the nonce is on disk before the transaction is sent.  The exception is a
\* row that a second emission of the reveal wrote back.
OneLiveTransaction ==
    \A k \in Actions \ overwritten : Cardinality(OfKey(k)) <= 1

\* replacement: a transaction sent again is never refused as underpriced by the
\* one it is meant to replace, until its price has reached the cap.
BumpIsAccepted ==
    In("send") /\ key \notin overwritten =>
        \A old \in OfKey(key) :
            old.nonce = settler.nonce =>
                Replaceable(old, settler.gas) \/ settler.gas = MAX_GAS_PRICE

\* replacement: the nonce an action keeps never lies past the account's next free
\* one, where no block could take it, unless the network lost a transaction.
NoNonceGap ==
    ~dropped => \A k \in Actions : attempts[k].nonce <= PendingCount
=============================================================================
