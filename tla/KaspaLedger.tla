---------------------------- MODULE KaspaLedger ----------------------------
(***************************************************************************)
(* The money a node moves on Kaspa.  Two of its tasks build transactions   *)
(* from the same wallet without a lock: apply_event submits counter        *)
(* commitments, the settler submits claims and refunds.  Both read the     *)
(* unspent outputs, wait for a fee estimate, and submit; what they read    *)
(* says nothing of the mempool.  The taker and other settlers fund and     *)
(* spend the same locks.  Included transactions are decoded as the node's  *)
(* block handler does; confirmation and restarts are in KaspaChannel.      *)
(***************************************************************************)
EXTENDS KaspaScript, FiniteSetsExt

CONSTANTS
    Commitments,        \* swap |-> its commitment, with the amount in sompi
    Secret,             \* swap |-> the secret of its hash, a byte string of any length
    us, other,          \* this node's address and another settler's
    Wallet,             \* the unspent outputs at the start
    Deposits,           \* amounts others pay to a lock
    FeeRates,           \* fee rates the RPC may report; a negative one is invalid
    Clock,              \* the values past_median_time takes, in order
    coinbase_maturity,
    Budgets             \* bounds: deposits to each lock, spends by others, commitments

Swaps == DOMAIN Commitments
Ours == {s \in Swaps : Commitments[s].sender = us}
MAX_FEERATE == 100000
MIN_REWARD_OUTPUT_SOMPI == 10000
SCHNORR_SIG_SCRIPT_SIZE == 66
MASS_PER_TX_BYTE == 1
TRANSIENT_BYTE_TO_MASS_FACTOR == 4

VARIABLES
    utxos,      \* unspent outputs: [id, spk, amount, is_coinbase, block_daa_score]
    pool,       \* the transactions of the mempool
    tick,       \* position in Clock; it is the DAA score too
    locks,      \* every output that ever paid a lock, and its fate
    registered, \* utxo_scripts: swaps whose script the decoder knows
    known,      \* commitments: swaps the settler has the commitment of
    refunds,    \* swaps with a refund in the settlement queue
    reveals,    \* pending_claims: swaps whose secret the node has heard
    commit,     \* the task that submits each of our commitments
    settle,     \* the settler
    next,       \* the next outpoint
    budget      \* what is left of the bounds

chain == <<utxos, locks, registered, known, refunds, next>>
vars == <<chain, pool, tick, reveals, commit, settle, budget>>

past_median_time == Clock[tick]
Redeem == [s \in Swaps |-> htlc_script_from_commitment(Commitments[s])]
\* Deposits whose announcement, derived by the taker's node, register_script
\* accepts; heard before the start.
Announced ==
    {s \in Swaps \ Ours :
        LET own == p2sh_components(Commitments[s])
        IN  validate_script_announce(own.address, own.redeem_script,
                                     Commitments[s].swap_id, Commitments[s].unlock_ts)}
Sum(S) == MapThenSumSet(LAMBDA u : u.amount, S)
Total(coins) == MapThenSumSet(LAMBDA i : coins[i].amount, DOMAIN coins)
Idle == [pc |-> "idle"]

Init ==
    /\ utxos = Wallet
    /\ pool = {}
    /\ tick = 1
    /\ locks = <<>>
    /\ registered = Announced
    /\ known = {}
    /\ refunds = {}
    /\ reveals = {}
    /\ commit = [s \in Ours |-> Idle]
    /\ settle = Idle
    /\ next = 1 + Max({u.id : u \in Wallet})
    /\ budget \in Budgets
----------------------------------------------------------------------------
(* The chain. *)

\* Signature scripts by what they hold; sig_script spells them out.
sign_input(address) == [branch |-> "key", address |-> address]
reveal_of(s, secret) == [branch |-> "reveal", swap |-> s, secret |-> secret]
refund_of(s) == [branch |-> "refund", swap |-> s]

LockSigs == {refund_of(s) : s \in Swaps}
            \cup {reveal_of(s, x) : s \in Swaps, x \in Range(Secret)}
Sigs == LockSigs \cup {sign_input(a) : a \in {us, other}}

sig_script(sig) ==
    CASE sig.branch = "key" -> add_data(Bytes(65, sig.address))
      [] sig.branch = "reveal" -> reveal_sig(sig.secret, Redeem[sig.swap])
      [] sig.branch = "refund" -> refund_sig(Redeem[sig.swap])

Input(u, sig) == [id |-> u.id, amount |-> u.amount, sig |-> sig]
Output(amount, spk) == [amount |-> amount, spk |-> spk]
Transaction(inputs, outputs, lock_time) ==
    [inputs |-> inputs, outputs |-> outputs, lock_time |-> lock_time]

Spends(tx, id) == \E k \in DOMAIN tx.inputs : tx.inputs[k].id = id

utxo_is_mature(u) == ~u.is_coinbase \/ u.block_daa_score + coinbase_maturity <= tick

\* The inputs of tx are there, and no transaction of the pool takes them.
Available(tx) ==
    /\ \A k \in DOMAIN tx.inputs :
          \E u \in utxos : u.id = tx.inputs[k].id /\ utxo_is_mature(u)
    /\ \A k \in DOMAIN tx.inputs, p \in pool : ~Spends(p, tx.inputs[k].id)

\* What the opcodes of a lock read of a transaction, and the views that unlock.
View(tx, k, s) ==
    [swap |-> s, sig |-> tx.inputs[k].sig, index |-> k, inputs |-> Len(tx.inputs),
     outputs |-> Len(tx.outputs), amount |-> tx.inputs[k].amount,
     first |-> tx.outputs[1], lock_time |-> tx.lock_time]

Amounts == Deposits \cup {Commitments[s].amount : s \in Swaps}
Payments == {Output(a - SOLVER_REWARD - d, spk) :
                a \in Amounts, d \in {0, 1}, spk \in {us, other} \cup
                UNION {{Commitments[s].sender, Commitments[s].receiver} : s \in Swaps}}

Views ==
    [swap : Swaps, sig : LockSigs, index : 1..2, inputs : {2}, outputs : 1..2,
     amount : Amounts, first : Payments,
     lock_time : {0} \cup {unlock_ts_ms(Commitments[s]) : s \in Swaps}]

ViewUnlocks(v) ==
    Unlocks([inputs |-> [i \in 1..v.inputs |->
                            [amount |-> v.amount, sig |-> sig_script(v.sig)]],
             outputs |-> [i \in 1..v.outputs |-> v.first],
             lock_time |-> v.lock_time], v.index, Redeem[v.swap])

Unlocking == UNION {IF ViewUnlocks(v) THEN {v} ELSE {} : v \in Views}

\* It is final, funded, and unlocks what it spends.
Valid(tx) ==
    /\ tx.lock_time = 0 \/ tx.lock_time < past_median_time
    /\ Total(tx.inputs) >= Total(tx.outputs)
    /\ \A k \in DOMAIN tx.inputs : \A u \in utxos :
          u.id = tx.inputs[k].id =>
              IF u.spk \in Swaps THEN View(tx, k, u.spk) \in Unlocking
              ELSE tx.inputs[k].sig = sign_input(u.spk)

Accepts(tx) == Available(tx) /\ Valid(tx)

Recognised == [s \in Swaps |-> extract_commitment(Redeem[s])]
RedeemIn == [sig \in Sigs |-> last_redeem(sig_script(sig))]
Classified == [sig \in LockSigs |-> classify_spend(sig_script(sig), Redeem[sig.swap])]

\* scan_outputs: a registered lock that is paid has its refund scheduled; one
\* that is paid its target is committed.
scan_outputs(tx) ==
    LET outputs == ToSet(tx.outputs)
        matched == {s \in registered : Recognised[s].ok /\ \E o \in outputs : o.spk = s}
        target(s) == Commitments[s].amount
    IN  [refunds |-> matched,
         commitments |-> {s \in matched : \E o \in outputs :
                             o.spk = s /\ o.amount >= target(s)}]

\* scan_inputs: the event each input stands for, by the registered address of
\* the redeem script it carries.
Detected(i) ==
    IF RedeemIn[i.sig].ok /\ \E s \in registered : RedeemIn[i.sig].script = Redeem[s]
    THEN Classified[i.sig] ELSE NoEvent

scan_inputs(tx) == {Detected(tx.inputs[k]) : k \in DOMAIN tx.inputs} \ {NoEvent}

\* What a lock is owed, and which side of it output 0 of the spend pays.
Due(lock) == Max({lock.amount - SOLVER_REWARD, 0})

Fate(tx, lock) ==
    LET c == Commitments[lock.swap]
        out == tx.outputs[1]
        paid == out.amount >= Due(lock)
    IN  CASE paid /\ out.spk = c.receiver -> "claimed"
          [] paid /\ out.spk = c.sender -> "refunded"
          [] OTHER -> "lost"

\* Output 0 is counted for the largest of the locks a transaction spends first; it
\* would pay this one, but is used up before.
Shares(tx, lock) ==
    LET first == {l \in ToSet(locks) :
                    /\ Spends(tx, l.id)
                    /\ l.amount > lock.amount \/ (l.amount = lock.amount /\ l.id < lock.id)}
    IN  /\ Fate(tx, lock) # "lost"
        /\ tx.outputs[1].amount < Due(lock) + MapThenSumSet(Due, first)

Spent(tx, lock) ==
    IF ~Spends(tx, lock.id) THEN lock
    ELSE LET i == CHOOSE i \in ToSet(tx.inputs) : i.id = lock.id
         IN  [lock EXCEPT !.status = Fate(tx, lock), !.shared = Shares(tx, lock),
                          !.event = Detected(i), !.watched = lock.swap \in registered]

\* tx joins the chain and the node decodes it: outputs first, then inputs.
Include(tx) ==
    LET new == {next + k - 1 : k \in DOMAIN tx.outputs}
        at(id) == tx.outputs[id - next + 1]
        locking == SetToSortSeq({id \in new : at(id).spk \in Swaps}, <)
        closed == {e.swap_id : e \in scan_inputs(tx)}
    IN  /\ utxos' = {u \in utxos : ~Spends(tx, u.id)} \cup
                    {[id |-> id, spk |-> at(id).spk, amount |-> at(id).amount,
                      is_coinbase |-> FALSE, block_daa_score |-> 0] : id \in new}
        /\ locks' = [k \in DOMAIN locks |-> Spent(tx, locks[k])] \o
                    [k \in DOMAIN locking |->
                        [id |-> locking[k], swap |-> at(locking[k]).spk,
                         amount |-> at(locking[k]).amount, status |-> "locked",
                         shared |-> FALSE, event |-> NoEvent, watched |-> FALSE]]
        /\ registered' = registered \ closed
        /\ refunds' = (refunds \cup scan_outputs(tx).refunds) \ closed
        /\ known' = (known \cup scan_outputs(tx).commitments) \ closed
        /\ next' = next + Len(tx.outputs)

Mine ==
    /\ \E tx \in pool : Include(tx) /\ pool' = pool \ {tx}
    /\ UNCHANGED <<tick, reveals, commit, settle, budget>>

Tick ==
    /\ tick < Len(Clock)
    /\ tick' = tick + 1
    /\ UNCHANGED <<chain, pool, reveals, commit, settle, budget>>

\* The taker deposits; its transaction spends none of the outputs here.
Deposit(s, amount) ==
    /\ s \notin Ours /\ budget.deposits[s] > 0
    /\ Include(Transaction(<<>>, <<Output(amount, s)>>, 0))
    /\ budget' = [budget EXCEPT !.deposits[s] = @ - 1]
    /\ UNCHANGED <<pool, tick, reveals, commit, settle>>

\* A spend somebody else may try: any branch, any secret, any payee, the full
\* amount or less, the right number of outputs or not, paid for by its own coin
\* or by a second lock.
Foreign(u, v) ==
    LET c == Commitments[u.spk]
        sigs(w) == IF w.spk \notin Swaps THEN {sign_input(w.spk)}
                   ELSE {sig \in LockSigs : sig.swap = w.spk}
        first == {Output(u.amount - SOLVER_REWARD - d, a) :
                    d \in {0, 1}, a \in {c.sender, c.receiver, other}}
        rest(o) == {<<o>>, <<o, Output(v.amount, other)>>}
    IN  {Transaction(<<Input(u, x), Input(v, y)>>, outs, t) :
            x \in sigs(u), y \in sigs(v), outs \in UNION {rest(o) : o \in first},
            t \in {0, unlock_ts_ms(c)}}

ForeignSpend ==
    /\ budget.foreign > 0
    /\ \E u \in utxos, v \in utxos :
          /\ u.spk \in Swaps
          /\ u.amount > SOLVER_REWARD
          /\ v # u
          /\ v.spk \in Swaps \cup {other}
          /\ \E tx \in Foreign(u, v) : Accepts(tx) /\ pool' = pool \cup {tx}
    /\ budget' = [budget EXCEPT !.foreign = @ - 1]
    /\ UNCHANGED <<chain, tick, reveals, commit, settle>>

\* The secret of a commitment it holds reaches the node, from the other chain or
\* by gossip, where a secret has 32 bytes.
HearReveal(s) ==
    /\ s \in known \ reveals /\ Secret[s].len = 32
    /\ reveals' = reveals \cup {s}
    /\ UNCHANGED <<chain, pool, tick, commit, settle, budget>>
----------------------------------------------------------------------------
(* Fees. *)

fee_from_mass(mass, feerate) == Max({mass * feerate, 1})

\* Only the signed inputs count a signature operation.
calc_non_contextual_masses(tx, signed) ==
    LET size == 94 + 52 * Len(tx.inputs) + 53 * Len(tx.outputs)
    IN  [compute_mass |-> size + 10 * 36 * Len(tx.outputs) + 1000 * signed,
         transient_mass |-> size * TRANSIENT_BYTE_TO_MASS_FACTOR]

calculate_priority_fee(tx, signed, extra_sig_script_bytes, feerate) ==
    LET masses == calc_non_contextual_masses(tx, signed)
        total_sig_bytes == signed * SCHNORR_SIG_SCRIPT_SIZE + extra_sig_script_bytes
        mass == Max({masses.compute_mass + total_sig_bytes * MASS_PER_TX_BYTE,
                     masses.transient_mass
                        + total_sig_bytes * TRANSIENT_BYTE_TO_MASS_FACTOR})
    IN  fee_from_mass(mass, Min({feerate, MAX_FEERATE}))
----------------------------------------------------------------------------
(* Our commitments: one attempt each, see apply_event. *)

Own == {u \in utxos : u.spk = us}

\* Sets a prefix of the mature coins, in any order, may select: enough for the
\* amount, and not before the last one.  The fee is not looked at.
select_funding_utxos(amount) ==
    {T \in SUBSET {u \in Own : utxo_is_mature(u)} :
        /\ Sum(T) >= amount
        /\ \E u \in T : Sum(T \ {u}) < amount}

\* The commitment is cached before anything is submitted.
CommitRead(s) ==
    /\ budget.commits > 0
    /\ commit[s].pc = "idle"
    /\ budget' = [budget EXCEPT !.commits = @ - 1]
    /\ known' = known \cup {s}
    /\ LET T == select_funding_utxos(Commitments[s].amount)
       IN  \/ \E sel \in T : commit' = [commit EXCEPT ![s] =
                    [pc |-> "submit", coins |-> SetToSeq(sel)]]
           \/ T = {} /\ commit' = [commit EXCEPT ![s] = [pc |-> "failed"]]
    /\ UNCHANGED <<utxos, locks, registered, refunds, next, pool, tick, reveals,
                   settle>>

\* mutant: the change is left to the miners
commitment_tx_keeps_no_change(s, coins, change) ==
    Transaction([k \in DOMAIN coins |-> Input(coins[k], sign_input(us))],
                <<Output(Commitments[s].amount, s)>>, 0)

commitment_tx(s, coins, change) ==
    Transaction([k \in DOMAIN coins |-> Input(coins[k], sign_input(us))],
                <<Output(Commitments[s].amount, s)>> \o
                    (IF change > 0 THEN <<Output(change, us)>> ELSE <<>>), 0)

\* The commitment as submitted at this fee rate, if the coins pay for it.
submit_commitment(s, coins, feerate) ==
    LET amount == Commitments[s].amount
        preliminary == commitment_tx(s, coins, Total(coins) - amount)
        fee == calculate_priority_fee(preliminary, Len(coins), 0, feerate)
    IN  IF feerate >= 0 /\ Total(coins) >= amount + fee
        THEN {commitment_tx(s, coins, Total(coins) - amount - fee)} ELSE {}

\* A submitted commitment is announced and registered; one that is refused,
\* unaffordable or not answered in time is given up, though it may be included.
CommitSubmit(s, feerate) ==
    /\ commit[s].pc = "submit"
    /\ LET txs == {tx \in submit_commitment(s, commit[s].coins, feerate) : Accepts(tx)}
       IN  \/ /\ txs # {}
              /\ pool' = pool \cup txs
              /\ commit' = [commit EXCEPT ![s] = [pc |-> "announced"]]
              /\ registered' = registered \cup {s}
           \/ /\ pool' \in {pool, pool \cup txs}
              /\ commit' = [commit EXCEPT ![s] = [pc |-> "failed"]]
              /\ UNCHANGED registered
    /\ UNCHANGED <<utxos, locks, known, refunds, next, tick, reveals, settle, budget>>
----------------------------------------------------------------------------
(* The settler. *)

\* mutant: the refund is tried in the very millisecond of the unlock time
RefundDueEarly(s) == past_median_time >= unlock_ts_ms(Commitments[s])

RefundDue(s) == past_median_time > unlock_ts_ms(Commitments[s])

branch_sig_script(s, action) ==
    IF action = "Claim" THEN reveal_of(s, Secret[s]) ELSE refund_of(s)

\* The fee coin is the first mature one, in any order.
prepare_fee_utxos == {u \in Own : utxo_is_mature(u)}

Job(s, action, todo, fee_utxo) ==
    [pc |-> "spend", swap |-> s, action |-> action, todo |-> todo, fee_utxo |-> fee_utxo]

\* settle_claim and settle_refund up to the first submission.
Prepare(s, action) ==
    /\ settle = Idle
    /\ s \in known
    /\ IF action = "Claim" THEN s \in reveals ELSE s \in refunds /\ RefundDue(s)
    /\ LET htlc_utxos == {u \in utxos : u.spk = s}
       IN  /\ htlc_utxos # {}
           /\ \E fee_utxo \in prepare_fee_utxos :
                 settle' = Job(s, action, htlc_utxos, fee_utxo)
    /\ UNCHANGED <<chain, pool, tick, reveals, commit, budget>>

spend_outputs(dest_amount, reward, dest_spk) ==
    <<Output(dest_amount, dest_spk), Output(reward, us)>>

\* One round of submit_htlc_spend: the transaction, if it can be built.
submit_htlc_spend(job, u, feerate) ==
    LET c == Commitments[job.swap]
        claim == job.action = "Claim"
        dest == IF claim THEN c.receiver ELSE c.sender
        dest_amount == u.amount - SOLVER_REWARD
        reward_pre == SOLVER_REWARD + job.fee_utxo.amount
        spend(reward) == Transaction(
            <<Input(u, branch_sig_script(job.swap, job.action)),
              Input(job.fee_utxo, sign_input(us))>>,
            spend_outputs(dest_amount, reward, dest),
            IF claim THEN 0 ELSE unlock_ts_ms(c))
        fee == calculate_priority_fee(spend(reward_pre), 1,
                                      IF claim THEN 300 ELSE 260, feerate)
        reward == reward_pre - fee
    IN  IF /\ dest_amount >= 0
           /\ feerate >= 0
           /\ reward >= MIN_REWARD_OUTPUT_SOMPI
        THEN {spend(reward)} ELSE {}

\* The first round that fails ends the loop; an unanswered one may have worked.
SpendRound(u, feerate) ==
    /\ LET txs == {tx \in submit_htlc_spend(settle, u, feerate) : Accepts(tx)}
           left == settle.todo \ {u}
       IN  \/ /\ txs # {}
              /\ pool' = pool \cup txs
              /\ settle' = IF left = {} THEN Idle ELSE [settle EXCEPT !.todo = left]
           \/ /\ pool' \in {pool, pool \cup txs}
              /\ settle' = Idle
    /\ UNCHANGED <<chain, tick, reveals, commit, budget>>
----------------------------------------------------------------------------
Next ==
    \/ Mine
    \/ Tick
    \/ \E s \in Swaps : \E amount \in Deposits : Deposit(s, amount)
    \/ ForeignSpend
    \/ \E s \in Swaps : HearReveal(s) \/ Prepare(s, "Claim") \/ Prepare(s, "Refund")
    \/ \E s \in Ours : CommitRead(s) \/ \E r \in FeeRates : CommitSubmit(s, r)
    \/ /\ settle.pc = "spend"
       /\ \E u \in settle.todo, r \in FeeRates : SpendRound(u, r)

Spec == Init /\ [][Next]_vars
----------------------------------------------------------------------------
Status(k) == IF k \in DOMAIN locks THEN locks[k].status ELSE "none"
\* A lock whose payment went to another one is not followed to its end.
Held(k) == IF k \in DOMAIN locks /\ locks[k].shared THEN "locked" ELSE Status(k)
Opens(s) == unlock_ts_ms(Commitments[s]) + 1
Deadline(k) == IF k \in DOMAIN locks THEN Opens(locks[k].swap) ELSE 0
Times == {0} \cup Range(Clock) \cup {Opens(s) : s \in Swaps}

Lock1 == INSTANCE Escrow WITH
    Swaps <- {1}, Times <- Times, ClaimExpires <- FALSE, now <- past_median_time,
    status <- [i \in {1} |-> Held(i)], deadline <- [i \in {1} |-> Deadline(i)]

Lock2 == INSTANCE Escrow WITH
    Swaps <- {2}, Times <- Times, ClaimExpires <- FALSE, now <- past_median_time,
    status <- [i \in {2} |-> Held(i)], deadline <- [i \in {2} |-> Deadline(i)]

Lock3 == INSTANCE Escrow WITH
    Swaps <- {3}, Times <- Times, ClaimExpires <- FALSE, now <- past_median_time,
    status <- [i \in {3} |-> Held(i)], deadline <- [i \in {3} |-> Deadline(i)]

\* Every output locked by create_htlc_script is an escrow whose claim path stays
\* open: whoever spends it, output 0 pays its value less the reward to the
\* receiver, or to the sender after the unlock time.  When one transaction spends
\* two locks this holds of the larger one only, because each script looks at
\* output 0 on its own: the other is excepted.
HtlcIsEscrow == Lock1!Spec /\ Lock2!Spec /\ Lock3!Spec

\* What the decoder reports of a spend of a registered lock is what happened:
\* the branch that paid, the swap, and the secret that opens its hash.  A claim
\* whose secret has not 32 bytes, which the script allows, is not reported; it is
\* never taken for a refund.
SpendsAreSeen ==
    \A k \in DOMAIN locks :
        LET l == locks[k]
            c == Commitments[l.swap]
        IN  l.watched =>
                \/ /\ l.status = "claimed" /\ Secret[l.swap].len = 32
                   /\ l.event.type = "Reveal"
                   /\ l.event.swap_id = c.swap_id
                   /\ Sha256[l.event.secret] = c.secret_hash
                \/ /\ l.status = "claimed" /\ Secret[l.swap].len # 32
                   /\ l.event = NoEvent
                \/ /\ l.status = "refunded"
                   /\ l.event = [type |-> "Refund", swap_id |-> c.swap_id]

\* A claim or refund the settler builds is refused only because the wallet or
\* somebody else was faster: the script, the balance and the lock time are right
\* whatever the fee rate.
OwnSpendsAreValid ==
    settle.pc = "spend" =>
        \A u \in settle.todo, r \in FeeRates : \A tx \in submit_htlc_spend(settle, u, r) :
            Available(tx) => Valid(tx)

Pending(k) ==
    /\ Status(k) = "locked"
    /\ locks[k].swap \in known \cap (refunds \cup reveals)
    /\ \A u \in utxos : u.spk = locks[k].swap => u.amount >= SOLVER_REWARD

\* The wallet never starves the settler.  Once the pool is empty and the times
\* are past, a lock it has an action for is spendable with any coin it may pick
\* and it has one: commitments return their change, settlements their reward,
\* whichever of the two tasks lost the race for a coin.  An output below the
\* reward at the address is excepted, it ends every attempt.
SettlerNeverStarves ==
    \A k \in DOMAIN locks :
        (pool = {} /\ tick = Len(Clock) /\ Pending(k)) =>
            /\ prepare_fee_utxos # {}
            /\ \A coin \in prepare_fee_utxos, u \in utxos :
                  u.id = locks[k].id =>
                      LET action == IF locks[k].swap \in reveals THEN "Claim" ELSE "Refund"
                      IN  \E tx \in submit_htlc_spend(Job(locks[k].swap, action, {u}, coin),
                                                      u, Min(FeeRates)) : Accepts(tx)
=============================================================================
