# A verification development for Stroemnet

Stroemnet is a peer-to-peer network for cross-chain swaps. A taker asks for a
quote, deposits on one chain under a hash and a timelock, a liquidity provider
(LP) locks a counter on another chain under the same hash, the taker reveals the
secret to take the counter, and the LP uses the secret to take the deposit.
This directory holds TLA+ modules of the parts of the code that decide whether
that goes right, TLC configurations that model-check them on small instances, and
TLAPS proofs of the most important facts for every instance.

`PROJECT.json` lists the runs, says which lines each definition models (`map`),
which changed definition breaks each property (`mutants`), which hazards of the
code each property is about, and where the code and its own words disagree
(`findings`).

- [1 The system](#1-the-system)
- [2 Modules and code](#2-modules-and-code)
- [3 Runs and what they show](#3-runs-and-what-they-show)
- [4 Fairness](#4-fairness)
- [5 Proofs](#5-proofs)
- [6 Where code and comments disagree](#6-where-code-and-comments-disagree)
- [7 Behaviour no property excludes](#7-behaviour-no-property-excludes)
- [8 Not modelled](#8-not-modelled)
- [9 Plan](#9-plan)

## 1 The system

A process is a daemon, in the role of LP or of observer, or a taker (the wasm
gateway). A daemon that takes part in CCR (`participate_ccr`) also carries out
claims and refunds for a reward.

| Part | Code | State | Operations | Talks to |
|---|---|---|---|---|
| Contract | `contracts/ethereum` `StroemHTLCV1.sol` | swaps, used hashes, balance, events | newSwap, claim, refund | EVM channels, by events |
| EVM intake | `data/chains/evm` finality, poll, connect | cursor, stored cursor, pending range | poll_finalized, restart | driver loop |
| EVM settlement | `data/chains/evm` emit, persist, track, settle, replace | pending_refunds, pending_claims, nonces, gas prices | track_actionable_event, emit_reveal, settle, commit | retry queue, store, pool |
| Settlement engine | `data/chains/settlement`, `record` | retry queue, attempts, swap store | drive, reconcile, restore | both channels |
| Kaspa channel | `data/chains/kaspa` | block buffer, cursor, scripts, commitments, intents, wallet | intake, decode, emit, settle, commit, restart | driver, peers, queue, store |
| Kaspa script | `data/chains/kaspa` contracts, decode | none | create, recognise, classify a spend | Kaspa channel |
| Driver and sink | `data/sink`, `node/node` | the current batch | finalized_chunk, apply_event | handler, channels |
| Handler and tracker | `handler` | one SwapRecord per swap | on_chain_event, mirror, resolve | driver, peer tasks |
| Prices and quotes | `node/oracle`, `amounts`, `handler`, `node/coordinator` | price storage | fetch, aggregate, quote, check, counter | gossip, driver |
| Peer links | `p2p/network`, `node/connection` | connected_peers, blacklist, dial queue | dial, accept, resolve, read, remove | gossip |
| Gossip | `p2p/gossip`, `node/coordinator` | SeenSet, what is on the wire | forward, request, announce, reveal | handler, channels |
| Taker | `wasm`, `node/claim.rs` | node, event queues, listeners, pending claims | connect, request_quote, register_commitment, reveal | gossip |
| Daemon and storage | `node/config`, `node/build`, `storage` | configuration; tables of swaps, cursors, peers, quarantine | load, connect, restore, save | all |

What makes it hard: several tasks share state behind several locks and do one
operation under more than one of them; a kill may fall between any two of those
steps, with part of the state on disk and part only in memory; RPC calls fail or
time out after they took effect; chains reorganise their unconfirmed end; two
chains have two clocks, of which the LP holds cached readings; a price is read
twice and may have changed; two tasks spend from one wallet; connections cross,
repeat and break; gossip is duplicated, reordered and lost.

What correctness means here, and where it is stated:

1. money: each escrow pays once, whole, to the right side of its timelock
   (`Escrow`, `StroemHTLC`, `KaspaScript`, `KaspaLedger`), a swap is settled on both
   chains or on neither (`AtomicSwap`), and an LP keeps its spread (`Quotes`);
2. knowledge: what a node acts on is final, complete and in order (`EvmPoll`,
   `KaspaChannel`), and its record never runs ahead of the chains (`SwapHandler`);
3. persistence: a scheduled claim or refund survives races and kills and is
   eventually carried out or dropped (`Settlement`, `EvmTx`, `KaspaChannel`), and
   what was stored is what is restored (`Daemon`);
4. communication: nodes end up connected, floods end, the secret is not let out
   before its counter and then reaches everybody (`PeerLinks`, `Rfq`), and the page
   hears all of it (`Gateway`).

## 2 Modules and code

Names follow the code where TLA+ allows it. A definition whose comment begins
with "Mutant" is a plausible bug; nothing uses it in the specification proper.

**Escrow** is the abstract specification: `Lock`, `Claim`, `Refund`, `Tick` over
`status`, `deadline` and `now`. `ClaimExpires` distinguishes the contract, whose
claim path closes at the timelock, from the Kaspa script, whose does not.

**StroemHTLC** (`StroemHTLCV1.sol`): one action per external function, guarded
by its `require`s; the transfers at the end can fail and then the whole
transaction reverts. Hashing is a function from secrets to hashes. An account in
`Rejecting` refuses ether. Refines `Escrow`.

**EvmPoll** (`evm/finality.rs`, `poll.rs`, `connect.rs`): `poll_finalized` in four
steps (block number, logs, save the cursor, track), interleaved with mining,
reorganisations of unconfirmed blocks, failing calls and kills. History variables
record what was tracked, handed on and cut off.

**Settlement** (`evm/emit.rs`, `persist.rs`, `settlement/engine.rs`, `queue`,
`record/restore.rs`): driver, peer and settler tasks, a step per lock held; the
snapshot that `persist_swap` takes under the lock and saves after it is kept in
the task. A kill restarts from the store and reconciles. When an attempt is due
or past its deadline is nondeterministic.

**EvmTx** (`evm/settle.rs`, `replace.rs`, `emit.rs`, `record/attempt.rs`): what
`Settlement` leaves out of an attempt. The settler reads the price and the nonce,
saves them, sends, waits for the receipt; the driver sends commitments from the
same account; a second emission of a reveal writes the row again. The pool with its
replacement rule, the blocks, the fee market and evictions are external.

**SwapHandler** (`handler`, `sink/forward.rs`, `node/apply.rs`,
`coordinator/dispatch.rs`): the events of one swap through the driver loop and
`on_chain_event` to the record and the effects, with the peer task that hears the
reveal by gossip. A kill loses the tracker, and the process starts again from
whatever cursors its channels had stored: past events that were never handled, or
before some that were. Gossip is honest (section 8).

**AtomicSwap** (`handler/handle/commitment/mirror.rs`, `evm/buffer.rs`,
`node/apply.rs`, `node/claim.rs`): both legs against real time: the LP's cached
clocks, the check that the deposit's remaining lock is twice the counter's,
counters in flight, the taker's reveal on sight of the counter, claims and refunds.
Each leg is shown to be an `Escrow` on its own clock, so the module composes with
`StroemHTLC` and `KaspaLedger`: it asks nothing more of a chain.

**KaspaScript** (`kaspa/contracts/script.rs`, `contracts/extract`, `decode`): the
lock as a sequence of opcodes run by a small stack machine over the spending
transaction, the recogniser of that sequence, the commitment read back from it, and
the classification of a spend. Numbers are their real bytes with the sign bit,
because the script builder's choice of push depends on them. What an opcode does is
external (kaspa-txscript).

**KaspaLedger** (`kaspa/broadcast`, `settle.rs`, `emit.rs`, `decode`): coins,
amounts and fees of a node whose commitments and settlements take coins from one
wallet without a lock between reading and submitting, beside a taker and another
settler that spend the same locks, with secrets of 32 bytes and of 33. Every lock
refines `Escrow`; of two locks spent with one payment the one that the payment does
not cover is not followed to its end (section 7).

**KaspaChannel** (`data/chains/kaspa`): the bounded block channel between intake
and driver, decoding against registered scripts, the maps, the queue and the
store, counter locks of this node, kill and restart. One swap, one output per
address. An announcement brings the swap's script or another under the same id,
which takes its place in `scripts` and on disk. Every transaction of a confirmed
block is taken as accepted, since the code does not look at acceptance data.
`persist_swap` is one step here; `Settlement` has the races of its two.

**Quotes** (`node/oracle`, `amounts`, `handler/handle/proposal.rs`,
`node/coordinator`): sources, retries, the robust price, the price storage, the
LP's quote with its signature and balance, the taker's check, the deposit, and the
price of the counter, in integers with the roundings of the code. `spread_bps` is what
the cast of the configured percentage to basis points yields: the whole part, or one
less where the product of the float falls short. Every read and write of a price is a
step.

**PeerLinks** (`p2p/network/dial.rs`, `node/connection`): the bootstrap redial
loop, the discovery drainer, inbound permits, and `read_from_peer_tracked` at each
end of a connection, a step per lock: blacklist, lookup, replace, add, read,
leave.

**Rfq** (`p2p/gossip`, `network/relay.rs`, `coordinator`, `node/claim.rs`, `wasm`):
one request, its quote, the announcement of the deposit and the reveal over a
network of links with FIFO wires, SeenSets and one dispatch loop per node. The
taker's record and pending claim decide when the secret leaves.

**Gateway** (`wasm`): construction and its configuration, overlapping `connect()`
calls, the node's events sent from the moment its tasks run, the drains, listeners
registered at any time, the peer-count poll, and the registration of a commitment.

**Daemon** (`node/config`, `node/node/build.rs`, `storage`, `record/codec.rs`,
`restore.rs`): what a configuration may say and what is refused, connecting the
channels one by one with what each restores, the tasks that are started, every write
to the tables, failing reads and writes, rows damaged while it is down, kills and
reconfigurations. **Chains** declares the constants it shares with `Quotes`.

The MC modules give the constants of an instance. Four of them,
**MCContract, MCSettlement, MCKaspa, MCNode**, look at two or three components that
share no state, one after the other: a variable `part` says which, and the others
stay as they started. **MCAtomicSwap, MCPeerLinks, MCRfq** have one component each.
The modules ending in **Proofs** hold the proofs (section 5).

## 3 Runs and what they show

States are distinct states.

| Run | States | Instance |
|---|---|---|
| `contract` | 87,485 | contract: two usable ids, hashes and secrets and the zero ones, one account that refuses ether, two amounts, times 0..2; handler: one swap, LP or observer, one kill |
| `evm_poll` | 57,178 | 2 confirmations, ranges of 2, height 6, one reorganisation, one kill |
| `evm_poll_miss` | violation | the same, two reorganisations |
| `settlement` | 2,386,132 | queue: one swap, reveals from driver and peer, one kill; transactions: a claim and a refund, two prices, one bump below the cap, with evictions, commitments, a second emission and a kill in turn |
| `settlement_live` | about 149,000 | one swap, reveals from the driver, one kill |
| `handler_restart` | violation | one swap, one kill |
| `atomic_swap` | 654,244 | counter lock 8, readings up to 1 old, skew 1, reaction 1, deposits of 15..17, times up to 20, Igra to Kaspa |
| `kaspa` | 270,495 | ledger: a deposit, one under a secret of 33 bytes and a counter, three coins, two fee rates, two deposits, or one and a commitment, or one under the long secret, one foreign spend; channel: 1 block, two of messages and kills |
| `kaspa_underpaid` | violation | channel of 1 block, 1 message, no kill |
| `p2p` | 621,633 | 2 nodes, 2 connection slots, one address learned, 2 faults, or one and a ban |
| `rfq` | 119,518 | taker, LP and observer in a triangle, the request asked twice, one broken link |
| `node` | 2,037,586 | quotes: Kaspa and Igra, one token with 1 and 10 units, three sources of which one is faulty, times 0..3; gateway: two calls, two listeners, two events a kind; daemon: two channels, five configurations, two boots |

**contract.** `Solvency`: the contract holds exactly the sum of the open swaps.
`SecretOpensOneSwap`: no two swaps share a hash. `LogTellsStorage`: events and
storage agree, also when a transfer fails. `ImplementsEscrow`: refinement. Three
times put an action before, at and after a timelock; 1000 and 1500 with a
denominator of 1000 make the rounding of the reward matter. Of the handler:
`RecordAgrees` (the record never runs ahead of the chains), `OneCounter` (a process
counters a deposit once at most, and not at all if it started past the deposit),
`ResolutionIsFinal`, and `LpClaimsUnlessRestarted` (liveness).

**evm_poll.** `TrackedIsFinal`; `TrackedExactlyOnce`: what is tracked is in order,
once, and complete but for what a kill cut off; `ConfirmedIsHanded` (liveness).
Height 6 allows three ranges, one of them partial, after the confirmations.

**settlement, settlement_live.** `OpenIsNotForgotten`: an intent without a queue key
belongs to a settled swap, and a tracked open swap keeps its refund. Under fairness
`ScheduledIsSettled` and `ClaimReachesDisk`. Swaps share no state but the maps, the
lock order and the settler's turn, so one swap with both of its keys has the races
of interest. Liveness is checked with the driver as the only emitter, because the
product with the peer task is too large for it. Of the transactions:
`OneLiveTransaction` (the pool never holds two transactions of one action),
`BumpIsAccepted` (a replacement is not refused as underpriced before the cap) and
`NoNonceGap` (a kept nonce never lies past the account's next one unless the network
lost a transaction). A scenario of `MCScenarios` allows two disturbances at most;
all of them at once are too many states.

**atomic_swap.** `SwapIsAtomic`: no leg is claimed while the other is refunded, which
is what the LP and a taker that reveals on sight of the counter both rely on; and
`LegsAreEscrows`: both legs refine `Escrow`. The values leave exactly the margins:
`2*1 + 1 + 4*1 = 7 < 8` and `3*1 + 1 + 2*1 = 6 < 8`. The deposit of 15 is refused
unless a reading is stale or skewed, 16 and 17 are accepted or not according to the
readings.

**kaspa.** Of the ledger: `HtlcIsEscrow`: whoever spends a lock, output 0 pays its
value less the reward to the receiver, or after the unlock time to the sender; of two
locks spent together it pays the larger at least. `SpendsAreSeen`: the decoder reports
of a spend what happened, and nothing of a claim with a secret that has not 32 bytes.
`OwnSpendsAreValid`: a claim or refund the settler builds is refused only
because a coin or the lock is already spent. `SettlerNeverStarves`: the wallet can
always pay for what is pending. The unlock times 1 s and 33 s differ in the bytes of
their milliseconds, the destinations 17 and 0 in how they are pushed; the clock
stands before, at and after the first unlock time, and past the second. Of the
channel: `CursorPassesHanded`: the cursor passes no block that was not handed on.
`StaysSettleable`: what was tracked can be settled, whatever script is announced
under its id, and so can what is on disk unless the last script announced was another.
`ScheduledIsSpent` (liveness). A channel of one block fills in the middle of a flush.

**p2p.** `ListedIsRead`: no entry of `connected_peers` without a reader.
`BannedStaysOut`. `Converges` (liveness): a node and its bootstrap peer end up
joined by an open connection that both ends read, unless the redial loop gave up
or one banned the other. It promises no more than that (section 7). Two slots let
two connections cross or repeat.

**rfq.** `HandledOnce`, `SecretNeedsCounter`, and under fairness `FloodEnds`,
`RevealSpreads`, `DirectIsAnswered`. A triangle is the smallest network in which a
relayed copy overtakes the direct one and a break leaves another path. The cap of
the SeenSet holds all three flooded messages of the swap; a smaller cap floods
again, as the code would once 50,000 newer messages have passed.

**node.** `PricedNearMarket`: with one faulty source, a price handed out is within
11/9 of a price the market had during the last maximum age and fetch time.
`LpKeepsItsSpread`: neither quote nor counter pays more than the deposit is worth
less the spread, but for the one basis point that the cast of the spread may lose
(0.29 per cent is 28 basis points in the instance, as in the code).
`QuoteIsHonoured`: a taker that deposits what it was quoted is refused only when it was
late or the price moved, and is paid what was quoted when it did not. The amounts are not multiples of the units, so that every division
rounds.
`EarlyListenersMissNothing`: one node at most, and a listener registered before
`connect()` returned hears everything in order. `MemoryIsWhatWasStored`: a channel
knows of a swap what it last stored, across restarts and reconfigurations, except
for what was damaged or failed. `RunningLpIsWhole`: an LP that runs can price, settle
and counter on every channel it quotes on.

`AtomicSwap`, `EvmPoll` and `StroemHTLC` state a type invariant. It is proved
(section 5) and needs no run.

`CHECK_DEADLOCK FALSE` stands where the system may rest: a settled swap, a used-up
bound, or nodes that have nothing to say.

## 4 Fairness

Only what the process itself schedules is fair; nobody is obliged to deposit, ask,
lock or reveal.

- *Tasks and loops run* (`WF` of driver, peer, settler, intake, dispatch, dial and
  read steps): they are tokio tasks without a condition to stop.
- *A retried call is answered some time* (`SF` of the answered RPC calls in
  `EvmPoll`, and of an attempt in a healthy tick in `Settlement` and
  `KaspaChannel`): the polls repeat and the backoff is bounded. This is an
  assumption about the chain's endpoint: without it nothing can be settled.
- *Chains go on*: blocks are mined and confirmed, timelocks pass.
- *Queued claims are carried out* in `SwapHandler`. This is an assumption: the two
  modules share no state, and `settlement_live`, which checks that a scheduled action
  settles in `Settlement`, does not establish it (section 9).
- Links need not come back; a dial that the network does not fail succeeds.

Liveness properties about nodes that may be killed speak of the time after the
last kill, or except the kill in so many words.

## 5 Proofs

`tlapm` checks every proof; each theorem holds for all values of the constants allowed
by the named assumptions, which TLC evaluates on the instances. A proof module has one
part per component, and some components share a module.

**ContractProofs**: `TypeCorrect`, `SecretsAreSingleUse`, `EventsAreTrue`,
`Refinement`, `NoFundsRemain`, `SettlementsAreFunded`. The inductive invariant adds
`StorageInv` (the hash of every swap is in the registry, and only initialized swaps are
finalized): the guard of `newSwap` looks at the registry, the invariants speak of the swaps. The refinement
reads the status of a finalized swap from its event, so it rests on `LogTellsStorage`.
`NoFundsRemain` is `Solvency`: the balance is the sum of the open swaps. The sum is a
fold over a finite set, of which the provers know nothing; `TotalIsFold`, `SumsAgree`
and `SumExists` establish, by taking a least subset where it fails, that it is the one
function with the empty sum zero that grows by each member's amount. From there
`NewSwapPaysIn` and `SettlementPaysOut` say that both sides of the equation move by the
same amount, also when the settler's reward is taken from the payout. Because a sum of
naturals is at least each of them, no transfer of a settlement lacks the funds
(`SettlementsAreFunded`).

**EventProofs**, the EVM events: `TypeCorrect`, `TrackedStaysFinal`, `ExactlyOnce`,
`CursorAdvances`, for every number of confirmations, size of range, chain and number
of kills. The invariant adds `ChainInv` (final blocks lie below the confirmed end),
`ControlInv` (what cursor, disk and range are at each step), `LogsInv` (the fetched
logs are exactly the final blocks of the range) and `CompleteInv` (the heights below
the cursor are tracked, lost or fetched).

**EvmTxProofs**: `NoSecondTransaction`, `RetriesOutbid`,
`NoncesHaveNoGap`, for any keys, prices, cap, number of bumps, evictions and restarts
(`TxAssumption`). In the invariant `TxInv`, `Owned` says that a key's transaction has
the nonce of its attempt, pays no more than the attempt's last price, and that disk
and memory agree; `Working` ties the settlement in progress to the attempt it copied,
so a new nonce is taken only when the account has passed the old one; `Bidding` says
the price it carries outbids what the pool holds, or is the cap; `GapInv` bounds every
nonce, on disk and in a row on its way there, by the next free one. Two lemmas are
inductions: `BumpedNat`, that the loop of `escalated_gas` is well defined and yields
numbers, and `PendingIsFree`, that the pending count is a free nonce and the first
one. A row put back by a late save is excepted by the first two properties, and a
nonce after the network dropped a transaction by the third, and so by the theorems.

**SwapProofs**, the two legs: `TypeCorrect`, `Atomicity`, `WindowsNeverOverlap`,
`LegsRefineEscrow`, from `SwapAssumption` and

    MarginAssumption == Exposure + max_age + 4 * Skew < lock_time_secs
    RevealAssumption == 3 * Reaction + max_age + 2 * Skew < lock_time_secs

where `Exposure` is the LP's reaction time, twice that when the counter is on Kaspa,
where a claim can still come between the timelock and the LP's refund. The first is
the LP's margin, the second the taker's: the time in which the counter lands, is seen,
and is claimed with the secret. `ClocksClose` and `ReadingsClose` bound clocks and
readings by real time; `Gap` turns the LP's check of readings into a distance between
the two timelocks; `SentBound`, `OpenBound`, `SecretBound`, `DepositBound`,
`ClaimedBound` and `RefundedBound` carry that distance through the life of the
counter. The assumptions are conditions on a deployment. `Reaction` includes the
confirmations a node waits for, and `min_confirmations`, which a daemon must set
(`config/spec.rs:75`), is not compared with the lock time. Thirty Kaspa confirmations,
the value of the repository's README, are a few seconds against a Kaspa lock of 180 s;
the channel's own default of 6000 (`kaspa/config.rs:6`), which is meant as ten
minutes, would break the assumptions for a counter on Kaspa whose claim the LP learns
of only from the chain. The refinement needs one more fact, `InTime`: clocks and
timelocks stay within the times the escrow ranges over. It assumes that the bound
`MaxTime` of the run is at least the skew.

**StoreProofs**, the Kaspa channel: `CursorIsBehind`, `SwapStaysSettleable`, for every
chain, capacity, number of gossiped scripts and number of kills, and for nodes that
settle and nodes that do not. Both rest on `TaskType`, where the tasks stand.
`IntakeInv` orders what intake counts: the cursor is at most what was sent, which is at
most what is confirmed, and without a kill what was sent is decoded or in the channel.
`SettleInv` says what holds while the output is not spent (`OpenInv`): no claim or
refund is in a block, so the driver is on no path that forgets the swap; a map entry
that needs a script has one, in memory and on disk (`Scripted`: its own, or another
announced under its id); and a pending refund is queued.

**SwapProofs**, the swap handler: `RecordsAgree`, `NeverTwoCounters`,
`ResolutionsAreFinal`, for any number of restarts from any stored cursors.
`RecordAgrees` needs `Truthful` (no event in a log or in the batch before what it
reports) and `Control` (what driver and peer task know at each step). `OneCounter`
needs `OneOpening`: the deposit's event can only be the first of its channel's log
(`OpensFirst`), so it is in a batch only of a process that started before it, once,
and no longer when its counter has been sent.

**QueueProofs**, the gateway: `NothingMissed`, for any number of calls, listeners and
events. `StartsOnce` counts how often `Node::start` may still be entered; `Delivered`
says that nothing is received before the node is stored, so that a listener that came
early has missed nothing.

**StoreProofs**, the daemon: `StoredIsRestored`, `LpsAreWhole`, for all channels,
swaps, records, configurations and restarts. `StoreInv` ties each row to what its
channel last wrote (`Row`) beside what the memory holds; `ProcInv` says what a
connecting or running process has already passed: a configuration that was accepted,
and addresses of every channel with a key among those connected.

**QuotesProofs**: `SpreadIsKept`, for every pair of decimals where one unit divides
the other, spread, price and amount (`ChannelsAssumption`, `SpreadAssumption`,
`RequestsAssumption`). The arithmetic is one lemma, `AmountOutKeepsSpread`: three
divisions, each rounding down, after a cast that is at most one basis point short.
The invariant carries the prices from the step that
read them to the step that used them. `QuotesAreHonoured` (`LockAssumption`: lock
times and buffer are numbers) follows what is checked, deposited and mirrored back to
the one quote (`HonouredInv`); that the LP's own signature verifies once the chain
answers is the lemma `OwnSignatureVerifies`.

`PricesAreNear` is for every set of market prices and volumes, whatever the faulty
source answers (`SampleAssumption`: prices and volumes are integers, negative and zero
ones included; `FaultAssumption`: a price needs two sources that agree, and one at
most is faulty). The argument about one sample: the median of natural numbers is one
(`MedianIsWhole`), so any two sources kept are within the factor 11/9 of each other
(`AgreeingPrices`); one of them is not faulty (`OneIsRight`); and a mean, weighted or
not, is as near to that one as each of its terms is (`SumsCompare`, `WeightedIsNear`,
`MeanIsNear`). Over time, `MarketInv` says of a price being fetched how long the fetch
has lasted, of one about to be set and of one stored when the market last asked a
price near it.

**QueueProofs**, the settlements: `NoneForgotten`, for any swaps, reveals and kills. An
intent without a key is either about to get one from the task that pushed it, or its swap is
settled (`Scheduled`): a key leaves the queue only on an event or a look at the chain
that says so (`Tells`, `Resolving`), and the chain only moves on. After a kill every
restored intent has a key, because `seed_queue` ensures one.

**PeerLinksProofs**: `EveryPeerIsRead`, `BansHold`, for any nodes, connections and
bounds. An entry belongs to a connection in use, one end of which is here and is
reading or leaving (`Reads`); an end past the blacklist check belongs to a node that
had not banned its peer when the connection was made (`Bans`, `Cleared`).
`RetainedType` is about the list `retain` leaves; it rests on `KthExists`, an
induction.

**EventProofs**, the gossip: `SecretIsPaidFor`, for every network, number of repeated
requests and cap of the SeenSets (`RfqAssumption`). Until a paying counter was seen no reveal is on
a wire or in a SeenSet, so no node can forward one. `ActedOnOnce` assumes that a
SeenSet has room for the three messages of the one swap modelled (`SeenAssumption`):
the code's sets hold 50,000, and a set that other traffic has filled may evict.

**Induction.** The provers cannot instantiate the library's induction theorems. Where
an induction is needed the proofs take a least counterexample instead: `LeastNat` and
`MinimalSubset`, from the well-foundedness of the strict subsets of a finite set.

**Only model-checked**: all liveness (`Converges`, `FloodEnds`, `RevealSpreads`,
`DirectIsAnswered`, `ScheduledIsSettled`, `ClaimReachesDisk`, `ScheduledIsSpent`,
`ConfirmedIsHanded`, `LpClaimsUnlessRestarted`); and what the Kaspa script computes
and the ledger under it (`SpendsAreSeen`, `OwnSpendsAreValid`, `SettlerNeverStarves`,
`HtlcIsEscrow`), which run the script's stack machine.

## 6 Where code and comments disagree

- `evm_poll_miss`: `poll_finalized` saves the cursor before it tracks the logs; a
  kill in between skips those blocks for good, where `finality.rs:16-17` says that
  PollState "ensures that we never miss a block".
- `handler_restart`: the tracker is empty after a restart and the cursors may be past
  the commitments; then the claim of the counter on chain is refused as an unknown
  swap and the LP queues no claim of the deposit unless the reveal comes by gossip,
  where `config/load.rs:47` has "the LP claims its own settled legs".
- `kaspa_underpaid`: an output short of its target schedules a refund
  (`decode/outputs.rs:104`) but caches no commitment, and `settle_refund` ends in
  Fatal without one, at every attempt of that process.

## 7 Behaviour no property excludes

The models have these behaviours, because the code does; properties are worded
around them and say so.

- `should_proceed` looks a peer up under one lock and adds it under another. Two
  crossing or repeated connections may both be kept for ever, although
  `resolve.rs:5-6` wants "to maintain one of them".
- When bootstrap and discovery dial one url at once, the first of the two to end
  removes both entries. The other connection is still read but not written to, and
  the redial loop waits for it. This is why `Converges` asks neither for a single
  connection nor for its entry in the list.
- A bootstrap loop ends for good after five failed dials. A peer that advertises no
  address is not recognised over its own inbound connection, and is redialled.
- An LP that hears a relayed request first answers the relay, which drops the
  answer.
- A short counter recorded first blocks a matching one later
  (AlreadyCounterLocked). The taker's check of a counter does not compare
  `unlock_ts`.
- A kill after the counter was sent and before the deposit's channel stored its next
  cursor brings the deposit again, to an empty tracker, and the code sends a second
  counter. The contract refuses it, since the hash is used. Kaspa does not: a second
  lock, with an unlock time of its own, would stand beside the first. `OneCounter`
  counts one process, and a second Kaspa lock is not followed further.
- `register_script` keeps one script to a swap id, the last announced, and checks an
  announcement against itself only. After another was announced under the id of a swap,
  a restart rebuilds the other's commitment and finds no output to refund
  (`StaysSettleable` and `ScheduledIsSpent` except it). An output at the other
  address, which `KaspaChannel` leaves out, would be taken for the swap's.
- On Kaspa, a block decoded before the script is announced is not scanned again;
  after a restart the addresses are not watched, so spends are not recognised; a
  claim looked up just before the driver resolves the swap stays queued without a
  commitment; a counter whose submission times out has an address its own node
  does not know. Scripts and their rows are never pruned.
- On Kaspa, the template compares opcodes and not every operand. Each lock's
  covenant looks at output 0 of the spending transaction on its own, so that one
  payment may open two locks of one address and cover the larger only: `HtlcIsEscrow`
  excepts the other. A settlement
  spends the outputs of an address in turn, all with the fee coin it chose at the
  start, so that one succeeds in a round, and an output below the reward ends the
  round: this is why `SettlerNeverStarves` excepts it. Coin selection for a
  commitment does not count the fee. The script does not fix the length of the
  secret, and `extract_reveal_secret` wants 32 bytes: a claim with another is not
  reported (`SpendsAreSeen` says so). `SwapHandler`, `AtomicSwap` and `KaspaChannel`
  have secrets of 32 bytes only, so what they say of a swap is not said of such a claim.
- `observe_onchain` of Kaspa never answers Settled, so that branch of the engine is
  reached on EVM chains only.
- On EVM chains, settler and commitments share one account. A commitment is not
  re-priced, and one whose submission times out but is included is not tracked. When
  one is evicted, later nonces wait behind it: `NoNonceGap` excepts a loss. Near the
  cap the last bump may be less than the pool asks for: `BumpIsAccepted` excepts
  the cap. A stale `persist_swap` may write a row without its nonce:
  `OneLiveTransaction` excepts such a row. The outer timeout of an attempt equals
  that of its receipt. The fee may exceed the reward.
- The backoff ends at 5 * 2^13 s = 40960 s plus jitter, so MAX_DELAY, 24 h, is never
  reached.
- The age of a price runs from storing it, not from sampling it. A quote may mix the
  prices of two oracle rounds. Two quotes may count on the same balance. The spread
  is cut to whole basis points, and since `amount_out.rs:63` cuts the product of a
  float, 0.29 per cent becomes 28 basis points: `LpKeepsItsSpread` allows for it.
- A comment of `evm/buffer.rs:41-45` speaks of "a maximum of 30 seconds" where the
  code has `.max(30)`.
- The default commit buffer of 960 s is below Igra's lock of 3600 s, so an LP with
  Igra and no buffer of its own is refused at start.
- A `Node::start` that fails leaves the gateway without its configuration. A
  peer-count listener registered late hears the next change only. One LP's rejection
  shows the swap as Failed. A quote is reported whether or not the page asked.
  `registerCommitment` records the claim before the Kaspa deposit is registered,
  which may fail.
- A quarantined row stays in the swaps table and is quarantined again at every boot.
  The peers table never shrinks. One peer may be listed twice in two spellings of its
  url.

## 8 Not modelled

- *Wire formats, error texts, logging, the command line*: no state that a swap
  depends on. Messages are values and errors are the branches they take. The encoding
  of a record is modelled by what `Daemon` needs of it: versions, damage, quarantine.
- *External code*: the databases' transactions, the chains, pools and fee markets,
  the script engine, exchanges and browsers appear as far as the code uses them.
- *Cryptography*: hashes do not collide, a signature is known by its key and digest.
- *Dishonest gossip about a swap*: a reveal that is heard carries the preimage, and a
  counter mirrors its deposit. `SwapHandler` assumes both; what a node does with other
  messages is not modelled, but for another script under a swap's id (section 7).
- *A cursor that is not saved*: the store only warns (`storage/cursors.rs:49-52`).
  `EvmPoll` takes every save to succeed; after a failed one a restart would track some
  blocks again. `SwapHandler` has restarts from such a cursor.
- *The gap between a record's snapshot and its save* in `Daemon` and `KaspaChannel`:
  there `persist` is one step. `Settlement` and `EvmTx` have the gap and its races.
- *Kaspa*: the node's subscription, mass limits, and the DAG beyond the blocks of one
  swap. `KaspaLedger` and `KaspaChannel` are not one state: the first has amounts and
  includes a transaction at once, the second has confirmation and kills. An error
  while a block is decoded would drop the blocks drained after it: scripts were
  parsed when they were registered.
- *A wallet of exactly the amount and the fee*: no instance of `KaspaLedger` has it.
- *P2P*: the periodic State message, the bound of the event channel, the one-second
  windows of the rate limit (a flood is one step).
- *Times inside an attempt*: when it is due is nondeterministic; the backoff's values
  matter to no property.
- *64-bit limits of amounts*: the operations of `amount_out` are checked ones and fail
  without a quote; `Quotes` stays far from them.
- *The page*: what an application does with quotes and stages.

## 9 Plan

1. *Composition*: `SwapHandler` over the queues of `Settlement`, so that the fairness
   of `OurClaim` becomes a checked fact; `KaspaLedger` under `KaspaChannel`;
   `EvmTx` as an implementation of the attempt of `Settlement`.
2. *Proofs*: `SettlerNeverStarves` of `KaspaLedger`.
3. *Bounds*: two swaps in `Settlement`, three nodes in `PeerLinks`.
