---------------------------- MODULE KaspaChannel ----------------------------
(***************************************************************************)
(* The Kaspa channel, as one swap meets it.  Four tasks share its maps,    *)
(* each under a lock of its own: the intake, which sends confirmed blocks  *)
(* down a bounded channel and moves the cursor; the driver, which drains   *)
(* the channel, decodes the blocks against the registered scripts and      *)
(* tracks the events; a peer task, which registers announced scripts and   *)
(* emits reveals; and the settler, which retries the queued actions.  The  *)
(* DAG is kept to the blocks that pay to or spend from the swap's address, *)
(* and the blocks that merge them, in the order get_blocks gives; a        *)
(* transaction of a confirmed block is taken to be accepted.  An           *)
(* announcement may bring another script under the swap's id; its address  *)
(* is taken to stay unpaid.                                                *)
(* persist_swap is one step: Settlement has the races of two.              *)
(***************************************************************************)
EXTENDS Naturals, Sequences

CONSTANTS
    participate_ccr,
    Capacity,        \* of the safe_blocks channel
    MaxGossip,       \* bound: announcements and reveals heard
    MaxCrashes       \* bound: kills of the process

VARIABLES
    dag,       \* the blocks: what each does, and whether it is on the selected chain
    deep,      \* how many of them have minimum_block_confirmations
    utxo,      \* the output at the address: full, short of the target, spent
    time,     \* 0 before unlock_ts, 1 after it, 2 after script_ttl_secs more
    own,       \* whether the swap is this node's counter: no, yes, emitted
    sent,      \* the last block sent down the channel
    cursor,    \* the last block of a finished flush, in memory and on disk
    channel,   \* safe_blocks, and what the driver drained from it and has not decoded
    maps,      \* which of the maps utxo_scripts, scripts, commitments,
               \* pending_refunds and pending_claims hold the swap, and whether
               \* scripts and commitments hold another script's entry for it
    queue,     \* RetryQueue: the actions with an attempt
    store,     \* SwapStore: the maps and the actions of the PersistedSwap
    task,      \* where each task stands
    seen,      \* whether this process tracked the commitment
    handled,   \* the blocks this process decoded
    gossip, crashes

chainVars == <<dag, deep, utxo, time, own>>
intakeVars == <<sent, cursor>>
nodeVars == <<maps, queue, store>>
channelVars == <<chainVars, intakeVars, channel, nodeVars, task, seen, handled, gossip, crashes>>

Actions == {"Claim", "Refund"}
ScriptEntries == {"scripts", "other_script"}
CommitmentEntries == {"commitments", "other_commitment"}
Maps == ScriptEntries \cup CommitmentEntries \cup {"utxo_scripts", "pending_refunds", "pending_claims"}
Holds(m) == m \in maps

\* scripts and commitments have one entry to an id: an insert takes the place of
\* what was there.
Insert(m, entries, e) == (m \ entries) \cup {e}

\* Where each task stands; the event the driver decoded; the settler's key, and
\* whether all RPC calls of its attempt are answered.
AllIdle == [driver |-> "idle", peer |-> "idle", settler |-> "idle", event |-> "None",
         key |-> "Claim", healthy |-> FALSE]
Goto(t, pc) == task' = [task EXCEPT ![t] = pc]
DriverDone == task' = [task EXCEPT !.driver = "idle", !.event = "None"]
SettlerDone == task' = [task EXCEPT !.settler = "idle", !.key = "Claim", !.healthy = FALSE]

\* The first poll has set the cursor to the sink.
ChannelInit ==
    /\ dag = <<>> /\ deep = 0 /\ utxo = "none" /\ time = 0
    /\ own \in {"no", "yes"}
    /\ sent = 0 /\ cursor = 0
    /\ channel = <<>>
    /\ maps = {} /\ queue = {}
    /\ store = [maps |-> {}, attempts |-> {}]
    /\ task = AllIdle
    /\ seen = FALSE /\ handled = {}
    /\ gossip = 0 /\ crashes = 0

\* Mutant: the script is left out of the record.
persist_swap_no_script == store' = [maps |-> maps' \cap {"pending_refunds", "pending_claims"},
                                    attempts |-> queue']
\* persist_swap, of the maps and the queue that a step leaves.
persist_swap == store' = [maps |-> maps' \cap (ScriptEntries \cup {"pending_refunds", "pending_claims"}),
                          attempts |-> queue']

-----------------------------------------------------------------------------
(* The chain, and the other parties' use of it.                            *)

\* In a block of the selected chain, or in one that such a block merges.
Mined(what) ==
    \/ dag' = Append(dag, [tx |-> what, chain |-> TRUE])
    \/ dag' = dag \o <<[tx |-> what, chain |-> FALSE], [tx |-> "none", chain |-> TRUE]>>

ElsewhereUnchanged == UNCHANGED <<intakeVars, channel, nodeVars, task, seen, handled, gossip, crashes>>

\* The taker pays to the address, and maybe less than the target.
TakerPays(amount) ==
    /\ own = "no" /\ utxo = "none"
    /\ utxo' = amount
    /\ Mined(amount)
    /\ ElsewhereUnchanged /\ UNCHANGED <<deep, time, own>>

\* create_htlc_script: the secret opens the output at any time, the sender's
\* branch only after the timelock.
Spendable(action) == utxo \in {"full", "short"} /\ (action = "Refund" => time > 0)

Spend(action) ==
    /\ Spendable(action)
    /\ utxo' = "spent"
    /\ Mined(action)

OthersSpend(action) ==
    /\ Spend(action)
    /\ ElsewhereUnchanged /\ UNCHANGED <<deep, time, own>>

Confirm ==
    /\ deep < Len(dag)
    /\ deep' = deep + 1
    /\ ElsewhereUnchanged /\ UNCHANGED <<dag, utxo, time, own>>

TimePasses ==
    /\ time < 2
    /\ time' = time + 1
    /\ ElsewhereUnchanged /\ UNCHANGED <<dag, deep, utxo, own>>

-----------------------------------------------------------------------------
(* The intake: poll_once and flush_confirmed_blocks.  A poll one of whose  *)
(* calls fails changes nothing.                                            *)

\* A flush ends at a confirmed block of the selected chain and takes along the
\* blocks before it.
Flushable(i) == \E j \in i..deep : dag[j].chain

\* send waits while the channel is full.
SendBlock ==
    /\ sent < Len(dag) /\ Flushable(sent + 1)
    /\ Len(channel) < Capacity
    /\ channel' = Append(channel, sent + 1)
    /\ sent' = sent + 1
    /\ UNCHANGED <<chainVars, cursor, nodeVars, task, seen, handled, gossip, crashes>>

\* Mutant: the cursor moves past the blocks left for the next poll.
new_cursor_at_confirmed == deep
new_cursor == sent

\* The cursor moves only to a block of the selected chain, when all is sent.
SetCursor ==
    /\ sent # cursor /\ dag[sent].chain
    /\ cursor' = new_cursor
    /\ UNCHANGED <<chainVars, sent, channel, nodeVars, task, seen, handled, gossip, crashes>>

-----------------------------------------------------------------------------
(* The driver: poll_finalized.                                             *)

\* scan_outputs: a payment is matched by its address; it makes a Commitment when
\* it meets the target.
paid_event(tx) == IF tx = "full" THEN "Commitment" ELSE "None"
\* classify_spend: a spend shows its branch in the signature script.
spend_event(tx) == IF tx = "Claim" THEN "Reveal" ELSE "Refund"

handle_block_added(tx) == IF tx \in Actions THEN spend_event(tx) ELSE paid_event(tx)

\* scan_inputs: a spend closes its address.
Closed(tx) == IF tx \in Actions THEN {"utxo_scripts"} ELSE {}

\* poll_finalized drains the channel and decodes block by block; a transaction
\* at an address that is not registered is skipped.
HandleBlock ==
    LET tx == dag[Head(channel)].tx
        scheduled == tx \notin Actions /\ participate_ccr
    IN  /\ task.driver = "idle" /\ channel # <<>>
        /\ handled' = handled \cup {Head(channel)}
        /\ channel' = Tail(channel)
        /\ maps' = maps \ Closed(tx)
        /\ IF Holds("utxo_scripts") /\ tx # "none"
           THEN task' = [task EXCEPT !.driver = IF scheduled THEN "schedule" ELSE "track",
                                     !.event = handle_block_added(tx)]
           ELSE UNCHANGED task
        /\ UNCHANGED <<chainVars, intakeVars, queue, store, seen, gossip, crashes>>

DriverUnchanged == UNCHANGED <<chainVars, intakeVars, channel, handled, gossip, crashes>>

\* A swap that already has a pending refund gets no new attempt.
ScheduleRefund ==
    /\ task.driver = "schedule"
    /\ maps' = maps \cup {"pending_refunds"}
    /\ IF Holds("pending_refunds") THEN UNCHANGED <<queue, store>>
       ELSE queue' = queue \cup {"Refund"} /\ persist_swap
    /\ Goto("driver", "track")
    /\ DriverUnchanged /\ UNCHANGED seen

\* track_actionable_event.  An underpaid output has scheduled its refund, and
\* has no event.
TrackNothing ==
    /\ task.driver = "track" /\ task.event = "None"
    /\ DriverDone
    /\ DriverUnchanged /\ UNCHANGED <<nodeVars, seen>>

Tracked == IF participate_ccr THEN {"pending_refunds"} ELSE {}

TrackCommitment ==
    /\ task.driver = "track" /\ task.event = "Commitment"
    /\ maps' = Insert(maps, CommitmentEntries, "commitments") \cup Tracked /\ UNCHANGED queue
    /\ persist_swap
    /\ seen' = TRUE
    /\ DriverDone
    /\ DriverUnchanged

\* The actions a resolving event takes off the queue.
resolved == {"Claim", "Refund"}

TrackTerminal ==
    /\ task.driver = "track" /\ task.event \in {"Reveal", "Refund"}
    /\ maps' = maps \ {"pending_refunds"}
    /\ queue' = queue \ resolved
    /\ Goto("driver", "dropClaim")
    /\ DriverUnchanged /\ UNCHANGED <<store, seen>>

DropClaim ==
    /\ task.driver = "dropClaim"
    /\ maps' = maps \ {"pending_claims"}
    /\ Goto("driver", "forget")
    /\ DriverUnchanged /\ UNCHANGED <<queue, store, seen>>

Forget ==
    /\ task.driver = "forget"
    /\ maps' = maps \ (CommitmentEntries \cup ScriptEntries) /\ UNCHANGED queue
    /\ persist_swap
    /\ DriverDone
    /\ DriverUnchanged /\ UNCHANGED seen

\* prune_scripts at the end of a poll forgets the address, not the script.
PruneScripts ==
    /\ task.driver = "idle"
    /\ time = 2 /\ Holds("utxo_scripts")
    /\ maps' = maps \ {"utxo_scripts"}
    /\ DriverUnchanged /\ UNCHANGED <<queue, store, task, seen>>

-----------------------------------------------------------------------------
(* emit_event(Commitment): the node locks its counter.                     *)

EmitCommitment ==
    /\ task.driver = "idle"
    /\ own = "yes"
    /\ own' = "emitted"
    /\ maps' = Insert(maps, CommitmentEntries, "commitments")
    /\ Goto("driver", "commit")
    /\ UNCHANGED <<dag, deep, utxo, time, intakeVars, channel, queue, store, seen,
                   handled, gossip, crashes>>

\* submit_commitment: the transaction is mined, and answered or timed out.
SubmitCommitment(answered) ==
    /\ task.driver = "commit"
    /\ utxo' = "full"
    /\ Mined("full")
    /\ Goto("driver", IF answered THEN "register" ELSE "idle")
    /\ UNCHANGED <<deep, time, own, intakeVars, channel, nodeVars, seen, handled, gossip, crashes>>

SubmitCommitmentFails ==
    /\ task.driver = "commit"
    /\ DriverDone
    /\ DriverUnchanged /\ UNCHANGED <<nodeVars, seen>>

RegisterOwn ==
    /\ task.driver = "register"
    /\ maps' = Insert(maps, ScriptEntries, "scripts") \cup {"utxo_scripts"} /\ UNCHANGED queue
    /\ persist_swap
    /\ DriverDone
    /\ DriverUnchanged /\ UNCHANGED seen

-----------------------------------------------------------------------------
(* The peer task: register_script, and emit_event(Reveal).                 *)

\* The swap's address, registered by the announcement of its script, and pruned
\* past its time to live.
Address(m, script) ==
    CASE time = 2 -> m \ {"utxo_scripts"}
      [] time < 2 /\ script = "scripts" -> m \cup {"utxo_scripts"}
      [] OTHER -> m

\* validate_script_announce compares an announcement with itself alone: the
\* script may be the swap's or another under its id.
RegisterScript(script) ==
    /\ task.peer = "idle" /\ gossip < MaxGossip
    /\ gossip' = gossip + 1
    /\ maps' = Address(Insert(maps, ScriptEntries, script), script)
    /\ UNCHANGED queue
    /\ persist_swap
    /\ UNCHANGED <<chainVars, intakeVars, channel, task, seen, handled, crashes>>

\* The reveal comes by gossip or, through the same code, from the other chain.
EmitReveal ==
    /\ task.peer = "idle" /\ gossip < MaxGossip
    /\ gossip' = gossip + 1
    /\ participate_ccr /\ maps \cap CommitmentEntries # {}
    /\ Goto("peer", "pushClaim")
    /\ UNCHANGED <<chainVars, intakeVars, channel, nodeVars, seen, handled, crashes>>

PushClaim ==
    /\ task.peer = "pushClaim"
    /\ maps' = maps \cup {"pending_claims"}
    /\ Goto("peer", "ensureClaim")
    /\ UNCHANGED <<chainVars, intakeVars, channel, queue, store, seen, handled, gossip, crashes>>

EnsureClaim ==
    /\ task.peer = "ensureClaim"
    /\ queue' = queue \cup {"Claim"} /\ UNCHANGED maps
    /\ persist_swap
    /\ Goto("peer", "idle")
    /\ UNCHANGED <<chainVars, intakeVars, channel, seen, handled, gossip, crashes>>

-----------------------------------------------------------------------------
(* The settler.                                                            *)

\* Unspent outputs show the swap open; that it is settled, no answer shows.
observe_onchain ==
    IF Holds("commitments") /\ utxo \in {"full", "short"} THEN "NotSettled" ELSE "Unknown"

\* Mutant: the median time is compared with the timelock the wrong way.
SettleableReversed(k) ==
    /\ Holds("commitments")
    /\ IF k = "Claim" THEN Holds("pending_claims") ELSE time = 0
\* What settle_claim and settle_refund want before they broadcast; with another
\* script's commitment they find no output, and fail.
Settleable(k) ==
    /\ Holds("commitments")
    /\ IF k = "Claim" THEN Holds("pending_claims") ELSE time > 0

\* record_failure keeps the key for a later attempt, and the disk in step.
record_failure == UNCHANGED <<maps, queue>> /\ persist_swap

\* drive, over the keys due at the tick.  A key leaves the queue only once its
\* output is spent, so an attempt on one that just left changes nothing.
Pick(k, healthy) ==
    /\ task.settler = "idle" /\ k \in queue
    /\ observe_onchain # "Settled"
    /\ IF Settleable(k)
       THEN /\ task' = [task EXCEPT !.settler = "submit", !.key = k, !.healthy = healthy]
            /\ UNCHANGED nodeVars
       ELSE record_failure /\ UNCHANGED task
    /\ DriverUnchanged /\ UNCHANGED seen

\* prepare_htlc_spend finds the output and submit_htlc_spend spends it; the
\* outcome is Retry all the same.
SubmitSpend ==
    /\ task.settler = "submit"
    /\ Spend(task.key)
    /\ record_failure
    /\ SettlerDone
    /\ UNCHANGED <<deep, time, own, intakeVars, channel, seen, handled, gossip, crashes>>

SubmitFails ==
    /\ task.settler = "submit"
    /\ task.healthy => ~Spendable(task.key)
    /\ record_failure
    /\ SettlerDone
    /\ DriverUnchanged /\ UNCHANGED seen

-----------------------------------------------------------------------------
\* The commitments come back with the scripts; the registered addresses do not.
Restored == store.maps \cup {IF s = "scripts" THEN "commitments" ELSE "other_commitment" :
                             s \in store.maps \cap ScriptEntries}

\* A kill, then connect: restore, seed_queue.
Crash ==
    /\ crashes < MaxCrashes
    /\ crashes' = crashes + 1
    /\ sent' = cursor
    /\ channel' = <<>>
    /\ maps' = Restored
    /\ queue' = store.attempts \cup {k \in Actions : (IF k = "Claim" THEN "pending_claims"
                                                      ELSE "pending_refunds") \in store.maps}
    /\ task' = AllIdle
    /\ seen' = FALSE /\ handled' = {}
    /\ UNCHANGED <<chainVars, cursor, store, gossip>>

-----------------------------------------------------------------------------
IntakeStep == SendBlock \/ SetCursor

DriverStep ==
    \/ HandleBlock \/ ScheduleRefund
    \/ TrackNothing \/ TrackCommitment \/ TrackTerminal \/ DropClaim \/ Forget
    \/ PruneScripts
    \/ SubmitCommitmentFails \/ RegisterOwn
    \/ \E answered \in BOOLEAN : SubmitCommitment(answered)

PeerStep == PushClaim \/ EnsureClaim

SettlerStep ==
    \/ \E k \in Actions, healthy \in BOOLEAN : Pick(k, healthy)
    \/ SubmitSpend \/ SubmitFails

Environment ==
    \/ \E amount \in {"full", "short"} : TakerPays(amount)
    \/ \E action \in Actions : OthersSpend(action)
    \/ Confirm \/ TimePasses

ChannelNext ==
    \/ Environment
    \/ IntakeStep \/ DriverStep \/ PeerStep \/ SettlerStep
    \/ EmitCommitment \/ EmitReveal
    \/ \E script \in ScriptEntries : RegisterScript(script)
    \/ Crash

ChannelSpec == ChannelInit /\ [][ChannelNext]_channelVars

\* The runtime runs every task; backoff is bounded, so a queued key is retried
\* again and again, and again and again with its calls answered.  The chain
\* grows and the timelock passes.
Fairness ==
    /\ WF_channelVars(IntakeStep) /\ WF_channelVars(DriverStep)
    /\ WF_channelVars(PeerStep) /\ WF_channelVars(SubmitSpend \/ SubmitFails)
    /\ \A k \in Actions : SF_channelVars(Pick(k, TRUE))
    /\ WF_channelVars(Confirm) /\ WF_channelVars(time = 0 /\ TimePasses)

FairSpec == ChannelSpec /\ Fairness

-----------------------------------------------------------------------------
\* What is decoded is confirmed, and every block the cursor has passed has been
\* decoded or is on its way: flush_confirmed_blocks moves the cursor only past
\* blocks it has sent, and a kill alone makes a gap.
CursorPassesHanded ==
    /\ \A i \in handled : i <= deep
    /\ crashes = 0 =>
          \A i \in 1..cursor :
              i \in handled \/ \E j \in DOMAIN channel : channel[j] = i

\* As long as the output is unspent, a process that tracked its commitment can
\* settle it: poll_finalized has queued the refund and track_actionable_event
\* has cached the commitment, whatever the other tasks do and whatever script is
\* announced under the swap's id.  So can a restart what it finds on disk, unless
\* another script was announced: a stored refund comes with the script its
\* commitment is rebuilt from, but register_script keeps only the last script
\* announced under the id, and a restart goes by that one.
StaysSettleable ==
    /\ (seen /\ utxo = "full")
          => Holds("commitments") /\ (participate_ccr => "Refund" \in queue)
    /\ ("pending_refunds" \in store.maps /\ utxo \in {"full", "short"})
          => "scripts" \in store.maps \/ "other_script" \in store.maps

\* A queued action whose commitment is known is carried out, by this node or by
\* another, unless a kill comes first: settle_refund and settle_claim are retried
\* until the output is spent, before a restart and after it.  Once a swap it has
\* tracked is spent, the node stops trying to refund it: nothing but the decoded
\* spend takes the refund off the queue, so this wants the address still
\* registered, that is no restart and no expiry meanwhile.
ScheduledIsSpent ==
    /\ \A n \in 0..MaxCrashes :
          (/\ \E k \in queue : k = "Claim" => Holds("pending_claims")
           /\ Holds("commitments")
           /\ utxo \in {"full", "short"} /\ crashes = n) ~> (utxo = "spent" \/ crashes > n)
    /\ (seen /\ utxo = "spent")
          ~> ((~Holds("pending_refunds") /\ "Refund" \notin queue) \/ crashes > 0 \/ time = 2)

\* "if user didnt pay we simply have scheduled a refund": the output of an
\* underpaid swap is refunded.
UnderpaidIsRefunded == (utxo = "short" /\ Holds("pending_refunds")) ~> (utxo = "spent")
=============================================================================
