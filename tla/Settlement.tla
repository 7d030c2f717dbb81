----------------------------- MODULE Settlement -----------------------------
(***************************************************************************)
(* The settlement side of one EVM channel.  Three tasks share the intents  *)
(* (pending_refunds, pending_claims, under the state lock), the retry      *)
(* queue (under its own lock) and the swap store: the driver loop, which   *)
(* tracks finalized events and emits reveals seen on another chain; a peer *)
(* task, which emits reveals heard by gossip; and the settler loop, which  *)
(* retries every due action.  A step is what runs under one lock.  Event   *)
(* intake is EvmPoll's: in order, once, and cut by a kill after the cursor *)
(* is saved.  Backoff times, deadlines, nonces and gas are left out of an  *)
(* attempt: a queued key may be due, and may be past its deadline, at any  *)
(* tick.                                                                   *)
(***************************************************************************)
EXTENDS Naturals, Sequences

CONSTANTS
    Swaps,
    participate_ccr,
    Emitters,      \* the tasks that emit reveals: the driver loop, peer tasks
    MaxEmits,      \* bound: reveals emitted per swap
    MaxCrashes     \* bound: kills of the process

ASSUME SettlementAssumption ==
    /\ participate_ccr \in BOOLEAN
    /\ Emitters \subseteq {"driver", "peer"}
    /\ MaxEmits \in Nat /\ MaxCrashes \in Nat

VARIABLES
    onchain,     \* the contract's view of each swap
    expired,     \* swaps whose timelock the chain's clock has passed
    feed,        \* confirmed events the channel has not fetched
    inbox,       \* fetched events not yet tracked
    refunds,     \* swaps in pending_refunds
    claims,      \* swaps in pending_claims
    queue,       \* RetryQueue: the keys with an attempt
    due,         \* the keys of the settler's current tick
    store,       \* SwapStore: the PersistedSwap of each swap
    task,        \* where each task stands
    seen,        \* history: Commitments tracked since the last boot
    emits, crashes

chainVars == <<onchain, expired>>
memory    == <<refunds, claims, queue>>
vars == <<chainVars, feed, inbox, memory, due, store, task, seen, emits, crashes>>

Tasks == {"driver", "peer", "settler"}
Keys == [swap : Swaps, action : {"Claim", "Refund"}]
Claim(s) == [swap |-> s, action |-> "Claim"]
Refund(s) == [swap |-> s, action |-> "Refund"]

\* What persist_swap writes; the empty record deletes the row.
Record == [refund : BOOLEAN, claim : BOOLEAN,
           claimAttempt : BOOLEAN, refundAttempt : BOOLEAN]
EmptyRecord == [refund |-> FALSE, claim |-> FALSE,
                claimAttempt |-> FALSE, refundAttempt |-> FALSE]

AnyKey == CHOOSE k \in Keys : TRUE
Idle == [pc |-> "idle", key |-> AnyKey, record |-> EmptyRecord, then |-> "idle",
         healthy |-> FALSE]

Init ==
    /\ onchain = [s \in Swaps |-> "none"]
    /\ expired = {}
    /\ feed = <<>> /\ inbox = <<>>
    /\ refunds = {} /\ claims = {}
    /\ queue = {}
    /\ due = {}
    /\ store = [s \in Swaps |-> EmptyRecord]
    /\ task = [t \in Tasks |-> Idle]
    /\ seen = {}
    /\ emits = [s \in Swaps |-> 0]
    /\ crashes = 0

At(t, pc) == task[t].pc = pc
Goto(t, pc) == task' = [task EXCEPT ![t].pc = pc]
Begin(t, pc, key) == task' = [task EXCEPT ![t] = [Idle EXCEPT !.pc = pc, !.key = key]]
\* Enter persist_swap and go on at then.
Persist(t, then) == task' = [task EXCEPT ![t].pc = "persist", ![t].then = then]

\* persist_swap holds the state lock while it reads the two attempts.
StateLocked == \E t \in Tasks : At(t, "readRefund")

ensure(k) == queue' = queue \cup {k}
remove(k) == queue' = queue \ {k}

-----------------------------------------------------------------------------
(* The contract, as the other parties use it.                              *)

Settled(s) == onchain[s] \in {"claimed", "refunded"}

EventOf(action) == IF action = "Claim" THEN "Reveal" ELSE "Refund"

Emitted(kind, s) == feed' = Append(feed, [kind |-> kind, swap |-> s])

\* claim and refund of the contract: at most one succeeds, on its own side of
\* the timelock.
Accepts(k) ==
    /\ onchain[k.swap] = "open"
    /\ (k.action = "Refund") = (k.swap \in expired)

Execute(k) ==
    LET s == k.swap
    IN  /\ Accepts(k)
        /\ onchain' = [onchain EXCEPT ![s] = IF k.action = "Claim" THEN "claimed"
                                             ELSE "refunded"]
        /\ Emitted(EventOf(k.action), s)

NewSwap(s) ==
    /\ onchain[s] = "none"
    /\ onchain' = [onchain EXCEPT ![s] = "open"]
    /\ Emitted("Commitment", s)
    /\ UNCHANGED <<expired, inbox, memory, due, store, task, seen, emits, crashes>>

\* The receiver, the sender or another solver settles.
OthersSettle(k) ==
    /\ Execute(k)
    /\ UNCHANGED <<expired, inbox, memory, due, store, task, seen, emits, crashes>>

Expire(s) ==
    /\ onchain[s] # "none"
    /\ s \notin expired
    /\ expired' = expired \cup {s}
    /\ UNCHANGED <<onchain, feed, inbox, memory, due, store, task, seen, emits, crashes>>

-----------------------------------------------------------------------------
(* persist_swap: the intents, then the two attempts, under the state lock; *)
(* the save after its release.                                             *)

\* Mutant: the record leaves out the pending claim.
ReadIntentsNoClaim(t) ==
    LET s == task[t].key.swap
    IN  /\ At(t, "persist")
        /\ ~StateLocked
        /\ task' = [task EXCEPT ![t].pc = "readRefund",
                                ![t].record.refund = s \in refunds,
                                ![t].record.claimAttempt = Claim(s) \in queue]
        /\ UNCHANGED <<chainVars, feed, inbox, memory, due, store, seen, emits, crashes>>

\* The lock is taken and the intents are read no later than the first attempt;
\* nobody can change an intent in between.
ReadIntents(t) ==
    LET s == task[t].key.swap
    IN  /\ At(t, "persist")
        /\ ~StateLocked
        /\ task' = [task EXCEPT ![t].pc = "readRefund",
                                ![t].record.refund = s \in refunds,
                                ![t].record.claim = s \in claims,
                                ![t].record.claimAttempt = Claim(s) \in queue]
        /\ UNCHANGED <<chainVars, feed, inbox, memory, due, store, seen, emits, crashes>>

ReadRefundAttempt(t) ==
    /\ At(t, "readRefund")
    /\ task' = [task EXCEPT ![t].pc = "save",
                            ![t].record.refundAttempt = Refund(task[t].key.swap) \in queue]
    /\ UNCHANGED <<chainVars, feed, inbox, memory, due, store, seen, emits, crashes>>

Save(t) ==
    /\ At(t, "save")
    /\ store' = [store EXCEPT ![task[t].key.swap] = task[t].record]
    /\ task' = [task EXCEPT ![t] = IF @.then = "idle" THEN Idle
                                   ELSE [@ EXCEPT !.pc = "submit", !.record = EmptyRecord,
                                                  !.then = "idle"]]
    /\ UNCHANGED <<chainVars, feed, inbox, memory, due, seen, emits, crashes>>

-----------------------------------------------------------------------------
(* The driver loop: poll, save the cursor, track_actionable_event.         *)

Fetch ==
    /\ At("driver", "idle")
    /\ inbox = <<>> /\ feed # <<>>
    /\ inbox' = feed
    /\ feed' = <<>>
    /\ UNCHANGED <<chainVars, memory, due, store, task, seen, emits, crashes>>

TrackCommitment ==
    /\ At("driver", "idle")
    /\ inbox # <<>> /\ Head(inbox).kind = "Commitment"
    /\ ~StateLocked
    /\ LET s == Head(inbox).swap
       IN  /\ refunds' = IF participate_ccr THEN refunds \cup {s} ELSE refunds
           /\ seen' = seen \cup {s}
           /\ Begin("driver", "ensureRefund", Refund(s))
    /\ inbox' = Tail(inbox)
    /\ UNCHANGED <<chainVars, feed, claims, queue, due, store, emits, crashes>>

TrackTerminal ==
    /\ At("driver", "idle")
    /\ inbox # <<>> /\ Head(inbox).kind # "Commitment"
    /\ ~StateLocked
    /\ LET s == Head(inbox).swap
       IN  /\ refunds' = refunds \ {s}
           /\ claims' = claims \ {s}
           /\ Begin("driver", "dropClaim", Claim(s))
    /\ inbox' = Tail(inbox)
    /\ UNCHANGED <<chainVars, feed, queue, due, store, seen, emits, crashes>>

EnsureRefund ==
    /\ At("driver", "ensureRefund")
    /\ IF participate_ccr THEN ensure(task["driver"].key) ELSE UNCHANGED queue
    /\ Persist("driver", "idle")
    /\ UNCHANGED <<chainVars, feed, inbox, refunds, claims, due, store, seen, emits, crashes>>

DropClaim ==
    /\ At("driver", "dropClaim")
    /\ remove(Claim(task["driver"].key.swap))
    /\ Goto("driver", "dropRefund")
    /\ UNCHANGED <<chainVars, feed, inbox, refunds, claims, due, store, seen, emits, crashes>>

DropRefund ==
    /\ At("driver", "dropRefund")
    /\ remove(Refund(task["driver"].key.swap))
    /\ Persist("driver", "idle")
    /\ UNCHANGED <<chainVars, feed, inbox, refunds, claims, due, store, seen, emits, crashes>>

-----------------------------------------------------------------------------
(* emit_event(Reveal), from the driver loop or from a peer's message.      *)

EmitReveal(t, s) ==
    /\ participate_ccr
    /\ At(t, "idle") /\ (t = "driver" => inbox = <<>>)
    /\ emits[s] < MaxEmits
    /\ ~StateLocked
    /\ claims' = claims \cup {s}
    /\ emits' = [emits EXCEPT ![s] = @ + 1]
    /\ Begin(t, "ensureClaim", Claim(s))
    /\ UNCHANGED <<chainVars, feed, inbox, refunds, queue, due, store, seen, crashes>>

EnsureClaim(t) ==
    /\ At(t, "ensureClaim")
    /\ ensure(task[t].key)
    /\ Persist(t, "idle")
    /\ UNCHANGED <<chainVars, feed, inbox, refunds, claims, due, store, seen, emits, crashes>>

-----------------------------------------------------------------------------
(* The settler loop: drive over the keys due at the start of the tick.     *)

Key == task["settler"].key

Tick ==
    /\ At("settler", "idle") /\ due = {} /\ queue # {}
    /\ due' = queue
    /\ UNCHANGED <<chainVars, feed, inbox, memory, store, task, seen, emits, crashes>>

\* next_attempt_at is later than the tick.
NotDue(k) ==
    /\ At("settler", "idle") /\ k \in due
    /\ due' = due \ {k}
    /\ UNCHANGED <<chainVars, feed, inbox, memory, store, task, seen, emits, crashes>>

\* is_stuck: a key past its deadline is first looked up on chain.  A key that
\* left the queue since the tick began is not stuck.  All calls of a healthy
\* attempt are answered in time, from a chain whose finalized block is current.
Pick(k, stuck, healthy) ==
    /\ At("settler", "idle") /\ k \in due
    /\ stuck => k \in queue
    /\ due' = due \ {k}
    /\ task' = [task EXCEPT !["settler"] =
                   [Idle EXCEPT !.pc = IF stuck THEN "observe" ELSE "settle",
                                !.key = k, !.healthy = healthy]]
    /\ UNCHANGED <<chainVars, feed, inbox, memory, store, seen, emits, crashes>>

\* Whether the contract reports the swap finalized: Observation::Settled.
observation_from(s) == Settled(s)

ObserveSettled ==
    /\ At("settler", "observe")
    /\ observation_from(Key.swap)
    /\ Goto("settler", "dropKey")
    /\ UNCHANGED <<chainVars, feed, inbox, memory, due, store, seen, emits, crashes>>

\* The call times out, or the finalized block does not show the swap settled.
ObserveOther ==
    /\ At("settler", "observe")
    /\ observation_from(Key.swap) => ~task["settler"].healthy
    /\ Goto("settler", "settle")
    /\ UNCHANGED <<chainVars, feed, inbox, memory, due, store, seen, emits, crashes>>

\* record_success: the key, then the intent, then the disk.
DropKey ==
    /\ At("settler", "dropKey")
    /\ remove(Key)
    /\ Goto("settler", "dropIntent")
    /\ UNCHANGED <<chainVars, feed, inbox, refunds, claims, due, store, seen, emits, crashes>>

DropIntent ==
    /\ At("settler", "dropIntent")
    /\ ~StateLocked
    /\ IF Key.action = "Claim" THEN claims' = claims \ {Key.swap} /\ UNCHANGED refunds
       ELSE refunds' = refunds \ {Key.swap} /\ UNCHANGED claims
    /\ Persist("settler", "idle")
    /\ UNCHANGED <<chainVars, feed, inbox, queue, due, store, seen, emits, crashes>>

\* Mutant: the timelock is compared the wrong way.
IntendedReversed(k) == IF k.action = "Claim" THEN k.swap \in claims
                       ELSE k.swap \in refunds /\ k.swap \notin expired
Intended(k) == IF k.action = "Claim" THEN k.swap \in claims
               ELSE k.swap \in refunds /\ k.swap \in expired

\* record_failure: the backoff grows, and a key no longer queued is not put
\* back.
record_failure == Persist("settler", "idle")

\* settle_claim and settle_refund up to the nonce: they want an intent, and a
\* refund wants a block past the timelock.
Settle ==
    /\ At("settler", "settle")
    /\ ~StateLocked
    /\ IF Intended(Key) THEN Goto("settler", "replace") ELSE record_failure
    /\ UNCHANGED <<chainVars, feed, inbox, memory, due, store, seen, emits, crashes>>

\* replacement wants the key still queued and writes nonce and gas to disk.
Replace ==
    /\ At("settler", "replace")
    /\ IF Key \in queue THEN Persist("settler", "submit") ELSE record_failure
    /\ UNCHANGED <<chainVars, feed, inbox, memory, due, store, seen, emits, crashes>>

\* The transaction is mined; the outcome is Retry all the same.
SubmitLands ==
    /\ At("settler", "submit")
    /\ Execute(Key)
    /\ record_failure
    /\ UNCHANGED <<expired, inbox, memory, due, store, seen, emits, crashes>>

\* An RPC fails, the settlement times out, or the contract would refuse.
SettleFails ==
    /\ \/ task["settler"].pc \in {"settle", "replace", "submit"} /\ ~task["settler"].healthy
       \/ At("settler", "submit") /\ ~Accepts(Key)
    /\ record_failure
    /\ UNCHANGED <<chainVars, feed, inbox, memory, due, store, seen, emits, crashes>>

-----------------------------------------------------------------------------
(* A kill, then connect: restore, seed_queue, reconcile_on_boot.           *)

\* Mutant: the intents are not ensured a key.
SeededQueueAttemptsOnly ==
    {k \in Keys : LET r == store[k.swap]
                  IN  IF k.action = "Claim" THEN r.claimAttempt ELSE r.refundAttempt}

\* seed_queue: the stored attempts, and a new one for an intent without.
SeededQueue ==
    {k \in Keys : LET r == store[k.swap]
                  IN  IF k.action = "Claim" THEN r.claimAttempt \/ r.claim
                      ELSE r.refundAttempt \/ r.refund}

\* The boot finds the keys R settled on chain and records their success.
Crash(R) ==
    /\ crashes < MaxCrashes
    /\ R \subseteq {k \in SeededQueue : observation_from(k.swap)}
    /\ crashes' = crashes + 1
    /\ queue' = SeededQueue \ R
    /\ refunds' = {s \in Swaps : store[s].refund /\ Refund(s) \notin R}
    /\ claims' = {s \in Swaps : store[s].claim /\ Claim(s) \notin R}
    /\ store' = [s \in Swaps |->
                    IF {Claim(s), Refund(s)} \cap R = {} THEN store[s]
                    ELSE [refund |-> s \in refunds', claim |-> s \in claims',
                          claimAttempt |-> Claim(s) \in queue',
                          refundAttempt |-> Refund(s) \in queue']]
    /\ task' = [t \in Tasks |-> Idle]
    /\ due' = {} /\ inbox' = <<>> /\ seen' = {}
    /\ UNCHANGED <<chainVars, feed, emits>>

-----------------------------------------------------------------------------
PersistStep(t) == ReadIntents(t) \/ ReadRefundAttempt(t) \/ Save(t)

DriverStep ==
    \/ Fetch \/ TrackCommitment \/ TrackTerminal
    \/ EnsureRefund \/ DropClaim \/ DropRefund
    \/ EnsureClaim("driver") \/ PersistStep("driver")

PeerStep == EnsureClaim("peer") \/ PersistStep("peer")

SettlerStep ==
    \/ Tick
    \/ \E k \in Keys : NotDue(k) \/ \E stuck, healthy \in BOOLEAN : Pick(k, stuck, healthy)
    \/ ObserveSettled \/ ObserveOther \/ DropKey \/ DropIntent
    \/ Settle \/ Replace \/ SubmitLands \/ SettleFails
    \/ PersistStep("settler")

Environment ==
    \/ \E s \in Swaps : NewSwap(s) \/ Expire(s)
    \/ \E k \in Keys : OthersSettle(k)

Next ==
    \/ Environment
    \/ DriverStep \/ PeerStep \/ SettlerStep
    \/ \E t \in Emitters, s \in Swaps : EmitReveal(t, s)
    \/ \E R \in SUBSET Keys : Crash(R)

Spec == Init /\ [][Next]_vars

\* The runtime runs every task.  Backoff is bounded and a deadline stays passed,
\* so a key that stays queued is due and stuck again and again, and again and
\* again in a tick whose calls are answered.  Timelocks pass.
Fairness ==
    /\ WF_vars(DriverStep) /\ WF_vars(PeerStep) /\ WF_vars(SettlerStep)
    /\ \A k \in Keys : SF_vars(Pick(k, TRUE, TRUE))
    /\ \A s \in Swaps : WF_vars(Expire(s))

FairSpec == Spec /\ Fairness

-----------------------------------------------------------------------------
Quiet == \A t \in Tasks : At(t, "idle")

\* No open swap is forgotten.  Between operations an intent whose key left the
\* queue, which the settler will never retry, belongs to a swap that is already
\* settled on chain; and a CCR node that has tracked a Commitment since its boot
\* keeps the refund scheduled, in the intents and in the queue, as long as the
\* swap is open (ensure, remove, track_actionable_event, emit_reveal).
OpenIsNotForgotten ==
    /\ Quiet => \A s \in Swaps :
          /\ s \in refunds /\ Refund(s) \notin queue => Settled(s)
          /\ s \in claims /\ Claim(s) \notin queue => Settled(s)
    /\ participate_ccr /\ At("driver", "idle") =>
          \A s \in seen : onchain[s] = "open" =>
              s \in refunds /\ Refund(s) \in queue

\* A swap scheduled for refund by a node that stays up is settled on chain, and
\* an action on a settled swap leaves the queue, by its event or, if the event
\* was lost, by the deadline's look at the chain.
ScheduledIsSettled ==
    /\ \A s \in Swaps : (s \in refunds /\ crashes = MaxCrashes) ~> Settled(s)
    /\ \A k \in Keys : Settled(k.swap) ~> k \notin queue

\* A pending claim that a late save of an older record erased from the disk
\* is written again while it matters.
ClaimReachesDisk ==
    \A s \in Swaps : s \in claims ~> (store[s].claim \/ s \notin claims \/ Settled(s))
=============================================================================
