---------------------------- MODULE SwapHandler ----------------------------
(***************************************************************************)
(* What a daemon does with the events of one swap between the channels A,  *)
(* where the taker deposits, and B, where the LP counter-locks: the driver *)
(* loop, Handler::on_chain_event, the SwapTracker record, the effects, and *)
(* the peer task that hears the taker's reveal by gossip.  Swaps share no  *)
(* state but the map that holds their records, so one is enough.  The      *)
(* tracker is in memory only; the claims a channel accepts are on disk     *)
(* (module Settlement).  Time is left out here: a leg may be refunded as   *)
(* soon as it is open (module AtomicSwap has the timelocks).  Messages are *)
(* honest: a reveal carries the preimage, a counter mirrors its deposit.   *)
(* A counter sent twice is followed as one lock: the contract refuses the  *)
(* second, and a second lock on Kaspa is not followed.                     *)
(***************************************************************************)
EXTENDS Naturals, Sequences

CONSTANTS
    MaxCrashes     \* bound: kills of the process

VARIABLES
    is_lp,         \* this daemon is the LP the deposit is addressed to
    htlc,          \* the contract or script of each channel
    confirmed,     \* the confirmed events of each channel, in order
    cursor,        \* how many of them the channel has returned
    stored,        \* history: the cursors this process started from
    revealed,      \* the taker has let the secret out
    batch,         \* the events of the current finalized_chunk still to apply
    pc,            \* where the driver stands in apply_event
    record,        \* SwapTracker: the SwapRecord
    peer,          \* channels on_reveal has still to broadcast to
    heard,         \* the reveal is in the gossip SeenSet
    inflight,      \* a counter transaction is sent and not mined
    counters,      \* history: counters this process has sent
    claimQueued,   \* channels that accepted the claim
    crashes

chainVars == <<htlc, confirmed, revealed, inflight>>
driverVars == <<batch, pc>>
\* What only a chunk or a kill changes.
lifeVars == <<is_lp, cursor, stored, crashes>>
handlerVars == <<lifeVars, chainVars, driverVars, record, peer, heard, counters, claimQueued>>

Legs == {"A", "B"}
Other(c) == IF c = "A" THEN "B" ELSE "A"
ChainEvent == [source : Legs, kind : {"Commitment", "Reveal", "Refund"}]

\* The two commitments by their source channels: init is the one seen first.
NoRecord == [init |-> "none", counter |-> "none", resolution |-> "none"]
Record == [init : Legs \cup {"none"}, counter : Legs \cup {"none"},
           resolution : {"none", "secret", "refunded"}]

HandlerInit ==
    /\ is_lp \in BOOLEAN
    /\ htlc = [c \in Legs |-> "none"]
    /\ confirmed = [c \in Legs |-> <<>>]
    /\ cursor = [c \in Legs |-> 0] /\ stored = cursor
    /\ revealed = FALSE /\ inflight = FALSE
    /\ batch = <<>> /\ pc = "idle"
    /\ record = NoRecord
    /\ peer = {} /\ heard = FALSE
    /\ counters = 0 /\ claimQueued = {} /\ crashes = 0

-----------------------------------------------------------------------------
(* The chains, and the other parties on them.                              *)

Happens(c, status, kind) ==
    /\ htlc' = [htlc EXCEPT ![c] = status]
    /\ confirmed' = [confirmed EXCEPT ![c] = Append(@, [source |-> c, kind |-> kind])]

daemonVars == <<lifeVars, driverVars, record, peer, heard, counters, claimQueued>>

DepositMined ==
    /\ htlc["A"] = "none"
    /\ Happens("A", "open", "Commitment")
    /\ UNCHANGED <<daemonVars, revealed, inflight>>

\* Our counter is mined, or another LP's when the deposit is not for us.
CounterMined ==
    /\ htlc["B"] = "none" /\ htlc["A"] # "none"
    /\ is_lp => inflight
    /\ Happens("B", "open", "Commitment")
    /\ inflight' = FALSE
    /\ UNCHANGED <<daemonVars, revealed>>

\* The taker waits for the counter lock before it reveals.
TakerReveals ==
    /\ htlc["B"] = "open" /\ ~revealed
    /\ revealed' = TRUE
    /\ UNCHANGED <<daemonVars, htlc, confirmed, inflight>>

OthersClaim(c) ==
    /\ htlc[c] = "open" /\ revealed
    /\ Happens(c, "claimed", "Reveal")
    /\ UNCHANGED <<daemonVars, revealed, inflight>>

\* The claim this daemon's channel holds (module Settlement) lands.
OurClaim(c) == c \in claimQueued /\ OthersClaim(c)

LegRefunded(c) ==
    /\ htlc[c] = "open"
    /\ Happens(c, "refunded", "Refund")
    /\ UNCHANGED <<daemonVars, revealed, inflight>>

-----------------------------------------------------------------------------
(* The SwapTracker's operations: a failed one leaves the record alone.     *)

set_init_commitment(c) == record' = [NoRecord EXCEPT !.init = c]
set_counter_commitment(c) == record' = [record EXCEPT !.counter = c]

Locked == record.counter # "none"

\* Mutants: no counter is asked for; a resolved record is not refused.
RecordUnresolved == record.init # "none" /\ record.resolution = "none"
RecordLocked == Locked
LockedUnresolved == Locked /\ record.resolution = "none"

resolve(resolution) == record' = [record EXCEPT !.resolution = resolution]

-----------------------------------------------------------------------------
(* The driver: finalized_chunk joins the channels, then one event at a     *)
(* time.                                                                   *)

\* Positions in a log: a leg is locked once and ended once.
Position == 0 .. 2

\* What channel c returns when it moves its cursor to n.
Returned(c, n) == SubSeq(confirmed[c], cursor[c] + 1, n)

FinalizedChunk ==
    /\ pc = "idle" /\ batch = <<>>
    /\ \E first \in Legs, to \in [Legs -> Position] :
        /\ \A c \in Legs : to[c] \in cursor[c] .. Len(confirmed[c])
        /\ batch' = Returned(first, to[first]) \o Returned(Other(first), to[Other(first)])
        /\ cursor' = to
    /\ batch' # <<>>
    /\ UNCHANGED <<is_lp, stored, crashes, chainVars, pc, record, peer, heard, counters, claimQueued>>

Applies(kind) ==
    /\ pc = "idle" /\ batch # <<>> /\ Head(batch).kind = kind

NextEvent == batch' = Tail(batch) /\ pc' = "idle"
Source == Head(batch).source

\* handle_external_commitment: the first commitment is the init, one from the
\* other channel the counter.  (set_counter_commitment refuses a resolved swap,
\* which has its counter already: RecordAgrees.)
ExternalCommitment ==
    /\ Applies("Commitment")
    /\ \/ record.init = "none" /\ set_init_commitment(Source)
          /\ pc' = "internal" /\ UNCHANGED batch
       \/ record.init # "none" /\ Source \in {record.init, record.counter}
          /\ pc' = "internal" /\ UNCHANGED <<batch, record>>
       \/ record.init = Other(Source) /\ ~Locked
          /\ set_counter_commitment(Source) /\ pc' = "internal" /\ UNCHANGED batch
    /\ UNCHANGED <<lifeVars, chainVars, peer, heard, counters, claimQueued>>

\* Mutant: any commitment is taken to be addressed to us.
AddressedToAnyone == is_lp
\* The deposit pays the LP; its own counter pays the taker.
AddressedToUs == is_lp /\ record.init = "A"

\* handle_internal_commitment: only an init without a counter, to the channel
\* the event points at, is mirrored; and only if price, amount, remaining lock
\* and chain clocks allow.
Mirrors ==
    /\ record.init = Source
    /\ ~Locked /\ record.resolution = "none"
    /\ AddressedToUs

InternalCommitment ==
    /\ pc = "internal" /\ Mirrors
    /\ pc' = "broadcast"
    /\ UNCHANGED <<lifeVars, chainVars, batch, record, peer, heard, counters, claimQueued>>

InternalRejected ==
    /\ pc = "internal"
    /\ NextEvent
    /\ UNCHANGED <<lifeVars, chainVars, record, peer, heard, counters, claimQueued>>

\* The counter is sent, and mined or not after the receipt's timeout; a failed
\* broadcast is only logged.
BroadcastCounter ==
    /\ pc = "broadcast"
    /\ counters' = counters + 1
    /\ inflight' \in {inflight, TRUE}
    /\ NextEvent
    /\ UNCHANGED <<lifeVars, htlc, confirmed, revealed, record, peer, heard, claimQueued>>

\* set_revealed, then the claim on the other leg; an error drops the event.
ExternalReveal ==
    /\ Applies("Reveal")
    /\ IF LockedUnresolved THEN resolve("secret") /\ pc' = "counterparty" /\ UNCHANGED batch
       ELSE NextEvent /\ UNCHANGED record
    /\ UNCHANGED <<lifeVars, chainVars, peer, heard, counters, claimQueued>>

\* Mutant: the claim goes to the channel that reported the reveal.
CounterpartyIsSource(c) == c
get_counterparty_channel_id(c) == IF record.init = c THEN record.counter ELSE record.init

BroadcastReveal ==
    /\ pc = "counterparty"
    /\ claimQueued' = IF Locked
                      THEN claimQueued \cup {get_counterparty_channel_id(Source)}
                      ELSE claimQueued
    /\ NextEvent
    /\ UNCHANGED <<lifeVars, chainVars, record, peer, heard, counters>>

ExternalRefund ==
    /\ Applies("Refund")
    /\ IF LockedUnresolved THEN resolve("refunded") ELSE UNCHANGED record
    /\ NextEvent
    /\ UNCHANGED <<lifeVars, chainVars, peer, heard, counters, claimQueued>>

-----------------------------------------------------------------------------
(* Coordinator::on_reveal: forward once, update the record, then claim on  *)
(* every channel, whatever the record said.                                *)

PeerReveal ==
    /\ revealed /\ ~heard
    /\ heard' = TRUE
    /\ IF LockedUnresolved THEN resolve("secret") ELSE UNCHANGED record
    /\ peer' = Legs
    /\ UNCHANGED <<lifeVars, chainVars, driverVars, counters, claimQueued>>

PeerClaim(c) ==
    /\ c \in peer
    /\ peer' = peer \ {c}
    /\ claimQueued' = claimQueued \cup {c}
    /\ UNCHANGED <<lifeVars, chainVars, driverVars, record, heard, counters>>

\* cleanup_old_swaps looks at the age of a resolved record only, a day from its
\* creation: not in the moment between an event's resolve and its effect, unless
\* the event comes a day late.
CleanupOldSwaps ==
    /\ record.resolution # "none" /\ pc # "counterparty"
    /\ record' = NoRecord
    /\ UNCHANGED <<lifeVars, chainVars, driverVars, peer, heard, counters, claimQueued>>

\* Where the saved cursors may be: a save never moves one back.
StoredCursors == {to \in [Legs -> Position] : \A c \in Legs : to[c] \in stored[c] .. Len(confirmed[c])}

\* A kill and a restart: the tracker and the SeenSet start empty, the claims are
\* on disk.  The cursors start where they were last saved: behind what was
\* applied, when the kill came before a save or saves failed; or past what was
\* not applied yet.
Crash ==
    /\ crashes < MaxCrashes
    /\ crashes' = crashes + 1
    /\ cursor' \in StoredCursors /\ stored' = cursor'
    /\ batch' = <<>> /\ pc' = "idle"
    /\ record' = NoRecord
    /\ peer' = {} /\ heard' = FALSE
    /\ counters' = 0
    /\ UNCHANGED <<is_lp, chainVars, claimQueued>>

-----------------------------------------------------------------------------
DriverStep ==
    \/ FinalizedChunk
    \/ ExternalCommitment \/ InternalCommitment \/ InternalRejected \/ BroadcastCounter
    \/ ExternalReveal \/ BroadcastReveal \/ ExternalRefund

HandlerNext ==
    \/ DepositMined \/ CounterMined \/ TakerReveals
    \/ \E c \in Legs : OthersClaim(c) \/ OurClaim(c) \/ LegRefunded(c) \/ PeerClaim(c)
    \/ DriverStep
    \/ PeerReveal \/ CleanupOldSwaps \/ Crash

HandlerSpec == HandlerInit /\ [][HandlerNext]_handlerVars

\* The runtime runs both tasks, the channels return what is confirmed, and a
\* claim a channel holds is retried until it lands (Settlement).  Gossip,
\* claims by others and refunds are not promised.
Fairness ==
    /\ WF_handlerVars(DriverStep)
    /\ \A c \in Legs : WF_handlerVars(PeerClaim(c)) /\ WF_handlerVars(OurClaim(c))

FairSpec == HandlerSpec /\ Fairness

-----------------------------------------------------------------------------
\* The record never runs ahead of the chains: a resolved record is locked, a
\* locked one has both legs on chain, and its resolution is one that happened;
\* no channel holds a claim before the taker has revealed.
RecordAgrees ==
    /\ record.resolution # "none" => Locked
    /\ record.init # "none" => htlc[record.init] # "none"
    /\ Locked => \A c \in Legs : htlc[c] # "none"
    /\ record.resolution = "secret" => revealed
    /\ record.resolution = "refunded" => \E c \in Legs : htlc[c] = "refunded"
    /\ claimQueued # {} => revealed

\* A process counters a deposit once at most, and not at all if its channel
\* started past the deposit, the first event of channel A: its own counter,
\* read back as the first commitment of a swap it forgot, is not mirrored.  So a
\* deposit has a second counter only when a restart hands it over again.
OneCounter ==
    /\ counters <= 1
    /\ counters = 1 => stored["A"] = 0

\* The resolution of a swap is final while the process runs: a refund of one
\* leg and a reveal of the other never overwrite each other.
ResolutionIsFinal ==
    [][record.resolution # "none" /\ record' # record => record' = NoRecord]_handlerVars

\* An LP that is not restarted claims its deposit once the taker has claimed
\* the counter, whether the secret reaches it on chain, by gossip, or both.
LpClaimsUnlessRestarted ==
    (is_lp /\ htlc["B"] = "claimed") ~> (htlc["A"] # "open" \/ crashes > 0)

\* "the LP claims its own settled legs" (load.rs:47): the same of an LP that
\* may be restarted.
LpClaimsItsLeg ==
    (is_lp /\ htlc["B"] = "claimed") ~> htlc["A"] # "open"
=============================================================================
