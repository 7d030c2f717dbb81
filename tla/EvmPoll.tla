------------------------------ MODULE EvmPoll ------------------------------
(***************************************************************************)
(* The intake of an EVM channel: PollState and poll_finalized read the     *)
(* confirmed blocks of a chain that may reorganise its unconfirmed end,    *)
(* through RPC calls that may fail, in a process that may be killed at any *)
(* step and restarts from the cursor on disk.  A block stands for the HTLC *)
(* logs it carries.                                                        *)
(***************************************************************************)
EXTENDS Integers, Sequences, FiniteSetsExt

CONSTANTS
    Blocks,                       \* what a block may contain
    minimum_block_confirmations,
    max_blocks_per_poll,
    MaxHeight,                    \* bound: blocks mined at any one time
    MaxReorgs,                    \* bound: reorganisations
    MaxCrashes,                   \* bound: kills of the process
    NoCursor                      \* an empty cursor store

ASSUME PollAssumption ==
    /\ minimum_block_confirmations \in Nat
    /\ max_blocks_per_poll \in Nat
    /\ MaxHeight \in Nat /\ MaxReorgs \in Nat /\ MaxCrashes \in Nat
    /\ NoCursor \notin Nat
    /\ Blocks # {}

VARIABLES
    chain,      \* the canonical chain; the block at height h is chain[h + 1]
    final,      \* blocks below this height have been confirmed once
    reorgs,     \* reorganisations so far
    pc,         \* where poll_finalized stands
    cursor,     \* PollState.cursor: the next height to fetch
    stored,     \* the cursor store
    end,        \* end of the range being fetched
    logs,       \* fetched blocks not yet tracked, as [height, block]
    events,     \* tracked blocks not yet returned to the driver loop
    tracked,    \* history: everything track_actionable_event was given
    handed,     \* history: everything returned to the driver loop
    start,      \* history: the cursor of the last boot without a stored one
    lost,       \* history: heights passed by a saved cursor, cut by a crash
    crashes

chainVars == <<chain, final, reorgs>>
nodeVars  == <<pc, cursor, stored, end, logs, events>>
history   == <<tracked, handed, start, lost, crashes>>
pollVars == <<chainVars, nodeVars, history>>

HeadBlock == Len(chain) - 1

Monus(a, b) == IF a >= b THEN a - b ELSE 0

\* connect's first cursor: one past the last confirmed block.
FallbackCursor(head) == Monus(head, minimum_block_confirmations) + 1

PollInit ==
    /\ chain \in {<<b>> : b \in Blocks}
    /\ final = Monus(1, minimum_block_confirmations)
    /\ reorgs = 0
    /\ pc = "idle"
    /\ cursor = FallbackCursor(0)
    /\ stored = NoCursor
    /\ end = 0
    /\ logs = <<>> /\ events = <<>>
    /\ tracked = <<>> /\ handed = <<>>
    /\ start = cursor
    /\ lost = {}
    /\ crashes = 0

-----------------------------------------------------------------------------
(* The chain.  A reorganisation drops unconfirmed blocks only: the number  *)
(* of confirmations is chosen so that deeper ones do not happen.           *)

Mine ==
    /\ Len(chain) < MaxHeight
    /\ \E b \in Blocks : chain' = Append(chain, b)
    /\ final' = Max({final, Monus(Len(chain) + 1, minimum_block_confirmations)})
    /\ UNCHANGED <<reorgs, nodeVars, history>>

Reorg ==
    /\ reorgs < MaxReorgs
    /\ reorgs' = reorgs + 1
    /\ \E n \in 1 .. Len(chain) - 1 : n >= final /\ chain' = SubSeq(chain, 1, n)
    /\ UNCHANGED <<final, nodeVars, history>>

-----------------------------------------------------------------------------
(* poll_finalized, cut where it awaits the RPC or can be killed.           *)

\* next_range: the end of the next range to fetch, or cursor for none.
RangeEnd(head, confirmed_end) ==
    IF head < minimum_block_confirmations \/ cursor >= confirmed_end
    THEN cursor
    ELSE Min({confirmed_end, cursor + Max({max_blocks_per_poll, 1})})

\* Mutant: the newest confirmed block is left out.
NextEndLagging(head) == RangeEnd(head, head - minimum_block_confirmations)

NextEnd(head) == RangeEnd(head, head - minimum_block_confirmations + 1)

\* eth_blockNumber answers: fetch logs next, or save the unchanged cursor.
BlockNumber ==
    /\ pc = "idle"
    /\ end' = NextEnd(HeadBlock)
    /\ pc' = IF end' = cursor THEN "save" ELSE "getLogs"
    /\ UNCHANGED <<chainVars, cursor, stored, logs, events, history>>

\* Mutant: a failed call skips the range.
RpcFailsAdvances ==
    /\ pc \in {"idle", "getLogs"}
    /\ pc' = "save"
    /\ cursor' = IF pc = "getLogs" THEN end ELSE cursor
    /\ UNCHANGED <<chainVars, stored, end, logs, events, history>>

\* eth_blockNumber or eth_getLogs fails: no logs, the cursor stays.
RpcFails ==
    /\ pc \in {"idle", "getLogs"}
    /\ pc' = "save"
    /\ end' = cursor
    /\ UNCHANGED <<chainVars, cursor, stored, logs, events, history>>

\* Mutant: the end of the range is read as inclusive.
GetLogsInclusive ==
    /\ pc = "getLogs"
    /\ logs' = [i \in 1 .. Min({end + 1, Len(chain)}) - cursor |->
                  [height |-> cursor + i - 1, block |-> chain[cursor + i]]]
    /\ cursor' = end
    /\ pc' = "save"
    /\ UNCHANGED <<chainVars, stored, end, events, history>>

\* eth_getLogs answers for the inclusive range cursor .. end - 1, and the
\* cursor advances in memory.
GetLogs ==
    /\ pc = "getLogs"
    /\ logs' = [i \in 1 .. end - cursor |->
                  [height |-> cursor + i - 1, block |-> chain[cursor + i]]]
    /\ cursor' = end
    /\ pc' = "save"
    /\ UNCHANGED <<chainVars, stored, end, events, history>>

SaveCursor ==
    /\ pc = "save"
    /\ stored' = cursor
    /\ pc' = "track"
    /\ UNCHANGED <<chainVars, cursor, end, logs, events, history>>

\* decode_log and track_actionable_event, log by log.
TrackLog ==
    /\ pc = "track"
    /\ logs # <<>>
    /\ tracked' = Append(tracked, logs[1])
    /\ events' = Append(events, logs[1])
    /\ logs' = Tail(logs)
    /\ UNCHANGED <<chainVars, pc, cursor, stored, end, handed, start, lost, crashes>>

\* The block timestamp is read (or not) and the events go to the driver loop.
ReturnEvents ==
    /\ pc = "track"
    /\ logs = <<>>
    /\ handed' = handed \o events
    /\ events' = <<>>
    /\ pc' = "idle"
    /\ UNCHANGED <<chainVars, cursor, stored, end, logs, tracked, start, lost, crashes>>

\* connect: the stored cursor, or the fallback when there is none.
BootCursor == IF stored = NoCursor THEN FallbackCursor(HeadBlock) ELSE stored

\* The process is killed and connects again.
Crash ==
    /\ crashes < MaxCrashes
    /\ crashes' = crashes + 1
    /\ cursor' = BootCursor
    /\ pc' = "idle"
    /\ end' = 0
    /\ logs' = <<>> /\ events' = <<>>
    /\ start' = IF stored = NoCursor THEN cursor' ELSE start
    /\ lost' = IF pc = "track" THEN lost \cup {logs[i].height : i \in DOMAIN logs}
               ELSE lost
    /\ UNCHANGED <<chainVars, stored, tracked, handed>>

Poll == BlockNumber \/ GetLogs \/ SaveCursor \/ TrackLog \/ ReturnEvents

PollNext == Mine \/ Reorg \/ Poll \/ RpcFails \/ Crash

PollSpec == PollInit /\ [][PollNext]_pollVars

\* The driver loop polls for ever; an RPC that keeps being called answers
\* again and again; a chain that was reorganised grows back.
Fairness ==
    /\ WF_pollVars(Poll \/ RpcFails) /\ SF_pollVars(BlockNumber) /\ SF_pollVars(GetLogs)
    /\ WF_pollVars(Mine)

PollFairSpec == PollSpec /\ Fairness

-----------------------------------------------------------------------------
Entry == [height : Nat, block : Blocks]

TypeOK ==
    /\ chain \in Seq(Blocks) /\ Len(chain) > 0
    /\ final \in 0 .. Len(chain)
    /\ reorgs \in 0 .. MaxReorgs
    /\ pc \in {"idle", "getLogs", "save", "track"}
    /\ cursor \in Nat /\ end \in Nat
    /\ stored \in Nat \cup {NoCursor}
    /\ logs \in Seq(Entry) /\ events \in Seq(Entry)
    /\ tracked \in Seq(Entry) /\ handed \in Seq(Entry)
    /\ start \in Nat /\ lost \subseteq Nat /\ crashes \in 0 .. MaxCrashes

\* Nothing the node acted on is ever reorganised away: each tracked log sits
\* in the canonical chain at the height it was read from, for good.
TrackedIsFinal ==
    \A i \in DOMAIN tracked :
        /\ tracked[i].height < final
        /\ chain[tracked[i].height + 1] = tracked[i].block

\* Logs are tracked in chain order and none of them twice, across failed
\* calls, partial ranges and restarts.
TrackedInOrder ==
    \A i, j \in DOMAIN tracked : i < j => tracked[i].height < tracked[j].height

TrackedHeights == {tracked[i].height : i \in DOMAIN tracked}

\* Between two polls every block from the first cursor up to the current one
\* was tracked, but for those a kill cut off after the cursor was saved.
GapsOnlyFromCrashes ==
    pc = "idle" => start .. cursor - 1 = TrackedHeights \cup lost

\* Each confirmed log is tracked exactly once and in chain order, across failed
\* calls, partial ranges and restarts, but for what a kill cut off after the
\* cursor was saved (poll_finalized, PollState::advance).
TrackedExactlyOnce == TrackedInOrder /\ GapsOnlyFromCrashes

\* "PollState cursor must never move backwards" (finality.rs:52): neither the
\* cursor on disk, restarts included, nor the one in memory while the process
\* lives.
CursorNeverBackwards ==
    [][/\ stored # NoCursor => stored' >= stored
       /\ crashes' = crashes => cursor' >= cursor]_pollVars

\* "Tracks the last block that we have successfully polled, ensures that we
\* never miss a block" (finality.rs:16-17).
NeverMissABlock ==
    pc = "idle" => start .. cursor - 1 \subseteq TrackedHeights

\* Every block that is confirmed is handed to the driver loop, if the process
\* is not killed.
ConfirmedIsHanded ==
    \A h \in 0 .. MaxHeight :
        (h < final /\ h >= cursor /\ crashes = MaxCrashes)
            ~> (\E i \in DOMAIN handed : handed[i].height = h)
=============================================================================
