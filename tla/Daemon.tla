------------------------------- MODULE Daemon -------------------------------
(***************************************************************************)
(* The daemon over its database: it reads its configuration and the saved  *)
(* peers, connects the channels one by one, each restoring its cursor and  *)
(* its swaps, assembles the node, saves cursors, swaps and peers while it  *)
(* runs, and is stopped or crashes at any moment.  The operator may change *)
(* the configuration, and a row may be damaged, while it is down.          *)
(*                                                                         *)
(* Both legs of a swap have the same swap id, so the tables are keyed by   *)
(* channel and swap id.  The transactions of the database are atomic and   *)
(* durable; one that fails is logged and changes nothing.  What a record   *)
(* says is left open here: see Settlement and KaspaChannel.                *)
(***************************************************************************)
EXTENDS Integers, FiniteSets, Chains

CONSTANTS
    default_commit_buffer_secs,
    Configs,     \* what the operator's file may hold
    Ids,         \* swap ids
    Bodies,      \* what a record of a swap may say
    Peers,       \* URLs of peers
    MaxCursor,   \* bound on the cursor
    MaxBoots     \* bound on the number of starts

VARIABLES
    proc,        \* the process: [is, cfg, todo, addresses, network, tasks]
    mem,         \* channel -> swap id -> record in memory, on connected channels
    memCursor,   \* channel -> cursor in memory, on connected channels
    swaps,       \* table: channel, swap id -> row
    cursors,     \* table: channel -> bytes
    peers,       \* table: URL of a peer -> row
    quarantine,  \* table: channel, swap id -> row
    wrote,       \* channel, swap id -> the record the channel last stored
    unsynced,    \* records whose last read or write failed in this run
    damaged,     \* rows damaged since they were written
    boots

disk == <<swaps, cursors, peers, quarantine>>
daemonVars == <<proc, mem, memCursor, swaps, cursors, peers, quarantine, wrote, unsynced,
               damaged, boots>>

Missing == "none"
NoRows == [x \in {} |-> Missing]
Down == [is |-> "down"]
Keys == Channels \X Ids

-----------------------------------------------------------------------------
(* The record codec.                                                        *)

encode(body) == [magic |-> "S", version |-> 1, body |-> body]

\* A damaged row has a version nobody knows or does not parse.
decode(row) ==
    IF row.magic = "S" /\ row.version = 1 THEN [is |-> "current", body |-> row.body]
                                          ELSE [is |-> "corrupt"]

-----------------------------------------------------------------------------
(* The configuration: cfg is [lp, buffer, trade, peers, channels] where     *)
(* trade says whether the trade limits and the spread are given, buffer is  *)
(* {} or {the seconds given}, and channels maps names to [key, ccr,         *)
(* confirmations, fields].                                                  *)

\* What the file leaves out has a default.
DaemonConfig(file) ==
    [file EXCEPT !.buffer = IF @ = {} THEN default_commit_buffer_secs ELSE CHOOSE secs \in @ : TRUE]

channel_id_from_name(name) == name \in Channels

\* The fields the chain's kind requires are there.
into_spec(ch) == ch.fields /\ ch.confirmations > 0

\* Mutant: the buffer need only cover the shortest lock time.
BufferSufficesOnce(cfg) == \E c \in DOMAIN cfg.channels : cfg.buffer >= LockTime[c]

BufferSuffices(cfg) == \A c \in DOMAIN cfg.channels : cfg.buffer >= LockTime[c]

into_node_config(cfg) ==
    /\ DOMAIN cfg.channels # {}
    /\ \A name \in DOMAIN cfg.channels :
         LET ch == cfg.channels[name]
         IN  /\ channel_id_from_name(name)
             /\ cfg.lp => ch.key # Missing /\ ch.ccr
             /\ ch.ccr => ch.key # Missing
             /\ into_spec(ch)
    /\ cfg.lp => BufferSuffices(cfg) /\ cfg.trade

-----------------------------------------------------------------------------
DaemonInit ==
    /\ proc = Down /\ mem = NoRows /\ memCursor = NoRows
    /\ swaps = NoRows /\ cursors = NoRows /\ peers = NoRows /\ quarantine = NoRows
    /\ wrote = NoRows /\ unsynced = {} /\ damaged = {}
    /\ boots = 0

\* Everything in memory is gone.
Exit ==
    /\ proc' = Down /\ mem' = NoRows /\ memCursor' = NoRows /\ unsynced' = {}
    /\ UNCHANGED <<disk, wrote, damaged, boots>>

\* A row that is no URL is skipped.
parse_peer_row(url) == peers[url] = url
get_peers == {url \in DOMAIN peers : parse_peer_row(url)}

\* The peers stored in the database are dialled like the configured ones.
build_network(cfg) == [bootstrap_peers |-> cfg.peers \cup get_peers, connected |-> {}]

\* The configuration is read and the database opened, which may fail.
Main(file, opened) ==
    LET cfg == DaemonConfig(file)
    IN  /\ proc.is = "down" /\ boots < MaxBoots
        /\ boots' = boots + 1
        /\ proc' = IF opened /\ into_node_config(cfg)
                   THEN [is |-> "connecting", cfg |-> cfg, todo |-> DOMAIN cfg.channels,
                         addresses |-> {}, network |-> build_network(cfg), tasks |-> {}]
                   ELSE Down
        /\ UNCHANGED <<mem, memCursor, disk, wrote, unsynced, damaged>>

-----------------------------------------------------------------------------
(* Connecting a channel.                                                    *)

\* Mutant: the legs of a swap share a row.
KeyOfSwap(c, id) == <<CHOOSE d \in Channels : TRUE, id>>

Key(c, id) == <<c, id>>

get_swaps_for_channel(c) == {k \in DOMAIN swaps : k[1] = c}

\* Eight bytes for a block number, thirty-two for a block hash.
CursorBytes(c) == IF c \in Evm THEN 8 ELSE 32

\* What is stored with another length is no cursor, and the chain's head is used.
load_cursor(c, head, ok) ==
    IF ok /\ c \in DOMAIN cursors /\ cursors[c].bytes = CursorBytes(c) THEN cursors[c].at ELSE head

quarantine_swap(keys) ==
    quarantine' = [k \in DOMAIN quarantine \cup keys |->
                      IF k \in keys THEN swaps[k] ELSE quarantine[k]]

\* Damaged rows are left out and copied to the quarantine, as far as that works;
\* they stay in the table.  A table that cannot be read counts as empty.
restore(c, ok) ==
    LET rows == IF ok THEN get_swaps_for_channel(c) ELSE {}
        good == {k \in rows : decode(swaps[k]).is = "current"}
        unread == get_swaps_for_channel(c) \ rows
    IN  /\ mem' = [d \in DOMAIN mem \cup {c} |->
                      IF d # c THEN mem[d]
                      ELSE [id \in {k[2] : k \in good} |-> decode(swaps[Key(c, id)]).body]]
        /\ \E kept \in SUBSET (rows \ good) :
             /\ quarantine_swap(kept)
             /\ unsynced' = unsynced \cup unread \cup ((rows \ good) \ kept)

\* An EVM channel parses its key to connect; a Kaspa channel first for its address.
build_providers(ch) == ch.key \in {Missing, "good"}
CanConnect(c) == c \in Evm => build_providers(proc.cfg.channels[c])

build_buffer(c, head, rows_ok, cursor_ok) ==
    /\ proc.is = "connecting" /\ c \in proc.todo /\ CanConnect(c)
    /\ restore(c, rows_ok)
    /\ memCursor' = [d \in DOMAIN memCursor \cup {c} |->
                     IF d = c THEN load_cursor(c, head, cursor_ok) ELSE memCursor[d]]
    /\ proc' = [proc EXCEPT !.todo = @ \ {c}]
    /\ UNCHANGED <<swaps, cursors, peers, wrote, damaged, boots>>

\* A chain that cannot be reached ends the start; so does a malformed key.
ConnectFails ==
    /\ proc.is = "connecting"
    /\ Exit

\* An LP polls the exchanges for prices.
spawn_native_services(lp) == {"drainer", "cleanup", "accept"} \cup IF lp THEN {"oracle"} ELSE {}

\* The LP's addresses are derived and the node's loops spawned.
build_handler_and_sink ==
    /\ proc.is = "connecting" /\ proc.todo = {}
    /\ LET keyed == {c \in DOMAIN proc.cfg.channels : proc.cfg.channels[c].key # Missing}
       IN  /\ \A c \in keyed : proc.cfg.channels[c].key = "good"
           /\ proc' = [proc EXCEPT !.is = "running", !.addresses = keyed,
                                  !.tasks = spawn_native_services(proc.cfg.lp)]
    /\ UNCHANGED <<mem, memCursor, disk, wrote, unsynced, damaged, boots>>

-----------------------------------------------------------------------------
(* While it runs; a connected channel's settler does not wait for the rest. *)

\* PersistedSwap: a record of nothing is no record.
is_empty(body) == body = Missing

set_swap(key, row) ==
    swaps' = [k \in DOMAIN swaps \cup {key} |-> IF k = key THEN row ELSE swaps[k]]
remove_swap(key) == swaps' = [k \in DOMAIN swaps \ {key} |-> swaps[k]]

\* A channel stores what it knows of a swap, or deletes the row of one it has
\* nothing left of; the write may fail.
persist(c, id, body, ok) ==
    /\ c \in DOMAIN mem
    /\ mem' = [mem EXCEPT ![c] =
                  IF is_empty(body) THEN [i \in DOMAIN @ \ {id} |-> @[i]]
                  ELSE [i \in DOMAIN @ \cup {id} |-> IF i = id THEN body ELSE @[i]]]
    /\ IF ~ok
       THEN unsynced' = unsynced \cup {<<c, id>>} /\ UNCHANGED <<swaps, wrote, damaged>>
       ELSE /\ IF is_empty(body) THEN remove_swap(Key(c, id)) ELSE set_swap(Key(c, id), encode(body))
            /\ wrote' = [k \in DOMAIN wrote \cup {<<c, id>>} |->
                            IF k = <<c, id>> THEN body ELSE wrote[k]]
            /\ unsynced' = unsynced \ {<<c, id>>}
            /\ damaged' = damaged \ {<<c, id>>}
    /\ UNCHANGED <<proc, memCursor, cursors, peers, quarantine, boots>>

\* The poll or the intake has moved on.
set_cursor(c, ok) ==
    /\ c \in DOMAIN memCursor /\ memCursor[c] < MaxCursor
    /\ memCursor' = [memCursor EXCEPT ![c] = @ + 1]
    /\ cursors' = IF ~ok THEN cursors
                  ELSE [d \in DOMAIN cursors \cup {c} |->
                           IF d = c THEN [bytes |-> CursorBytes(c), at |-> memCursor[c] + 1]
                           ELSE cursors[d]]
    /\ UNCHANGED <<proc, mem, swaps, peers, quarantine, wrote, unsynced, damaged, boots>>

\* Once a minute the listening address of each connected peer is stored, unless
\* the table has it.
get_peer(p) == p \in DOMAIN peers /\ parse_peer_row(p)
add_peer(p) ==
    /\ proc.is = "running" /\ ~get_peer(p)
    /\ peers' = [u \in DOMAIN peers \cup {p} |-> IF u = p THEN p ELSE peers[u]]
    /\ UNCHANGED <<proc, mem, memCursor, swaps, cursors, quarantine, wrote, unsynced,
                   damaged, boots>>

\* A signal, or a crash.
Stop == proc.is = "running" /\ Exit

\* A downgrade, or a fault of the disk.
Damage(c, id) ==
    /\ proc.is = "down" /\ <<c, id>> \in DOMAIN swaps
    /\ swaps' = [swaps EXCEPT ![<<c, id>>].version = 0]
    /\ damaged' = damaged \cup {<<c, id>>}
    /\ UNCHANGED <<proc, mem, memCursor, cursors, peers, quarantine, wrote, unsynced, boots>>

DamagePeer(p) ==
    /\ proc.is = "down" /\ p \in DOMAIN peers
    /\ peers' = [peers EXCEPT ![p] = "garbage"]
    /\ UNCHANGED <<proc, mem, memCursor, swaps, cursors, quarantine, wrote, unsynced, damaged, boots>>

-----------------------------------------------------------------------------
Boot ==
    \/ \E file \in Configs, opened \in BOOLEAN : Main(file, opened)
    \/ \E c \in Channels, head \in 0..MaxCursor, rows_ok, cursor_ok \in BOOLEAN :
          build_buffer(c, head, rows_ok, cursor_ok)
    \/ ConnectFails
    \/ build_handler_and_sink

Store ==
    \/ \E c \in Channels, id \in Ids, b \in Bodies \cup {Missing}, ok \in BOOLEAN :
          persist(c, id, b, ok)
    \/ \E c \in Channels, ok \in BOOLEAN : set_cursor(c, ok)
    \/ \E p \in Peers : add_peer(p)

DaemonNext ==
    \/ Boot \/ Store \/ Stop
    \/ \E c \in Channels, id \in Ids : Damage(c, id)
    \/ \E p \in Peers : DamagePeer(p)

DaemonSpec == DaemonInit /\ [][DaemonNext]_daemonVars

-----------------------------------------------------------------------------
(* Properties.                                                              *)

Written(c, id) == IF <<c, id>> \in DOMAIN wrote THEN wrote[<<c, id>>] ELSE Missing
Known(c, id) == IF id \in DOMAIN mem[c] THEN mem[c][id] ELSE Missing

(***************************************************************************)
(* A connected channel knows of a swap exactly what it itself last stored, *)
(* whatever the other leg of the swap stored under the same id and however *)
(* often the daemon stopped and was reconfigured in between: nothing it    *)
(* deleted comes back and nothing it stored is lost, unless reading or     *)
(* writing it failed in this run.  A record that was damaged meanwhile is  *)
(* unknown and its bytes are in the quarantine.  (restore, decode,         *)
(* DbSwapStore)                                                            *)
(***************************************************************************)
MemoryIsWhatWasStored ==
    \A c \in DOMAIN mem, id \in Ids :
        <<c, id>> \notin unsynced =>
            IF <<c, id>> \in damaged
            THEN Known(c, id) = Missing /\ <<c, id>> \in DOMAIN quarantine
            ELSE Known(c, id) = Written(c, id)

(***************************************************************************)
(* An LP that runs is whole: it has prices, settles on every channel it    *)
(* quotes on and knows its address there, and its commit buffer covers the *)
(* lock time of each, given or by default.  A peer it dials is configured  *)
(* or was stored whole.  (into_node_config, into_spec,                     *)
(* build_handler_and_sink, spawn_native_services, ChainDataSink::new)      *)
(***************************************************************************)
RunningLpIsWhole ==
    proc.is = "running" /\ proc.cfg.lp =>
        /\ "oracle" \in proc.tasks
        /\ proc.network.bootstrap_peers \subseteq proc.cfg.peers \cup Peers
        /\ \A c \in DOMAIN proc.cfg.channels :
            /\ c \in DOMAIN mem /\ c \in proc.addresses
            /\ proc.cfg.channels[c].ccr /\ proc.cfg.channels[c].confirmations > 0
            /\ \A d \in DOMAIN proc.cfg.channels : proc.cfg.buffer >= LockTime[d]

=============================================================================
