---------------------------- MODULE StoreProofs -----------------------------
(***************************************************************************)
(* Proofs about what a node keeps in memory and on disk: the daemon over   *)
(* its database (Daemon) and the Kaspa channel (KaspaChannel).             *)
(***************************************************************************)
EXTENDS Daemon, KaspaChannel, TLAPS

-----------------------------------------------------------------------------
(***************************************************************************)
(* Proofs about the daemon over its database, for any channels, swaps,     *)
(* records, configurations and number of restarts.                         *)
(***************************************************************************)

-----------------------------------------------------------------------------
(* The tables and the memory.                                              *)

\* The row of a swap is what its channel last stored, or damaged.
Row(k) ==
    IF k \in DOMAIN swaps
    THEN IF k \in damaged THEN swaps[k].version = 0
         ELSE k \in DOMAIN wrote /\ wrote[k] # Missing /\ swaps[k] = encode(wrote[k])
    ELSE k \in DOMAIN wrote => wrote[k] = Missing

Tables ==
    /\ DOMAIN swaps \subseteq Keys /\ damaged \subseteq DOMAIN swaps
    /\ swaps = [k \in DOMAIN swaps |-> swaps[k]]
    /\ \A k \in Keys : Row(k)

\* Channels are connected only by a process.
Memory ==
    /\ DOMAIN mem \subseteq Channels
    /\ mem = [c \in DOMAIN mem |-> mem[c]]
    /\ proc.is = "down" => DOMAIN mem = {}

StoreInv == Tables /\ Memory /\ MemoryIsWhatWasStored

LEMMA PairsAreKeys ==
    /\ \A c \in Channels, id \in Ids : <<c, id>> \in Keys
    /\ \A k \in Keys : k[1] \in Channels /\ k[2] \in Ids /\ k = <<k[1], k[2]>>
  BY DEF Keys

LEMMA RestoreKeepsInv ==
    ASSUME StoreInv, NEW c \in Channels, NEW ok \in BOOLEAN, restore(c, ok),
           UNCHANGED <<swaps, wrote, damaged>>, proc'.is # "down"
    PROVE  StoreInv'
  <1> DEFINE rows == IF ok THEN get_swaps_for_channel(c) ELSE {}
             good == {k \in rows : decode(swaps[k]).is = "current"}
             unread == get_swaps_for_channel(c) \ rows
             read == [id \in {k[2] : k \in good} |-> decode(swaps[Key(c, id)]).body]
  <1>1. /\ mem' = [d \in DOMAIN mem \cup {c} |-> IF d # c THEN mem[d] ELSE read]
        /\ \E kept \in SUBSET (rows \ good) :
             /\ quarantine_swap(kept)
             /\ unsynced' = unsynced \cup unread \cup ((rows \ good) \ kept)
    BY DEF restore
  <1>2. PICK kept \in SUBSET (rows \ good) :
             /\ quarantine_swap(kept)
             /\ unsynced' = unsynced \cup unread \cup ((rows \ good) \ kept)
    BY <1>1
  <1>3. DOMAIN quarantine' = DOMAIN quarantine \cup kept
    BY <1>2 DEF quarantine_swap
  <1>4. Tables'
    BY DEF StoreInv, Tables, Row
  <1>5. Memory'
    BY <1>1 DEF StoreInv, Memory
  <1>6. MemoryIsWhatWasStored'
    <2> SUFFICES ASSUME NEW d \in DOMAIN mem', NEW id \in Ids, <<d, id>> \notin unsynced'
                 PROVE  IF <<d, id>> \in damaged
                        THEN Known(d, id)' = Missing /\ <<d, id>> \in DOMAIN quarantine'
                        ELSE Known(d, id)' = Written(d, id)
      BY DEF MemoryIsWhatWasStored, Written
    <2>1. CASE d # c
      <3>1. d \in DOMAIN mem /\ mem'[d] = mem[d] /\ <<d, id>> \notin unsynced
        BY <2>1, <1>1, <1>2
      <3> QED BY <3>1, <1>3 DEF StoreInv, MemoryIsWhatWasStored, Known
    <2>2. CASE d = c
      <3> DEFINE k == <<c, id>>
      <3>1. mem'[d] = read /\ k \in Keys /\ Row(k) /\ k[1] = c /\ k[2] = id
        BY <2>2, <1>1, PairsAreKeys, SMTT(30) DEF StoreInv, Tables
      <3>2. k \in DOMAIN swaps <=> k \in get_swaps_for_channel(c)
        BY <3>1 DEF get_swaps_for_channel
      <3>3. k \in DOMAIN swaps => k \in rows
        BY <2>2, <3>2, <1>2
      <3>4. id \in DOMAIN read <=> k \in good
        <4>1. \A g \in good : g \in Keys /\ g[1] = c
          BY DEF get_swaps_for_channel, StoreInv, Tables
        <4>2. \A g \in good : g[2] = id => g = k
          BY <4>1, PairsAreKeys
        <4> QED BY <4>2, <3>1
      <3>5. CASE k \in damaged
        <4>1. k \in DOMAIN swaps /\ k \in rows /\ k \notin good
          BY <3>1, <3>3, <3>5, SMTT(30) DEF StoreInv, Tables, Row, decode
        <4>2. k \in kept
          BY <4>1, <2>2, <1>2
        <4> QED BY <4>1, <4>2, <3>1, <3>4, <3>5, <2>2, <1>3 DEF Known
      <3>6. CASE k \notin damaged /\ k \in DOMAIN swaps
        <4>1. swaps[k] = encode(wrote[k]) /\ k \in DOMAIN wrote
          BY <3>1, <3>6, SMTT(30) DEF Row
        <4>2. decode(swaps[k]) = [is |-> "current", body |-> wrote[k]]
          BY <4>1, SMTT(30) DEF encode, decode
        <4>3. k \in good
          BY <4>2, <3>3, <3>6
        <4>4. read[id] = wrote[k]
          BY <4>2, <4>3, <3>4, SMTT(30) DEF Key
        <4> QED BY <4>1, <4>3, <4>4, <3>1, <3>4, <3>6, <2>2, Zenon DEF Known, Written
      <3>7. CASE k \notin damaged /\ k \notin DOMAIN swaps
        <4>1. k \notin good
          BY <3>2, <3>7
        <4> QED BY <4>1, <3>1, <3>4, <3>7, <2>2, SMTT(30) DEF Known, Written, Row
      <3> QED BY <3>5, <3>6, <3>7
    <2> QED BY <2>1, <2>2
  <1> QED BY <1>4, <1>5, <1>6 DEF StoreInv

LEMMA PersistKeepsInv ==
    ASSUME StoreInv, NEW c \in Channels, NEW id \in Ids, NEW body, NEW ok \in BOOLEAN,
           persist(c, id, body, ok)
    PROVE  StoreInv'
  <1> DEFINE k == <<c, id>>
             m == IF is_empty(body) THEN [i \in DOMAIN mem[c] \ {id} |-> mem[c][i]]
                  ELSE [i \in DOMAIN mem[c] \cup {id} |-> IF i = id THEN body ELSE mem[c][i]]
  <1>1. /\ c \in DOMAIN mem /\ mem' = [mem EXCEPT ![c] = m]
        /\ UNCHANGED <<proc, quarantine>>
    BY DEF persist
  <1>2. k \in Keys /\ Key(c, id) = k
    BY PairsAreKeys DEF Key
  <1>3. Memory'
    BY <1>1, Zenon DEF StoreInv, Memory
  <1>4. \A d \in DOMAIN mem, i \in Ids : <<d, i>> # k => Known(d, i)' = Known(d, i)
    <2> SUFFICES ASSUME NEW d \in DOMAIN mem, NEW i \in Ids, <<d, i>> # k
                 PROVE  Known(d, i)' = Known(d, i)
      OBVIOUS
    <2>1. CASE d # c
      BY <2>1, <1>1 DEF Known, StoreInv, Memory
    <2>2. CASE d = c
      <3>1. i # id /\ mem'[d] = m
        BY <2>2, <1>1 DEF StoreInv, Memory
      <3> QED BY <3>1, <2>2 DEF Known
    <2> QED BY <2>1, <2>2
  <1>5. Known(c, id)' = body
    <2>1. mem'[c] = m
      BY <1>1 DEF StoreInv, Memory
    <2> QED BY <2>1 DEF Known, is_empty
  <1>6. DOMAIN mem' = DOMAIN mem
    BY <1>1
  <1>7. CASE ~ok
    <2>1. unsynced' = unsynced \cup {k} /\ UNCHANGED <<swaps, wrote, damaged>>
      BY <1>7 DEF persist
    <2>2. Tables'
      BY <2>1 DEF StoreInv, Tables, Row
    <2>3. MemoryIsWhatWasStored'
      BY <2>1, <1>1, <1>4, <1>6 DEF StoreInv, MemoryIsWhatWasStored, Written
    <2> QED BY <2>2, <2>3, <1>3 DEF StoreInv
  <1>8. CASE ok
    <2>1. /\ IF is_empty(body) THEN remove_swap(k) ELSE set_swap(k, encode(body))
          /\ wrote' = [j \in DOMAIN wrote \cup {k} |-> IF j = k THEN body ELSE wrote[j]]
          /\ unsynced' = unsynced \ {k}
          /\ damaged' = damaged \ {k}
      BY <1>8, <1>2 DEF persist
    <2>2. Tables'
      BY <2>1, <1>2 DEF StoreInv, Tables, Row, remove_swap, set_swap, is_empty
    <2>3. MemoryIsWhatWasStored'
      <3> SUFFICES ASSUME NEW d \in DOMAIN mem, NEW i \in Ids, <<d, i>> \notin unsynced'
                   PROVE  IF <<d, i>> \in damaged'
                          THEN Known(d, i)' = Missing /\ <<d, i>> \in DOMAIN quarantine
                          ELSE Known(d, i)' = Written(d, i)'
        BY <1>1, <1>6 DEF MemoryIsWhatWasStored
      <3>1. CASE <<d, i>> = k
        BY <3>1, <2>1, <1>5 DEF Written
      <3>2. CASE <<d, i>> # k
        <4>1. <<d, i>> \notin unsynced /\ (<<d, i>> \in damaged' <=> <<d, i>> \in damaged)
          BY <3>2, <2>1, SMTT(30)
        <4>2. Written(d, i)' = Written(d, i)
          BY <3>2, <2>1 DEF Written
        <4> QED BY <4>1, <4>2, <3>2, <1>4, SMTT(30) DEF StoreInv, MemoryIsWhatWasStored
      <3> QED BY <3>1, <3>2
    <2> QED BY <2>2, <2>3, <1>3 DEF StoreInv
  <1> QED BY <1>7, <1>8

-----------------------------------------------------------------------------
(* The process.                                                            *)

Fields == {"is", "cfg", "todo", "addresses", "network", "tasks"}
Up == proc.is \in {"connecting", "running"}

ProcInv ==
    /\ DOMAIN peers \subseteq Peers
    /\ proc.is # "down" =>
        /\ Up
        /\ proc = [f \in Fields |-> proc[f]]
        /\ into_node_config(proc.cfg)
        /\ proc.network.bootstrap_peers \subseteq proc.cfg.peers \cup Peers
        /\ \A c \in DOMAIN proc.cfg.channels : c \in proc.todo \/ c \in DOMAIN mem
    /\ proc.is = "running" =>
        /\ proc.todo = {}
        /\ proc.tasks = spawn_native_services(proc.cfg.lp)
        /\ \A c \in DOMAIN proc.cfg.channels :
              proc.cfg.channels[c].key # Missing => c \in proc.addresses

DaemonInv == StoreInv /\ ProcInv

LEMMA DaemonInitInv == DaemonInit => DaemonInv
  <1> SUFFICES ASSUME DaemonInit PROVE DaemonInv
    OBVIOUS
  <1>1. DOMAIN NoRows = {} /\ NoRows = [x \in {} |-> NoRows[x]]
    BY DEF NoRows
  <1>2. proc.is = "down"
    BY DEF DaemonInit, Down
  <1>3. StoreInv
    BY <1>1, <1>2 DEF DaemonInit, StoreInv, Tables, Row, Memory, MemoryIsWhatWasStored
  <1>4. ProcInv
    BY <1>1, <1>2 DEF DaemonInit, ProcInv
  <1> QED BY <1>3, <1>4 DEF DaemonInv

\* What StoreInv looks at, but for the process.
DaemonView == <<mem, swaps, quarantine, wrote, unsynced, damaged>>

LEMMA SameStore ==
    ASSUME StoreInv, UNCHANGED DaemonView, proc'.is = "down" => proc.is = "down"
    PROVE  StoreInv'
  BY DEF StoreInv, DaemonView, Tables, Row, Memory, MemoryIsWhatWasStored, Known, Written

LEMMA ExitKeepsInv == DaemonInv /\ Exit => DaemonInv'
  <1> SUFFICES ASSUME DaemonInv, Exit PROVE DaemonInv'
    OBVIOUS
  <1>1. /\ proc'.is = "down" /\ DOMAIN mem' = {} /\ mem' = [c \in DOMAIN mem' |-> mem'[c]]
        /\ UNCHANGED <<swaps, peers, wrote, damaged>>
    BY DEF Exit, Down, NoRows, disk
  <1>2. StoreInv'
    BY <1>1 DEF DaemonInv, StoreInv, Tables, Row, Memory, MemoryIsWhatWasStored
  <1> QED BY <1>1, <1>2 DEF DaemonInv, ProcInv

LEMMA DaemonNextInv == DaemonInv /\ [DaemonNext]_daemonVars => DaemonInv'
  <1> SUFFICES ASSUME DaemonInv, [DaemonNext]_daemonVars PROVE DaemonInv'
    OBVIOUS
  <1>1. CASE UNCHANGED daemonVars
    BY <1>1, SameStore DEF DaemonInv, daemonVars, DaemonView, ProcInv, Up
  <1>2. ASSUME NEW file \in Configs, NEW opened \in BOOLEAN, Main(file, opened) PROVE DaemonInv'
    <2>1. /\ proc.is = "down" /\ UNCHANGED <<DaemonView, peers>>
      BY <1>2 DEF Main, DaemonView, disk
    <2>2. StoreInv'
      BY <2>1, SameStore DEF DaemonInv
    <2> DEFINE cfg == DaemonConfig(file)
    <2>3. CASE opened /\ into_node_config(cfg)
      <3> HIDE DEF cfg
      <3>1. proc' = [is |-> "connecting", cfg |-> cfg, todo |-> DOMAIN cfg.channels,
                     addresses |-> {}, network |-> build_network(cfg), tasks |-> {}]
        BY <1>2, <2>3 DEF Main, cfg
      <3>2. get_peers \subseteq Peers
        BY DEF get_peers, DaemonInv, ProcInv
      <3> QED BY <3>1, <3>2, <2>1, <2>2, <2>3, Zenon DEF DaemonInv, ProcInv, Up, Fields, build_network
    <2>4. CASE ~(opened /\ into_node_config(cfg))
      <3>1. proc' = Down
        BY <1>2, <2>4 DEF Main
      <3> QED BY <3>1, <2>1, <2>2 DEF DaemonInv, ProcInv, Down
    <2> QED BY <2>3, <2>4
  <1>3. ASSUME NEW c \in Channels, NEW head, NEW rows_ok \in BOOLEAN, NEW cursor_ok,
               build_buffer(c, head, rows_ok, cursor_ok)
        PROVE  DaemonInv'
    <2>1. /\ proc.is = "connecting" /\ proc' = [proc EXCEPT !.todo = @ \ {c}]
          /\ restore(c, rows_ok) /\ UNCHANGED <<swaps, peers, wrote, damaged>>
      BY <1>3 DEF build_buffer
    <2>2. /\ proc'.is = "connecting" /\ proc'.todo = proc.todo \ {c}
          /\ proc'.cfg = proc.cfg /\ proc'.network = proc.network
          /\ proc' = [f \in Fields |-> proc'[f]]
      BY <2>1, Zenon DEF DaemonInv, ProcInv, Fields
    <2>3. StoreInv'
      BY <2>1, <2>2, RestoreKeepsInv DEF DaemonInv
    <2>4. DOMAIN mem' = DOMAIN mem \cup {c}
      BY <2>1 DEF restore
    <2> QED BY <2>1, <2>2, <2>3, <2>4 DEF DaemonInv, ProcInv, Up
  <1>4. CASE ConnectFails \/ Stop
    BY <1>4, ExitKeepsInv DEF ConnectFails, Stop
  <1>5. CASE build_handler_and_sink
    <2> DEFINE keyed == {c \in DOMAIN proc.cfg.channels : proc.cfg.channels[c].key # Missing}
    <2>1. /\ proc.is = "connecting" /\ proc.todo = {}
          /\ proc' = [proc EXCEPT !.is = "running", !.addresses = keyed,
                                  !.tasks = spawn_native_services(proc.cfg.lp)]
          /\ UNCHANGED <<DaemonView, peers>>
      BY <1>5 DEF build_handler_and_sink, DaemonView, disk
    <2>2. /\ proc'.is = "running" /\ proc'.todo = {} /\ proc'.addresses = keyed
          /\ proc'.tasks = spawn_native_services(proc.cfg.lp)
          /\ proc'.cfg = proc.cfg /\ proc'.network = proc.network
          /\ proc' = [f \in Fields |-> proc'[f]]
      BY <2>1, Zenon DEF DaemonInv, ProcInv, Fields
    <2>3. StoreInv'
      BY <2>1, <2>2, SameStore, Zenon DEF DaemonInv
    <2> QED BY <2>1, <2>2, <2>3, Zenon DEF DaemonInv, ProcInv, Up, DaemonView
  <1>6. ASSUME NEW c \in Channels, NEW id \in Ids, NEW b, NEW ok \in BOOLEAN,
               persist(c, id, b, ok)
        PROVE  DaemonInv'
    <2>1. UNCHANGED <<proc, peers>> /\ DOMAIN mem' = DOMAIN mem
      BY <1>6 DEF persist
    <2> QED BY <1>6, <2>1, PersistKeepsInv DEF DaemonInv, ProcInv, Up
  <1>7. ASSUME NEW c \in Channels, NEW ok \in BOOLEAN, set_cursor(c, ok) PROVE DaemonInv'
    BY <1>7, SameStore DEF set_cursor, DaemonView, DaemonInv, ProcInv, Up
  <1>8. ASSUME NEW p \in Peers, add_peer(p) PROVE DaemonInv'
    <2>1. UNCHANGED <<proc, DaemonView>> /\ DOMAIN peers' = DOMAIN peers \cup {p}
      BY <1>8, Zenon DEF add_peer, DaemonView
    <2> QED BY <2>1, SameStore DEF DaemonView, DaemonInv, ProcInv, Up
  <1>9. ASSUME NEW c \in Channels, NEW id \in Ids, Damage(c, id) PROVE DaemonInv'
    <2> DEFINE k == <<c, id>>
    <2>1. /\ proc.is = "down" /\ k \in DOMAIN swaps
          /\ swaps' = [swaps EXCEPT ![k].version = 0] /\ damaged' = damaged \cup {k}
          /\ UNCHANGED <<proc, mem, peers, quarantine, wrote, unsynced>>
      BY <1>9 DEF Damage
    <2>2. Tables'
      <3>1. DOMAIN swaps' = DOMAIN swaps /\ \A j \in DOMAIN swaps : j # k => swaps'[j] = swaps[j]
        BY <2>1 DEF DaemonInv, StoreInv, Tables
      <3>2. swaps'[k].version = 0
        <4>1. Row(k)
          BY <2>1, PairsAreKeys DEF DaemonInv, StoreInv, Tables
        <4>2. "version" \in DOMAIN swaps[k] \/ swaps[k].version = 0
          BY <4>1, <2>1 DEF Row, encode
        <4>3. swaps'[k] = [swaps[k] EXCEPT !.version = 0]
          BY <2>1
        <4> QED BY <4>2, <4>3
      <3>3. swaps' = [j \in DOMAIN swaps' |-> swaps'[j]]
        BY <2>1, Zenon
      <3>4. \A j \in Keys : Row(j)'
        BY <2>1, <3>1, <3>2 DEF DaemonInv, StoreInv, Tables, Row
      <3> QED BY <2>1, <3>1, <3>3, <3>4 DEF DaemonInv, StoreInv, Tables
    <2>3. Memory' /\ MemoryIsWhatWasStored'
      BY <2>1 DEF DaemonInv, StoreInv, Memory, MemoryIsWhatWasStored
    <2> QED BY <2>1, <2>2, <2>3 DEF DaemonInv, StoreInv, ProcInv, Up
  <1>10. ASSUME NEW p \in Peers, DamagePeer(p) PROVE DaemonInv'
    <2>1. UNCHANGED <<proc, DaemonView>> /\ DOMAIN peers' = DOMAIN peers
      BY <1>10 DEF DamagePeer, DaemonView
    <2> QED BY <2>1, SameStore DEF DaemonView, DaemonInv, ProcInv, Up
  <1> QED
    BY <1>1, <1>2, <1>3, <1>4, <1>5, <1>6, <1>7, <1>8, <1>9, <1>10 DEF DaemonNext, Boot, Store

-----------------------------------------------------------------------------
LEMMA Invariance == DaemonSpec => []DaemonInv
  BY DaemonInitInv, DaemonNextInv, PTL DEF DaemonSpec

\* Across restarts, reconfigurations and failed reads and writes, a connected
\* channel knows of a swap exactly what it last stored (restore, DbSwapStore).
THEOREM StoredIsRestored == DaemonSpec => []MemoryIsWhatWasStored
  <1>1. DaemonInv => MemoryIsWhatWasStored
    BY DEF DaemonInv, StoreInv
  <1> QED BY <1>1, Invariance, PTL

\* Whatever the configuration file says, an LP that runs settles on, and has an
\* address on, every channel it quotes on, with a buffer that covers its lock
\* (into_node_config, build_handler_and_sink).
THEOREM LpsAreWhole == DaemonSpec => []RunningLpIsWhole
  <1>1. DaemonInv => RunningLpIsWhole
    BY DEF DaemonInv, ProcInv, RunningLpIsWhole, into_node_config, into_spec, BufferSuffices,
           spawn_native_services
  <1> QED BY <1>1, Invariance, PTL

-----------------------------------------------------------------------------
(* The Kaspa channel: where its tasks stand.                               *)

Tasks == [driver : {"idle", "schedule", "track", "dropClaim", "forget", "commit", "register"},
          peer : {"idle", "pushClaim", "ensureClaim"}, settler : {"idle", "submit"},
          event : {"None", "Commitment", "Reveal", "Refund"}, key : Actions,
          healthy : BOOLEAN]
TaskType == task \in Tasks

LEMMA TaskInit == ChannelInit => TaskType
BY DEF ChannelInit, AllIdle, TaskType, Tasks, Actions

LEMMA TaskNext ==
    ASSUME TaskType, [ChannelNext]_channelVars
    PROVE  TaskType'
<1> USE DEF TaskType, Tasks
<1>1. CASE Environment
    BY <1>1 DEF Environment, TakerPays, OthersSpend, Confirm, TimePasses, ElsewhereUnchanged
<1>2. CASE IntakeStep
    BY <1>2 DEF IntakeStep, SendBlock, SetCursor
<1>3. CASE HandleBlock
    <2>1. \A tx : handle_block_added(tx) \in {"None", "Commitment", "Reveal", "Refund"}
        BY DEF handle_block_added, spend_event, paid_event
    <2> QED BY <1>3, <2>1, Zenon DEF HandleBlock
<1>4. CASE ScheduleRefund \/ TrackTerminal \/ DropClaim
    BY <1>4 DEF ScheduleRefund, TrackTerminal, DropClaim, Goto
<1>5. CASE TrackNothing \/ TrackCommitment \/ Forget \/ SubmitCommitmentFails \/ RegisterOwn
    BY <1>5, Zenon DEF TrackNothing, TrackCommitment, Forget, SubmitCommitmentFails, RegisterOwn,
       DriverDone
<1>6. CASE PruneScripts
    BY <1>6 DEF PruneScripts
<1>7. ASSUME NEW answered \in BOOLEAN, SubmitCommitment(answered) PROVE TaskType'
    BY <1>7 DEF SubmitCommitment, Goto
<1>8. CASE PeerStep \/ EmitCommitment \/ EmitReveal \/ \E script \in ScriptEntries : RegisterScript(script)
    BY <1>8 DEF PeerStep, PushClaim, EnsureClaim, EmitCommitment, RegisterScript, EmitReveal, Goto
<1>9. ASSUME NEW k \in Actions, NEW healthy \in BOOLEAN, Pick(k, healthy) PROVE TaskType'
    BY <1>9, Zenon DEF Pick
<1>10. CASE SubmitSpend \/ SubmitFails
    BY <1>10, Zenon DEF SubmitSpend, SubmitFails, SettlerDone, Actions
<1>11. CASE Crash
    BY <1>11 DEF Crash, AllIdle, Actions
<1>12. CASE UNCHANGED channelVars
    BY <1>12 DEF channelVars
<1> QED BY <1>1, <1>2, <1>3, <1>4, <1>5, <1>6, <1>7, <1>8, <1>9, <1>10, <1>11, <1>12
        DEF ChannelNext, DriverStep, SettlerStep

-----------------------------------------------------------------------------
(* The Kaspa channel.  What the intake has sent is confirmed, in order, and *)
(* nothing of it is lost between the channel and the driver before a kill.  *)

KaspaBlocks == [tx : {"none", "full", "short", "Claim", "Refund"}, chain : BOOLEAN]

IntakeInv ==
    /\ dag \in Seq(KaspaBlocks) /\ deep \in Nat /\ deep <= Len(dag)
    /\ sent \in Nat /\ sent <= deep /\ cursor \in Nat /\ cursor <= sent
    /\ channel \in Seq(Nat) /\ \A j \in 1..Len(channel) : channel[j] \in 1..sent
    /\ handled \in SUBSET (1..sent)
    /\ crashes \in Nat
    /\ crashes = 0 =>
          \A i \in 1..sent : i \in handled \/ \E j \in 1..Len(channel) : channel[j] = i

\* A mined transaction is appended to the blocks, which stay what they were.
LEMMA MinedAppends ==
    ASSUME NEW what \in {"full", "short", "Claim", "Refund"}, dag \in Seq(KaspaBlocks),
           Mined(what)
    PROVE  /\ dag' \in Seq(KaspaBlocks) /\ Len(dag) <= Len(dag')
           /\ \A i \in 1..Len(dag') : dag'[i].tx \in {what, "none"} \/
                                      (i \in 1..Len(dag) /\ dag'[i] = dag[i])
<1> DEFINE b == [tx |-> what, chain |-> TRUE]
           m == [tx |-> what, chain |-> FALSE]
           e == [tx |-> "none", chain |-> TRUE]
<1>1. b \in KaspaBlocks /\ m \in KaspaBlocks /\ e \in KaspaBlocks
    BY DEF KaspaBlocks
<1>2. b.tx = what /\ m.tx = what /\ e.tx = "none"
    OBVIOUS
<1>3. dag' = Append(dag, b) \/ dag' = dag \o <<m, e>>
    BY Zenon DEF Mined
<1> HIDE DEF b, m, e
<1>4. CASE dag' = Append(dag, b)
    BY <1>1, <1>2, <1>4
<1>5. CASE dag' = dag \o <<m, e>>
    <2>1. Len(dag) \in Nat /\ <<m, e>> \in Seq(KaspaBlocks) /\ Len(<<m, e>>) = 2
        BY <1>1
    <2>2. /\ dag' \in Seq(KaspaBlocks) /\ Len(dag') = Len(dag) + 2
          /\ \A i \in 1..(Len(dag) + 2) : dag'[i] = IF i <= Len(dag) THEN dag[i]
                                                 ELSE <<m, e>>[i - Len(dag)]
        BY <1>1, <1>5, <2>1
    <2>3. \A i \in 1..(Len(dag) + 2) : i \in 1..Len(dag) \/ i - Len(dag) = 1 \/ i - Len(dag) = 2
        BY <2>1
    <2>4. <<m, e>>[1] = m /\ <<m, e>>[2] = e
        OBVIOUS
    <2> QED BY <1>2, <2>1, <2>2, <2>3, <2>4
<1> QED BY <1>3, <1>4, <1>5, Zenon

\* Steps that leave the intake, the channel and the driver's record alone.
LEMMA IntakeSame ==
    ASSUME IntakeInv, UNCHANGED <<intakeVars, channel, handled, crashes>>,
           dag' \in Seq(KaspaBlocks), deep' \in Nat, deep <= deep', deep' <= Len(dag')
    PROVE  IntakeInv'
BY DEF IntakeInv, intakeVars

LEMMA IntakeNext ==
    ASSUME TaskType, IntakeInv, [ChannelNext]_channelVars
    PROVE  IntakeInv'
<1>1. dag \in Seq(KaspaBlocks) /\ deep \in Nat /\ deep <= Len(dag)
    BY DEF IntakeInv
<1>2. ASSUME UNCHANGED <<intakeVars, channel, handled, crashes, deep>>,
             dag' = dag \/ \E what \in {"full", "short", "Claim", "Refund"} : Mined(what)
      PROVE  IntakeInv'
    <2>1. dag' \in Seq(KaspaBlocks) /\ Len(dag) <= Len(dag')
        BY <1>1, <1>2, MinedAppends
    <2>2. Len(dag) \in Nat /\ Len(dag') \in Nat
        BY <1>1, <2>1
    <2> QED BY <1>1, <1>2, <2>1, <2>2, IntakeSame
<1>3. CASE Environment
    <2>1. CASE Confirm
        <3>1. deep' = deep + 1 /\ deep < Len(dag) /\ dag' = dag
              /\ UNCHANGED <<intakeVars, channel, handled, crashes>>
            BY <2>1 DEF Confirm, ElsewhereUnchanged
        <3>2. Len(dag) \in Nat
            BY <1>1
        <3> QED BY <1>1, <3>1, <3>2, IntakeSame
    <2>2. CASE TimePasses
        BY <1>2, <2>2 DEF TimePasses, ElsewhereUnchanged
    <2>3. ASSUME NEW amount \in {"full", "short"}, TakerPays(amount) PROVE IntakeInv'
        BY <1>2, <2>3 DEF TakerPays, ElsewhereUnchanged
    <2>4. ASSUME NEW action \in Actions, OthersSpend(action) PROVE IntakeInv'
        BY <1>2, <2>4 DEF OthersSpend, Spend, ElsewhereUnchanged, Actions
    <2> QED BY <1>3, <2>1, <2>2, <2>3, <2>4 DEF Environment
<1>4. CASE SendBlock
    <2>1. /\ sent + 1 <= deep
          /\ channel' = Append(channel, sent + 1) /\ sent' = sent + 1
          /\ UNCHANGED <<dag, deep, cursor, handled, crashes>>
        <3>1. \E j \in (sent + 1)..deep : dag[j].chain
            BY <1>4 DEF SendBlock, Flushable
        <3>2. sent \in Nat /\ deep \in Nat
            BY DEF IntakeInv
        <3> QED BY <1>4, <3>1, <3>2 DEF SendBlock, chainVars
    <2>2. /\ channel' \in Seq(Nat) /\ Len(channel') = Len(channel) + 1 /\ Len(channel) \in Nat
          /\ channel'[Len(channel) + 1] = sent + 1
          /\ \A j \in 1..Len(channel) : channel'[j] = channel[j]
        BY <2>1 DEF IntakeInv
    <2> QED BY <2>1, <2>2 DEF IntakeInv
<1>5. CASE SetCursor
    BY <1>5 DEF SetCursor, new_cursor, IntakeInv, chainVars
<1>6. CASE DriverStep
    <2>1. CASE HandleBlock
        <3>1. /\ channel # <<>> /\ channel' = Tail(channel)
              /\ handled' = handled \cup {Head(channel)}
              /\ UNCHANGED <<dag, deep, sent, cursor, crashes>>
            BY <2>1, Zenon DEF HandleBlock, chainVars, intakeVars
        <3>2. /\ channel' \in Seq(Nat) /\ Len(channel') = Len(channel) - 1
              /\ Len(channel) \in Nat /\ Len(channel) > 0 /\ Head(channel) = channel[1]
              /\ \A j \in 1..Len(channel') : channel'[j] = channel[j + 1]
            BY <3>1 DEF IntakeInv
        <3>3. \A j \in 1..Len(channel) : channel[j] \in 1..sent
            BY Zenon DEF IntakeInv
        <3>4. /\ handled' \in SUBSET (1..sent)
              /\ \A j \in 1..Len(channel') : channel'[j] \in 1..sent
            <4>1. 1 \in 1..Len(channel) /\ \A j \in 1..Len(channel') : j + 1 \in 1..Len(channel)
                BY <3>2
            <4>2. handled \in SUBSET (1..sent)
                BY Zenon DEF IntakeInv
            <4> QED BY <3>1, <3>2, <3>3, <4>1, <4>2, Zenon
        <3>5. ASSUME crashes = 0, NEW i \in 1..sent
              PROVE  i \in handled' \/ \E j \in 1..Len(channel') : channel'[j] = i
            <4>1. CASE i \in handled
                BY <3>1, <4>1
            <4>2. CASE i \notin handled
                <5>1. PICK j \in 1..Len(channel) : channel[j] = i
                    BY <3>5, <4>2 DEF IntakeInv
                <5>2. CASE j = 1
                    BY <3>1, <3>2, <5>1, <5>2
                <5>3. CASE j # 1
                    <6>1. j - 1 \in 1..Len(channel') /\ channel'[j - 1] = channel[j]
                        BY <3>2, <5>1, <5>3
                    <6> QED BY <5>1, <6>1
                <5> QED BY <5>2, <5>3
            <4> QED BY <4>1, <4>2
        <3> QED BY <3>1, <3>2, <3>4, <3>5 DEF IntakeInv
    <2>2. ASSUME NEW answered \in BOOLEAN, SubmitCommitment(answered) PROVE IntakeInv'
        BY <1>2, <2>2 DEF SubmitCommitment
    <2>3. ASSUME DriverUnchanged PROVE IntakeInv'
        BY <1>2, <2>3 DEF DriverUnchanged, chainVars
    <2> QED BY <1>6, <2>1, <2>2, <2>3 DEF DriverStep, ScheduleRefund, TrackNothing,
            TrackCommitment, TrackTerminal, DropClaim, Forget, PruneScripts,
            SubmitCommitmentFails, RegisterOwn
<1>7. CASE PeerStep \/ EmitCommitment \/ EmitReveal \/ \E script \in ScriptEntries : RegisterScript(script)
    BY <1>2, <1>7 DEF PeerStep, PushClaim, EnsureClaim, EmitCommitment, RegisterScript,
       EmitReveal, chainVars
<1>8. CASE SettlerStep
    <2>1. CASE SubmitSpend
        <3>1. task.key \in {"Claim", "Refund"}
            BY DEF TaskType, Tasks, Actions
        <3> QED BY <1>2, <2>1, <3>1 DEF SubmitSpend, Spend
    <2>2. CASE SubmitFails
        BY <1>2, <2>2 DEF SubmitFails, DriverUnchanged, chainVars
    <2>3. ASSUME NEW k \in Actions, NEW healthy \in BOOLEAN, Pick(k, healthy) PROVE IntakeInv'
        BY <1>2, <2>3 DEF Pick, DriverUnchanged, chainVars
    <2> QED BY <1>8, <2>1, <2>2, <2>3 DEF SettlerStep
<1>9. CASE Crash
    BY <1>9 DEF Crash, IntakeInv, chainVars
<1>10. CASE UNCHANGED channelVars
    BY <1>2, <1>10 DEF channelVars, chainVars
<1> QED BY <1>3, <1>4, <1>5, <1>6, <1>7, <1>8, <1>9, <1>10 DEF ChannelNext, IntakeStep

\* What the cursor has passed has been decoded or is on its way, until a kill.
THEOREM CursorIsBehind == ChannelSpec => []CursorPassesHanded
<1>1. ChannelInit => IntakeInv
    BY DEF ChannelInit, IntakeInv
<1>2. TaskType /\ IntakeInv /\ [ChannelNext]_channelVars => TaskType' /\ IntakeInv'
    BY TaskNext, IntakeNext
<1>3. IntakeInv => CursorPassesHanded
    BY DEF IntakeInv, CursorPassesHanded
<1> QED BY <1>1, <1>2, <1>3, TaskInit, PTL DEF ChannelSpec

-----------------------------------------------------------------------------
(* The Kaspa channel: what it needs to settle.  A pending refund is queued,*)
(* and until the output is spent no block shows a spend, so no task        *)
(* forgets the swap; a registered address, a pending refund and a payment  *)
(* being handled come with a script: the swap's, or another under its id.  *)

Scripted(m) == "scripts" \in m \/ "other_script" \in m

OpenInv ==
    /\ \A i \in 1..Len(dag) : dag[i].tx \notin Actions
    /\ ("utxo_scripts" \in maps \/ "pending_refunds" \in maps) => Scripted(maps)
    /\ "utxo_scripts" \notin store.maps
    /\ "pending_refunds" \in store.maps => Scripted(store.maps)
    /\ task.driver \in {"schedule", "track"} =>
          task.event \in {"Commitment", "None"} /\ Scripted(maps)
    /\ task.driver \notin {"dropClaim", "forget"}
    /\ seen => "commitments" \in maps /\ (participate_ccr => "pending_refunds" \in maps)

SettleInv ==
    /\ own = "yes" => utxo = "none"
    /\ task.driver = "commit" => own = "emitted" /\ utxo = "none"
    /\ "pending_refunds" \in maps => "Refund" \in queue
    /\ (task.driver = "track" /\ task.event = "Commitment" /\ participate_ccr)
          => "pending_refunds" \in maps
    /\ utxo # "spent" => OpenInv

\* Steps that leave the chain, the maps, the queue and the store alone.
LEMMA SettleSame ==
    ASSUME SettleInv, UNCHANGED <<dag, utxo, own, nodeVars, seen>>,
           task'.driver = task.driver, task'.event = task.event
    PROVE  SettleInv'
BY DEF SettleInv, OpenInv, Scripted, nodeVars

\* Steps that store what the maps hold, and change none.
LEMMA SettleSaved ==
    ASSUME SettleInv, UNCHANGED <<dag, own, maps, queue, seen>>, persist_swap,
           utxo' = utxo \/ (utxo' = "spent" /\ utxo # "none"),
           task'.driver = task.driver, task'.event = task.event
    PROVE  SettleInv'
BY DEF SettleInv, OpenInv, Scripted, ScriptEntries, persist_swap

LEMMA SettleNext ==
    ASSUME TaskType, IntakeInv, SettleInv, [ChannelNext]_channelVars
    PROVE  SettleInv'
<1>1. dag \in Seq(KaspaBlocks)
    BY DEF IntakeInv
<1>2. CASE Environment
    <2>1. ASSUME NEW amount \in {"full", "short"}, TakerPays(amount) PROVE SettleInv'
        <3>1. \A i \in 1..Len(dag') : dag'[i].tx \in {amount, "none"} \/
                                     (i \in 1..Len(dag) /\ dag'[i] = dag[i])
            BY <1>1, <2>1, MinedAppends DEF TakerPays
        <3>2. /\ utxo = "none" /\ utxo' = amount /\ own = "no" /\ own' = "no"
              /\ UNCHANGED <<maps, queue, store, task, seen>>
            BY <2>1 DEF TakerPays, ElsewhereUnchanged, nodeVars
        <3> QED BY <3>1, <3>2 DEF SettleInv, OpenInv, Scripted, Actions
    <2>2. ASSUME NEW action \in Actions, OthersSpend(action) PROVE SettleInv'
        BY <2>2 DEF OthersSpend, Spend, Spendable, ElsewhereUnchanged, nodeVars, SettleInv
    <2>3. CASE Confirm \/ TimePasses
        BY <2>3, SettleSame DEF Confirm, TimePasses, ElsewhereUnchanged
    <2> QED BY <1>2, <2>1, <2>2, <2>3 DEF Environment
<1>3. CASE IntakeStep
    BY <1>3, SettleSame DEF IntakeStep, SendBlock, SetCursor, chainVars
<1>4. CASE HandleBlock
    <2> DEFINE tx == dag[Head(channel)].tx
    <2>1. /\ UNCHANGED <<dag, utxo, own, queue, store, seen>> /\ task.driver = "idle"
          /\ maps' = maps \ Closed(tx)
          /\ \/ /\ "utxo_scripts" \in maps
                /\ task'.driver = IF tx \notin Actions /\ participate_ccr THEN "schedule" ELSE "track"
                /\ task'.event = handle_block_added(tx)
             \/ task' = task
        <3>1. task \in Tasks
            BY DEF TaskType
        <3> QED BY <1>4, <3>1, Zenon DEF HandleBlock, Tasks, Holds, chainVars
    <2>2. Head(channel) \in 1..Len(dag)
        <3>1. channel \in Seq(Nat) /\ channel # <<>>
            BY <1>4, Zenon DEF HandleBlock, IntakeInv
        <3>2. Head(channel) = channel[1] /\ 1 \in 1..Len(channel)
            BY <3>1
        <3>3. Len(dag) \in Nat
            BY <1>1
        <3> QED BY <3>2, <3>3 DEF IntakeInv
    <2>3. utxo # "spent" => tx \notin Actions
        BY <2>2 DEF SettleInv, OpenInv, Scripted
    <2>4. tx \notin Actions => /\ handle_block_added(tx) \in {"Commitment", "None"}
                               /\ Closed(tx) = {}
        BY DEF handle_block_added, paid_event, Closed
    <2>5. tx \in Actions => handle_block_added(tx) # "Commitment" /\ Closed(tx) = {"utxo_scripts"}
        BY DEF handle_block_added, spend_event, Closed
    <2> HIDE DEF tx
    <2> QED BY <2>1, <2>3, <2>4, <2>5 DEF SettleInv, OpenInv, Scripted
<1>5. CASE ScheduleRefund
    <2>1. task'.driver = "track" /\ task'.event = task.event
        BY <1>5 DEF ScheduleRefund, Goto, TaskType, Tasks
    <2> QED BY <1>5, <2>1 DEF ScheduleRefund, DriverUnchanged, chainVars, persist_swap, Holds, ScriptEntries,
            SettleInv, OpenInv, Scripted
<1>6. CASE TrackNothing \/ SubmitCommitmentFails
    <2>1. task'.driver = "idle"
        BY <1>6, Zenon DEF TrackNothing, SubmitCommitmentFails, DriverDone, TaskType, Tasks
    <2> QED BY <1>6, <2>1 DEF TrackNothing, SubmitCommitmentFails, DriverUnchanged, chainVars,
            nodeVars, SettleInv, OpenInv, Scripted
<1>7. CASE TrackCommitment
    <2>1. task'.driver = "idle"
        BY <1>7 DEF TrackCommitment, DriverDone, TaskType, Tasks
    <2> QED BY <1>7, <2>1 DEF TrackCommitment, Tracked, Insert, CommitmentEntries, DriverUnchanged, chainVars, persist_swap, ScriptEntries,
            SettleInv, OpenInv, Scripted
<1>8. CASE TrackTerminal \/ DropClaim \/ Forget
    <2>1. utxo = "spent"
        BY <1>8 DEF TrackTerminal, DropClaim, Forget, SettleInv, OpenInv, Scripted
    <2>2. task'.driver \in {"dropClaim", "forget", "idle"}
        BY <1>8, Zenon DEF TrackTerminal, DropClaim, Forget, Goto, DriverDone, TaskType, Tasks
    <2>3. "pending_refunds" \in maps' => "pending_refunds" \in maps /\ queue' = queue
        BY <1>8 DEF TrackTerminal, DropClaim, Forget
    <2>4. UNCHANGED <<utxo, own>>
        BY <1>8 DEF TrackTerminal, DropClaim, Forget, DriverUnchanged, chainVars
    <2> QED BY <2>1, <2>2, <2>3, <2>4 DEF SettleInv
<1>9. CASE PruneScripts
    BY <1>9 DEF PruneScripts, DriverUnchanged, chainVars, SettleInv, OpenInv, Scripted
<1>10. ASSUME NEW answered \in BOOLEAN, SubmitCommitment(answered) PROVE SettleInv'
    <2>1. \A i \in 1..Len(dag') : dag'[i].tx \in {"full", "none"} \/
                                 (i \in 1..Len(dag) /\ dag'[i] = dag[i])
        BY <1>1, <1>10, MinedAppends DEF SubmitCommitment
    <2>2. task'.driver \in {"register", "idle"}
        BY <1>10 DEF SubmitCommitment, Goto, TaskType, Tasks
    <2>3. task.driver = "commit" /\ utxo' = "full" /\ UNCHANGED <<own, maps, queue, store, seen>>
        BY <1>10 DEF SubmitCommitment, nodeVars
    <2> QED BY <2>1, <2>2, <2>3 DEF SettleInv, OpenInv, Scripted, Actions
<1>11. CASE RegisterOwn
    <2>1. task'.driver = "idle"
        BY <1>11 DEF RegisterOwn, DriverDone, TaskType, Tasks
    <2> QED BY <1>11, <2>1 DEF RegisterOwn, Insert, DriverUnchanged, chainVars, persist_swap, ScriptEntries,
            SettleInv, OpenInv, Scripted
<1>12. CASE PushClaim
    <2>1. task'.driver = task.driver /\ task'.event = task.event
        BY <1>12 DEF PushClaim, Goto, TaskType, Tasks
    <2> QED BY <1>12, <2>1 DEF PushClaim, chainVars, SettleInv, OpenInv, Scripted
<1>13. CASE EnsureClaim
    <2>1. task'.driver = task.driver /\ task'.event = task.event
        BY <1>13 DEF EnsureClaim, Goto, TaskType, Tasks
    <2> QED BY <1>13, <2>1 DEF EnsureClaim, chainVars, persist_swap, ScriptEntries, SettleInv, OpenInv, Scripted
<1>14. CASE EmitCommitment
    <2>1. task'.driver = "commit"
        BY <1>14 DEF EmitCommitment, Goto, TaskType, Tasks
    <2> QED BY <1>14, <2>1 DEF EmitCommitment, Insert, CommitmentEntries, SettleInv, OpenInv, Scripted
<1>15. ASSUME NEW script \in ScriptEntries, RegisterScript(script) PROVE SettleInv'
    <2>1. /\ script \in maps' /\ \A m \in maps : m \in ScriptEntries \cup {"utxo_scripts"} \/ m \in maps'
          /\ \A m \in maps' : m \in maps \/ m \in ScriptEntries \cup {"utxo_scripts"}
        BY <1>15 DEF RegisterScript, Address, Insert, ScriptEntries
    <2> QED BY <1>15, <2>1 DEF RegisterScript, chainVars, persist_swap, ScriptEntries, SettleInv, OpenInv, Scripted
<1>16. CASE EmitReveal
    <2>1. task'.driver = task.driver /\ task'.event = task.event
        BY <1>16 DEF EmitReveal, Goto, TaskType, Tasks
    <2> QED BY <1>16, <2>1, SettleSame DEF EmitReveal, chainVars
<1>17. ASSUME NEW k \in Actions, NEW healthy \in BOOLEAN, Pick(k, healthy) PROVE SettleInv'
    <2>1. task'.driver = task.driver /\ task'.event = task.event
        BY <1>17, Zenon DEF Pick, TaskType, Tasks
    <2> QED BY <1>17, <2>1, SettleSame, SettleSaved DEF Pick, record_failure, DriverUnchanged,
            chainVars
<1>18. CASE SubmitSpend \/ SubmitFails
    <2>1. task'.driver = task.driver /\ task'.event = task.event
        BY <1>18, Zenon DEF SubmitSpend, SubmitFails, SettlerDone, TaskType, Tasks
    <2>2. utxo' = utxo \/ (utxo' = "spent" /\ utxo # "none")
        BY <1>18 DEF SubmitSpend, SubmitFails, Spend, Spendable, DriverUnchanged, chainVars
    <2>3. record_failure /\ UNCHANGED <<own, seen>>
        BY <1>18 DEF SubmitSpend, SubmitFails, DriverUnchanged, chainVars
    <2>4. CASE SubmitFails
        BY <2>1, <2>2, <2>3, <2>4, SettleSaved DEF record_failure, SubmitFails, DriverUnchanged,
           chainVars
    <2>5. CASE SubmitSpend
        BY <2>1, <2>3, <2>5 DEF record_failure, SubmitSpend, Spend, Spendable, SettleInv
    <2> QED BY <1>18, <2>4, <2>5
<1>19. CASE Crash
    <2>1. task'.driver = "idle"
        BY <1>19 DEF Crash, AllIdle
    <2>2. /\ UNCHANGED <<dag, utxo, own, store>> /\ seen' = FALSE
          /\ maps' = Restored
          /\ "pending_refunds" \in store.maps => "Refund" \in queue'
        BY <1>19 DEF Crash, chainVars, Actions
    <2>3. /\ "pending_refunds" \in maps' => "pending_refunds" \in store.maps
          /\ Scripted(store.maps) => Scripted(maps')
          /\ "utxo_scripts" \in maps' => "utxo_scripts" \in store.maps
        BY <2>2, Zenon DEF Restored, Scripted
    <2> QED BY <2>1, <2>2, <2>3 DEF SettleInv, OpenInv, Scripted
<1>20. CASE UNCHANGED channelVars
    BY <1>20, SettleSame DEF channelVars, chainVars
<1> QED BY <1>2, <1>3, <1>4, <1>5, <1>6, <1>7, <1>8, <1>9, <1>10, <1>11, <1>12, <1>13, <1>14,
           <1>15, <1>16, <1>17, <1>18, <1>19, <1>20
        DEF ChannelNext, DriverStep, PeerStep, SettlerStep

\* A process that tracked a commitment can settle it while its output is
\* unspent, whatever script is announced under its id, and so can a restart what
\* it finds on disk unless that was another script, whatever the order of the
\* driver's, the peer task's and the settler's steps and of the kills.
THEOREM SwapStaysSettleable == ChannelSpec => []StaysSettleable
<1>1. ChannelInit => IntakeInv /\ SettleInv
    BY DEF ChannelInit, IntakeInv, SettleInv, OpenInv, Scripted, AllIdle
<1>2. TaskType /\ IntakeInv /\ SettleInv /\ [ChannelNext]_channelVars
        => TaskType' /\ IntakeInv' /\ SettleInv'
    BY TaskNext, IntakeNext, SettleNext
<1>3. SettleInv => StaysSettleable
    BY DEF SettleInv, OpenInv, Scripted, StaysSettleable, Holds
<1> QED BY <1>1, <1>2, <1>3, TaskInit, PTL DEF ChannelSpec
=============================================================================
