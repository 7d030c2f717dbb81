------------------------------- MODULE Gateway -------------------------------
(***************************************************************************)
(* The browser gateway: a page constructs it from a configuration, calls   *)
(* connect() (perhaps twice), registers callbacks at any time and          *)
(* registers its commitment.  The node behind it reports quotes and swap   *)
(* stages through unbounded queues, which two drain tasks empty into the   *)
(* callbacks, and its peer count through a polling task.  A quote request  *)
(* leaves no state here.                                                   *)
(*                                                                         *)
(* A page is single threaded: what runs between two awaits is one step.    *)
(* One swap; what the peers answer and what the chains show is left open.  *)
(* A call that returns an error at once changes nothing and is left out.   *)
(* See Rfq for the messages and the claim's check.                         *)
(***************************************************************************)
EXTENDS Naturals, Sequences, FiniteSets

CONSTANTS
    Calls,       \* overlapping connect() calls
    Listeners,   \* callbacks the page may register
    Pages,       \* what the page may construct it from: [observer_channels,
                 \*   bootstrap_peers], each {} or {the value given}
    MaxEvents,   \* bound on the events of one kind
    MaxPeers     \* bound on the peer count

VARIABLES
    config,      \* Inner.config: none before it is constructed, taken by connect()
    call,        \* connect call -> where it stands
    started,     \* how many times Node::start was entered
    running,     \* the node's tasks run (before Node::start has returned)
    node,        \* Inner.node: none, or what Node::start assembled
    emitted,     \* kind -> everything the node sent
    waiting,     \* kind -> what the drain has not received
    callbacks,   \* kind -> registered callbacks
    heard,       \* kind -> callback -> what it was called with
    early,       \* callbacks registered before connect() had returned
    peer_count,  \* the node's peer count
    reported,    \* the last count the poll reported
    claim,       \* the taker's pending claim: "none", "pending", "fired"
    registration \* register_kaspa_deposit: where it stands

gatewayVars == <<config, call, started, running, node, emitted, waiting, callbacks, heard,
                 early, peer_count, reported, claim, registration>>

Kinds == {"quote", "status"}
Absent == [is |-> "none"]
Taken == [is |-> "taken"]

\* Mutant: the drains run as soon as the node's loops are spawned.
DrainingEarly == running

\* The drains are spawned when connect() has stored the node.
Draining == node # Absent

-----------------------------------------------------------------------------
(* The configuration.                                                       *)

\* ChannelId::try_from(&str) on lower-case names; "" stands for its error.
try_from(name) ==
    CASE name \in {"kaspa", "kaspa-tn10", "kaspa_tn10", "kaspatn10"} -> "KaspaTn10"
      [] name \in {"ethereum", "sepolia", "ethereum-sepolia", "ethereum_sepolia",
                   "ethereumsepolia"} -> "EthereumSepolia"
      [] name \in {"igra", "igra-galleon", "igra_galleon", "igragalleon"} -> "IgraGalleon"
      [] OTHER -> ""
is_evm(id) == id \in {"EthereumSepolia", "IgraGalleon"}

default_observer_channels == {"ethereum-sepolia", "igra-galleon", "kaspa-tn10"}
default_bootstrap_peers == {"seed"}

\* A gateway observes: it has no private keys.
gateway_node_config(cfg) ==
    LET names == UNION IF cfg.observer_channels = {} THEN {default_observer_channels}
                                                     ELSE cfg.observer_channels
        ids == {try_from(name) : name \in names}
    IN  IF "" \in ids THEN Absent
        ELSE [is |-> "config", channels |-> ids, role |-> "Observer",
              peers |-> UNION IF cfg.bootstrap_peers = {} THEN {default_bootstrap_peers}
                                                         ELSE cfg.bootstrap_peers]

-----------------------------------------------------------------------------
GatewayInit ==
    /\ config = Absent
    /\ call = [c \in Calls |-> [is |-> "idle"]]
    /\ started = 0 /\ running = FALSE /\ node = Absent
    /\ emitted = [k \in Kinds |-> <<>>] /\ waiting = [k \in Kinds |-> <<>>]
    /\ callbacks = [k \in Kinds |-> {}]
    /\ heard = [k \in Kinds |-> [l \in Listeners |-> <<>>]]
    /\ early = [k \in Kinds |-> {}]
    /\ peer_count = 0 /\ reported = MaxPeers + 1
    /\ claim = "none" /\ registration = "none"

-----------------------------------------------------------------------------
(* The constructor and connect().                                           *)

claimVars == <<claim, registration>>
eventVars == <<emitted, waiting, callbacks, heard, early, peer_count, reported>>

new(cfg) ==
    /\ config = Absent
    /\ config' = gateway_node_config(cfg)
    /\ UNCHANGED <<call, started, running, node, eventVars, claimVars>>

\* The configuration is taken before Node::start is awaited; the call keeps it.
connect(c) ==
    /\ call[c].is = "idle" /\ config # Absent
    /\ IF node # Absent \/ config = Taken
       THEN call' = [call EXCEPT ![c] = [is |-> "failed"]] /\ UNCHANGED <<config, started>>
       ELSE /\ call' = [call EXCEPT ![c] = [is |-> "starting", cfg |-> config]]
            /\ config' = Taken
            /\ started' = started + 1
    /\ UNCHANGED <<running, node, eventVars, claimVars>>

\* The channels are connected and the node's loops spawned ...
spawn_processing(c) ==
    /\ call[c].is = "starting"
    /\ call' = [call EXCEPT ![c].is = "spawned"]
    /\ running' = TRUE
    /\ UNCHANGED <<config, started, node, eventVars, claimVars>>

\* ... or a channel fails, and the gateway stays without a configuration.
StartFails(c) ==
    /\ call[c].is = "starting"
    /\ call' = [call EXCEPT ![c] = [is |-> "failed"]]
    /\ UNCHANGED <<config, started, running, node, eventVars, claimVars>>

assemble(cfg) == [is |-> "node", channels |-> cfg.channels, role |-> cfg.role]

\* Node::start returns: the node is stored and the drains spawned.
Connected(c) ==
    /\ call[c].is = "spawned"
    /\ IF node # Absent
       THEN call' = [call EXCEPT ![c] = [is |-> "failed"]] /\ UNCHANGED node
       ELSE /\ call' = [call EXCEPT ![c] = [is |-> "done"]]
            /\ node' = assemble(call[c].cfg)
    /\ UNCHANGED <<config, started, running, eventVars, claimVars>>

-----------------------------------------------------------------------------
(* The page.                                                                *)

\* onQuote, onSwapStatus.
Register(k, l) ==
    /\ config # Absent
    /\ \A j \in Kinds : l \notin callbacks[j]
    /\ callbacks' = [callbacks EXCEPT ![k] = @ \cup {l}]
    /\ early' = IF node = Absent THEN [early EXCEPT ![k] = @ \cup {l}] ELSE early
    /\ UNCHANGED <<config, call, started, running, node, emitted, waiting, heard,
                   peer_count, reported, claimVars>>

\* The other calls need the node, and one that is not an LP.
require_node == node # Absent
MayInitiate == require_node /\ node.role # "Lp"

\* registerCommitment: the claim is recorded first.  On an EVM chain the page
\* makes the deposit itself.
register_commitment(source) ==
    /\ MayInitiate /\ claim = "none"
    /\ claim' = "pending"
    /\ registration' = IF is_evm(source) THEN "page" ELSE "deriving"
    /\ UNCHANGED <<config, call, started, running, node, eventVars>>

\* The sink hands the script to the channel that detects them, if the node has it.
utxo_script_detector(id) == id \in node.channels /\ ~is_evm(id)
register_script ==
    /\ registration = "deriving"
    /\ registration' = IF utxo_script_detector("KaspaTn10") THEN "watched" ELSE "failed"
    /\ UNCHANGED <<config, call, started, running, node, eventVars, claim>>

-----------------------------------------------------------------------------
(* The node.                                                                *)

send(k, e) ==
    /\ running /\ Len(emitted[k]) < MaxEvents
    /\ emitted' = [emitted EXCEPT ![k] = Append(@, e)]
    /\ waiting' = [waiting EXCEPT ![k] = Append(@, e)]
    /\ UNCHANGED <<config, call, started, running, node, callbacks, heard, early,
                   peer_count, reported>>

SwapStage == {"AwaitingDeposit", "CommitSubmitted", "Locked", "Completed", "Failed"}
emit_status(stage) == stage \in SwapStage /\ send("status", stage)

\* The script is announced to the peers, and the page told where to deposit.
register_kaspa_deposit ==
    /\ registration = "watched"
    /\ registration' = "page"
    /\ emit_status("AwaitingDeposit")
    /\ UNCHANGED claim

\* An LP's response, checked; whether the page asked for one is not.
report_quote ==
    /\ send("quote", Len(emitted["quote"]) + 1)
    /\ UNCHANGED <<claim, registration>>

\* An LP's rejection is a failure of the swap to the page, quoted by others or not.
on_proposal_error ==
    /\ emit_status("Failed")
    /\ UNCHANGED <<claim, registration>>

\* The taker's own deposit is confirmed while its claim is pending.
OwnDeposit ==
    /\ claim = "pending" /\ registration = "page"
    /\ emit_status("Locked")
    /\ UNCHANGED <<claim, registration>>

\* A matching counter is confirmed: the claim leaves the map, the secret goes out.
TransmitReveal ==
    /\ claim = "pending" /\ registration = "page"
    /\ claim' = "fired"
    /\ \E stage \in {"Completed", "Failed"} : emit_status(stage)
    /\ UNCHANGED registration

PeersChange ==
    /\ running /\ peer_count' \in 0..MaxPeers \ {peer_count}
    /\ UNCHANGED <<config, call, started, running, node, emitted, waiting, callbacks,
                   heard, early, reported, claimVars>>

-----------------------------------------------------------------------------
(* The drains and the poll.                                                 *)

\* One event goes to the callbacks registered by now.
spawn_drain(k) ==
    /\ Draining /\ waiting[k] # <<>>
    /\ waiting' = [waiting EXCEPT ![k] = Tail(@)]
    /\ heard' = [heard EXCEPT ![k] = [l \in Listeners |->
                    IF l \in callbacks[k] THEN Append(@[l], Head(waiting[k])) ELSE @[l]]]
    /\ UNCHANGED <<config, call, started, running, node, emitted, callbacks, early,
                   peer_count, reported, claimVars>>

\* Only a change is reported.
spawn_peer_count_poll ==
    /\ require_node /\ reported # peer_count
    /\ reported' = peer_count
    /\ UNCHANGED <<config, call, started, running, node, emitted, waiting, callbacks,
                   heard, early, peer_count, claimVars>>

-----------------------------------------------------------------------------
Connecting ==
    \/ \E cfg \in Pages : new(cfg)
    \/ \E c \in Calls : connect(c) \/ spawn_processing(c) \/ StartFails(c) \/ Connected(c)

Page ==
    \/ \E k \in Kinds, l \in Listeners : Register(k, l)
    \/ \E source \in {"KaspaTn10", "IgraGalleon"} : register_commitment(source)

NodeStep ==
    \/ register_script
    \/ register_kaspa_deposit
    \/ report_quote
    \/ on_proposal_error
    \/ OwnDeposit
    \/ TransmitReveal
    \/ PeersChange
    \/ \E k \in Kinds : spawn_drain(k)
    \/ spawn_peer_count_poll

GatewayNext == Connecting \/ Page \/ NodeStep

GatewaySpec == GatewayInit /\ [][GatewayNext]_gatewayVars

-----------------------------------------------------------------------------
(* Properties.                                                              *)

(***************************************************************************)
(* However connect() calls and events overlap, one node is started at most *)
(* and a callback registered before connect() has returned misses nothing: *)
(* what it has heard and what is still queued is, in order, everything the *)
(* node has sent, the events sent while Node::start was still running      *)
(* included.  (connect, spawn_drain, Node::start)                          *)
(***************************************************************************)
EarlyListenersMissNothing ==
    /\ started <= 1
    /\ \A k \in Kinds : \A l \in early[k] : heard[k][l] \o waiting[k] = emitted[k]

=============================================================================
