------------------------------ MODULE PeerLinks ------------------------------
(***************************************************************************)
(* The connections between the nodes of the peer-to-peer network: who      *)
(* dials, which of two crossing connections is kept, who is listed as a    *)
(* connected peer, and when an entry goes away.                            *)
(*                                                                         *)
(* A connection has an "out" end at the node that dialled and an "in" end  *)
(* at the node that accepted; each end is a task running                   *)
(* read_from_peer_tracked.  The list connected_peers, the blacklist and    *)
(* the socket are behind different locks, so an end takes one step per     *)
(* lock it holds.  Connection slots are reused once both ends are gone,    *)
(* so redialling may go on for ever.                                       *)
(***************************************************************************)
EXTENDS Naturals, Sequences, FiniteSets, Functions

CONSTANTS Node,               \* the nodes
          Bootstrap,          \* [Node -> SUBSET Node]: configured bootstrap peers
          Advertises,         \* the nodes with an advertised_listen_addr
          Told,               \* [Node -> SUBSET Node]: addresses its peers tell it of
          max_inbound,        \* permits of the accept loop
          target_outbound,    \* discovery stops at this many known peers
          DialAttempts,       \* attempts of dial_with_backoff (5 in the code)
          MAX_INFLIGHT_DIALS, \* discovery dials in progress at once
          MaxConn,            \* bound: connections existing at once
          Budgets             \* bounds of a behaviour: failed dials and cuts, peer addresses
                              \* heard of, bursts above MAX_MESSAGES_PER_SECOND

ASSUME LinksAssumption ==
    /\ Bootstrap \in [Node -> SUBSET Node] /\ \A n \in Node : n \notin Bootstrap[n]
    /\ Advertises \subseteq Node /\ Told \in [Node -> SUBSET Node]
    /\ {max_inbound, target_outbound, DialAttempts, MAX_INFLIGHT_DIALS,
        MaxConn} \subseteq Nat \ {0}
    /\ Budgets \subseteq [fault : Nat, learn : Nat, flood : Nat]

VARIABLES node_id,    \* drawn at random when a node starts
          conn,       \* the connections, by slot
          task,       \* [slot -> [end -> where its task is]]
          peers,      \* connected_peers of each node: a sequence of slots
          peer_count, \* readers counted by each node
          blacklist,  \* [Node -> nodes banned until reboot]
          boot,       \* bootstrap_redial_loop of each <<node, bootstrap peer>>
          dial_q,     \* discovered addresses waiting for the drainer
          in_flight,  \* addresses the drainer is dialling or connected to
          budget      \* what is left of the bounds

vars == <<node_id, conn, task, peers, peer_count, blacklist, boot, dial_q, in_flight, budget>>

Slot == 1..MaxConn
End  == {"out", "in"}
Free == [used |-> FALSE]
NoTask == [out |-> [at |-> "done"], in |-> [at |-> "done"]]
Loops == {p \in Node \X Node : p[2] \in Bootstrap[p[1]]}

NodeOf(c, e) == IF e = "out" THEN conn[c].from ELSE conn[c].to
PeerOf(c, e) == IF e = "out" THEN conn[c].to ELSE conn[c].from
EndAt(c, n)  == IF conn[c].from = n THEN "out" ELSE "in"
At(c, e, l)  == conn[c].used /\ task[c][e].at = l

\* The url an entry is filed under: the one dialled, or a fresh socket address.
Url(n, c) == IF EndAt(c, n) = "out" THEN <<"listen", conn[c].to>> ELSE <<"src", c>>

\* Where the peer of an entry can be dialled; a node that dialled it knows.
Listens(n, c) ==
    IF EndAt(c, n) = "out" THEN {conn[c].to} ELSE {conn[c].from} \cap Advertises

connected_peer_addrs(n) == UNION {Listens(n, c) : c \in Range(peers[n])}
is_connected_peer(n, m) == m \in connected_peer_addrs(n)

lower_initiated(n, c) ==
    LET we_are_lower == node_id[n] < node_id[PeerOf(c, EndAt(c, n))]
    IN  (EndAt(c, n) = "out" /\ we_are_lower) \/ (EndAt(c, n) = "in" /\ ~we_are_lower)

-----------------------------------------------------------------------------

Init ==
    /\ node_id \in {f \in [Node -> 1..Cardinality(Node)] :
                       \A m, n \in Node : f[m] = f[n] => m = n}
    /\ conn = [c \in Slot |-> Free]
    /\ task = [c \in Slot |-> NoTask]
    /\ peers = [n \in Node |-> <<>>]
    /\ peer_count = [n \in Node |-> 0]
    /\ blacklist = [n \in Node |-> {}]
    /\ boot = [p \in Loops |-> [at |-> "check"]]
    /\ dial_q = [n \in Node |-> <<>>]
    /\ in_flight = [n \in Node |-> {}]
    /\ budget \in Budgets

Spend(what) == budget[what] > 0 /\ budget' = [budget EXCEPT ![what] = @ - 1]

\* The socket is opened, and waits for the listener.  shaken: the ends exchange
\* their states.  banned remembers, for the properties, which ends had
\* blacklisted the other before.
dial(n, m, driver) ==
    \E c \in Slot :
      /\ ~conn[c].used /\ \A d \in 1..(c - 1) : conn[d].used
      /\ conn' = [conn EXCEPT ![c] =
            [used |-> TRUE, from |-> n, to |-> m, driver |-> driver, open |-> TRUE,
             shaken |-> FALSE,
             banned |-> {k \in {n, m} : \E j \in {n, m} : j \in blacklist[k]}]]
      /\ task' = [task EXCEPT ![c] = [out |-> [at |-> "handshake"], in |-> [at |-> "arrived"]]]

\* The bootstrap loop: while the peer is connected it only sleeps.
BootCheck(n, m) ==
    /\ boot[<<n, m>>].at = "check" /\ ~is_connected_peer(n, m)
    /\ boot' = [boot EXCEPT ![<<n, m>>] = [at |-> "dial", tries |-> 0]]
    /\ UNCHANGED <<node_id, conn, task, peers, peer_count, blacklist, dial_q, in_flight, budget>>

BootDial(n, m) ==
    /\ boot[<<n, m>>].at = "dial"
    /\ dial(n, m, "boot")
    /\ boot' = [boot EXCEPT ![<<n, m>>].at = "dialling"]
    /\ UNCHANGED <<node_id, peers, peer_count, blacklist, dial_q, in_flight, budget>>

dial_with_backoff(tries) ==
    IF tries + 1 < DialAttempts THEN [at |-> "dial", tries |-> tries + 1] ELSE [at |-> "gave up"]

BootDialFails(n, m) ==
    /\ boot[<<n, m>>].at = "dial"
    /\ Spend("fault")
    /\ boot' = [boot EXCEPT ![<<n, m>>] = dial_with_backoff(@.tries)]
    /\ UNCHANGED <<node_id, conn, task, peers, peer_count, blacklist, dial_q, in_flight>>

\* An address heard from a peer, in its handshake or in a periodic State message.
process_peer_addrs(n, m) ==
    /\ m \in Told[n] /\ Spend("learn")
    /\ Cardinality(connected_peer_addrs(n)) < target_outbound
    /\ ~(m = n /\ n \in Advertises) /\ ~is_connected_peer(n, m)
    /\ dial_q' = [dial_q EXCEPT ![n] = Append(@, m)]
    /\ UNCHANGED <<node_id, conn, task, peers, peer_count, blacklist, boot, in_flight>>

Drain(n) ==
    /\ dial_q[n] # <<>>
    /\ dial_q' = [dial_q EXCEPT ![n] = Tail(@)]
    /\ LET m == Head(dial_q[n])
           wanted == /\ ~is_connected_peer(n, m) /\ m \notin in_flight[n]
                     /\ Cardinality(in_flight[n]) < MAX_INFLIGHT_DIALS
       IN  in_flight' = [in_flight EXCEPT ![n] = IF wanted THEN @ \cup {m} ELSE @]
    /\ UNCHANGED <<node_id, conn, task, peers, peer_count, blacklist, boot, budget>>

Dialling(n, m) ==
    /\ m \in in_flight[n]
    /\ ~\E c \in Slot : /\ conn[c].used /\ conn[c].driver = "discovery" /\ conn[c].from = n
                        /\ conn[c].to = m /\ task[c].out.at # "done"

DiscoveryDial(n, m) ==
    /\ Dialling(n, m) /\ m # n
    /\ dial(n, m, "discovery")
    /\ UNCHANGED <<node_id, peers, peer_count, blacklist, boot, dial_q, in_flight, budget>>

\* The address is our own (check_self_loop), or the dial fails or times out.
DiscoveryDialFails(n, m) ==
    /\ Dialling(n, m)
    /\ IF m = n THEN UNCHANGED budget ELSE Spend("fault")
    /\ in_flight' = [in_flight EXCEPT ![n] = @ \ {m}]
    /\ UNCHANGED <<node_id, conn, task, peers, peer_count, blacklist, boot, dial_q>>

-----------------------------------------------------------------------------
(* read_from_peer_tracked, one step per lock.                              *)

Goto(c, e, l) == task' = [task EXCEPT ![c][e] = [at |-> l]]

\* What the two limiters have given out: to handshakes, and to readers.
Handshakes(n) == {c \in Slot : At(c, "in", "handshake") /\ conn[c].to = n}
Permits(n) ==
    {c \in Slot : /\ conn[c].used /\ conn[c].to = n
                  /\ task[c].in.at \notin {"arrived", "handshake", "queued", "done"}}

close(c) == conn' = [conn EXCEPT ![c].open = FALSE]
recv_fails(c) == ~conn[c].open

\* (mutant) The bootstrap loop ends with its first connection.
FinishNoRedial(c, e) ==
    /\ IF \A f \in End \ {e} : task[c][f].at = "done"
         THEN conn' = [conn EXCEPT ![c] = Free] /\ task' = [task EXCEPT ![c] = NoTask]
         ELSE close(c) /\ Goto(c, e, "done")
    /\ in_flight' = IF e = "out" /\ conn[c].driver = "discovery"
                      THEN [in_flight EXCEPT ![conn[c].from] = @ \ {conn[c].to}] ELSE in_flight
    /\ UNCHANGED <<node_id, peer_count, blacklist, boot, dial_q, budget>>

\* The task of an end is over, its half of the socket dropped; what drove the
\* out end goes on, to the next attempt if this was a dial that failed.  A slot
\* both of whose ends are gone is free again.
Finish(c, e) ==
    /\ LET other == CHOOSE f \in End : f # e
           n == conn[c].from
           m == conn[c].to
       IN  /\ IF task[c][other].at = "done"
                THEN conn' = [conn EXCEPT ![c] = Free] /\ task' = [task EXCEPT ![c] = NoTask]
                ELSE close(c) /\ Goto(c, e, "done")
           /\ boot' = IF e # "out" \/ conn[c].driver # "boot" THEN boot
                      ELSE [boot EXCEPT ![<<n, m>>] =
                              IF At(c, e, "handshake") THEN dial_with_backoff(@.tries)
                                                       ELSE [at |-> "check"]]
           /\ in_flight' = IF e = "out" /\ conn[c].driver = "discovery"
                             THEN [in_flight EXCEPT ![n] = @ \ {m}] ELSE in_flight
    /\ UNCHANGED <<node_id, peer_count, blacklist, dial_q, budget>>

\* listen: a socket is taken up, or dropped at the limit.
listen(c) ==
    /\ At(c, "in", "arrived")
    /\ \/ /\ Cardinality(Handshakes(conn[c].to)) < max_inbound
          /\ Goto(c, "in", "handshake")
          /\ conn' = [conn EXCEPT ![c].shaken = TRUE]
          /\ UNCHANGED <<node_id, peer_count, blacklist, boot, dial_q, in_flight, budget>>
       \/ Cardinality(Handshakes(conn[c].to)) >= max_inbound /\ Finish(c, "in")
    /\ UNCHANGED peers

\* The state of the other end has come, perhaps the last it sent; the accepting
\* end hands the peer to the accept loop.
handshake(c, e) ==
    /\ At(c, e, "handshake") /\ conn[c].shaken
    /\ Goto(c, e, IF e = "out" THEN "blacklist" ELSE "queued")
    /\ boot' = IF e = "out" /\ conn[c].driver = "boot"
                 THEN [boot EXCEPT ![<<conn[c].from, conn[c].to>>] = [at |-> "linked"]] ELSE boot
    /\ UNCHANGED <<node_id, conn, peers, peer_count, blacklist, dial_q, in_flight, budget>>

HandshakeFails(c, e) ==
    /\ At(c, e, "handshake") /\ recv_fails(c)
    /\ Finish(c, e)
    /\ UNCHANGED peers

Accept(c) ==
    /\ At(c, "in", "queued")
    /\ \/ /\ Cardinality(Permits(conn[c].to)) < max_inbound
          /\ Goto(c, "in", "blacklist")
          /\ UNCHANGED <<node_id, conn, peer_count, blacklist, boot, dial_q, in_flight, budget>>
       \/ Cardinality(Permits(conn[c].to)) >= max_inbound /\ Finish(c, "in")
    /\ UNCHANGED peers

\* (mutant) The blacklist is not consulted.
CheckNoBlacklist(c, e) ==
    /\ At(c, e, "blacklist")
    /\ Goto(c, e, "lookup")
    /\ UNCHANGED <<node_id, conn, peer_count, blacklist, boot, dial_q, in_flight, budget, peers>>

CheckBlacklist(c, e) ==
    /\ At(c, e, "blacklist")
    /\ IF PeerOf(c, e) \in blacklist[NodeOf(c, e)]
         THEN Finish(c, e)
         ELSE /\ Goto(c, e, "lookup")
              /\ UNCHANGED <<node_id, conn, peer_count, blacklist, boot, dial_q, in_flight, budget>>
    /\ UNCHANGED peers

\* Positions of the entries of n for peer m.
Entries(n, m) == {i \in 1..Len(peers[n]) : PeerOf(peers[n][i], EndAt(peers[n][i], n)) = m}
MinOf(S) == CHOOSE i \in S : \A j \in S : i <= j

\* The new connection loses unless the lower node dialled it and not the old one.
Loses(n, new, old) == ~lower_initiated(n, new) \/ lower_initiated(n, old)

\* First half of should_proceed: is this peer listed already?
Lookup(c, e) ==
    LET n == NodeOf(c, e)
        found == Entries(n, PeerOf(c, e))
        idx == MinOf(found)
    IN  /\ At(c, e, "lookup")
        /\ IF found # {} /\ Loses(n, c, peers[n][idx])
             THEN Finish(c, e)
             ELSE /\ task' = [task EXCEPT ![c][e] = IF found = {} THEN [at |-> "add"]
                                ELSE [at |-> "replace", idx |-> idx]]
                  /\ UNCHANGED <<node_id, conn, peer_count, blacklist, boot, dial_q, in_flight, budget>>
        /\ UNCHANGED peers

\* The elements of s at the positions P, in their order (SelectSeq, told by
\* positions: the one with k - 1 of P before it comes k-th).
Retained(s, P) == [k \in 1..Cardinality(P) |->
                 s[CHOOSE i \in P : Cardinality({j \in P : j < i}) = k - 1]]

\* Second half: drop the entry now at that position, if it is of the same peer.
Replace(c, e) ==
    LET n == NodeOf(c, e)
        idx == task[c][e].idx
    IN  /\ At(c, e, "replace")
        /\ IF idx \in Entries(n, PeerOf(c, e))
             THEN /\ peers' = [peers EXCEPT ![n] = Retained(@, DOMAIN @ \ {idx})]
                  /\ close(peers[n][idx])
             ELSE UNCHANGED <<peers, conn>>
        /\ Goto(c, e, "add")
        /\ UNCHANGED <<node_id, peer_count, blacklist, boot, dial_q, in_flight, budget>>

\* add_connected_peer
Add(c, e) ==
    /\ At(c, e, "add")
    /\ peers' = [peers EXCEPT ![NodeOf(c, e)] = Append(@, c)]
    /\ peer_count' = [peer_count EXCEPT ![NodeOf(c, e)] = @ + 1]
    /\ Goto(c, e, "read")
    /\ UNCHANGED <<node_id, conn, blacklist, boot, dial_q, in_flight, budget>>

\* recv_msg fails: the socket is closed.
Hangup(c, e) ==
    /\ At(c, e, "read") /\ recv_fails(c)
    /\ peer_count' = [peer_count EXCEPT ![NodeOf(c, e)] = @ - 1]
    /\ Goto(c, e, "leave")
    /\ UNCHANGED <<node_id, conn, peers, blacklist, boot, dial_q, in_flight, budget>>

\* More than MAX_MESSAGES_PER_SECOND messages within one window.
RateLimit(c, e) ==
    /\ At(c, e, "read") /\ conn[c].open
    /\ Spend("flood")
    /\ blacklist' = [blacklist EXCEPT ![NodeOf(c, e)] = @ \cup {PeerOf(c, e)}]
    /\ close(c)
    /\ peer_count' = [peer_count EXCEPT ![NodeOf(c, e)] = @ - 1]
    /\ Goto(c, e, "leave")
    /\ UNCHANGED <<node_id, peers, boot, dial_q, in_flight>>

\* The positions of the entries of n under another url than c.
Kept(n, c) == {i \in DOMAIN peers[n] : Url(n, peers[n][i]) # Url(n, c)}

\* (mutant) Only connections this node dialled are taken off the list.
remove_dialled_peer(n, c) ==
    IF EndAt(c, n) = "out" THEN Retained(peers[n], Kept(n, c)) ELSE peers[n]

\* remove_connected_peer: every entry with this url goes.
remove_connected_peer(n, c) == Retained(peers[n], Kept(n, c))

Leave(c, e) ==
    /\ At(c, e, "leave")
    /\ peers' = [peers EXCEPT ![NodeOf(c, e)] = remove_connected_peer(NodeOf(c, e), c)]
    /\ Finish(c, e)

\* The network drops a connection, or a handshake does not end in time.
Cut(c) ==
    /\ conn[c].used /\ conn[c].open
    /\ Spend("fault")
    /\ close(c)
    /\ UNCHANGED <<node_id, task, peers, peer_count, blacklist, boot, dial_q, in_flight>>

-----------------------------------------------------------------------------

Tracked(c, e) ==
    handshake(c, e) \/ HandshakeFails(c, e) \/
    CheckBlacklist(c, e) \/ Lookup(c, e) \/ Replace(c, e) \/ Add(c, e) \/ Hangup(c, e) \/ Leave(c, e)

Next ==
    \/ \E p \in Loops : BootCheck(p[1], p[2]) \/ BootDial(p[1], p[2]) \/ BootDialFails(p[1], p[2])
    \/ \E n, m \in Node : process_peer_addrs(n, m) \/ DiscoveryDial(n, m) \/ DiscoveryDialFails(n, m)
    \/ \E n \in Node : Drain(n)
    \/ \E c \in Slot : listen(c) \/ Accept(c) \/ Cut(c)
    \/ \E c \in Slot, e \in End : Tracked(c, e) \/ RateLimit(c, e)

Spec == Init /\ [][Next]_vars

\* Every spawned task runs; a dial the network does not fail succeeds.  The
\* subscripts are what each step of the action changes.
FairSpec ==
    /\ Spec
    /\ \A p \in Loops : /\ WF_<<boot[p]>>(BootCheck(p[1], p[2]))
                        /\ WF_<<boot[p]>>(BootDial(p[1], p[2]))
    /\ \A n \in Node : WF_<<dial_q[n]>>(Drain(n)) /\ WF_<<in_flight[n]>>(DiscoveryDialFails(n, n))
    /\ \A n, m \in Node : WF_conn(DiscoveryDial(n, m))
    /\ \A c \in Slot : /\ WF_<<task[c]["in"]>>(listen(c) \/ Accept(c))
                       /\ \A e \in End : WF_<<task[c][e]>>(Tracked(c, e))

-----------------------------------------------------------------------------

\* A connected peer has a task that reads from it and will take it off the
\* list: whatever task replaces, rejects or loses a connection, no entry of
\* connected_peers is left behind without a reader (read.rs, resolve.rs).
ListedIsRead ==
    \A n \in Node : \A c \in Range(peers[n]) : conn[c].used /\ task[c][EndAt(c, n)].at \in {"read", "leave"}

\* "blacklisting until reboot" (read.rs:61): a connection made after a node
\* banned its peer never gets listed by that node, however it was dialled.
BannedStaysOut ==
    \A n \in Node : \A c \in Range(peers[n]) : conn[c].used => n \notin conn[c].banned

\* Two nodes read from each other over an open connection.
Joined(n, m) ==
    \E c \in Slot : /\ At(c, "out", "read") /\ At(c, "in", "read") /\ conn[c].open
                    /\ {conn[c].from, conn[c].to} = {n, m}

\* However dials cross, duplicates are rejected or replaced and connections
\* break, a node and its bootstrap peer end up joined for good, unless the loop
\* gave up dialling or one banned the other: the two never go on rejecting or
\* closing each other's connections.  (Not that they are joined once, nor that
\* both list the connection: should_proceed looks under one lock and adds under
\* another, and remove_connected_peer takes every entry of a url.)
Converges ==
    \A p \in Loops :
      <>[](\/ Joined(p[1], p[2]) \/ boot[p].at = "gave up"
           \/ p[1] \in blacklist[p[2]] \/ p[2] \in blacklist[p[1]])
=============================================================================
