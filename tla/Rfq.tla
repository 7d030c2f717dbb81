--------------------------------- MODULE Rfq ---------------------------------
(***************************************************************************)
(* One request for quote over the gossip network: a taker asks, LPs quote, *)
(* the taker registers its deposit, waits for a matching counter and then  *)
(* reveals its secret to everybody.  Requests, script announcements and    *)
(* reveals are flooded, each node forwarding what it has not seen before;  *)
(* quotes and rejections go back only to the peer a request came from.     *)
(*                                                                         *)
(* Who is linked to whom is a constant here (see PeerLinks), except that a *)
(* link may break, losing what is on the wire, and be made again.  Each    *)
(* node has one dispatch loop, so it handles one message at a time; an LP  *)
(* that quotes awaits its wallet before it answers.  Every node knows the  *)
(* two channels of the request and the announced script is within the size *)
(* limit, so the early returns for those are not taken.  The resolution of *)
(* the taker's record comes after the reveal and is left to SwapHandler.   *)
(***************************************************************************)
EXTENDS Naturals, Sequences, FiniteSets, Functions

CONSTANTS Node,    \* the nodes
          Taker,   \* the wasm node that asks
          Lp,      \* the nodes in the Lp role; the others are observers
          Links,   \* the pairs {m, n} of linked nodes
          cap,     \* size of a SeenSet (50 000 in the code)
          MaxAsk,  \* bound: times the taker asks, always the same
          MaxCut   \* bound: links broken

ASSUME RfqAssumption ==
    /\ Taker \in Node /\ Lp \subseteq Node \ {Taker}
    /\ Links \subseteq {p \in SUBSET Node : Cardinality(p) = 2}
    /\ cap \in Nat \ {0} /\ MaxAsk \in Nat \ {0} /\ MaxCut \in Nat

\* A SeenSet has room for the request, the script and the reveal of one swap.
ASSUME SeenAssumption == cap >= 3

VARIABLES up,        \* the links that are up
          wire,      \* [<<m, n>> -> messages from m to n, in order]
          seen,      \* SeenSet of each node, oldest first
          quoting,   \* what the dispatch loop of each node awaits
          handled,   \* [Node -> [kind -> times acted on]]
          outcome,   \* what became of each LP's quote
          heard,     \* the peer each node first heard the request from
          quotes,    \* CheckedQuotes and rejections the taker has seen
          pending,   \* pending_claims of the taker, for this swap
          record,    \* SwapRecord of this swap in the taker's tracker
          fired,     \* the commitment that made the taker reveal
          asked, cuts

vars == <<up, wire, seen, quoting, handled, outcome, heard, quotes,
          pending, record, fired, asked, cuts>>

Flooded == {"Request", "Script", "Reveal"}
Message == [kind : Flooded, size : {"ok", "limit"}]
             \cup [kind : {"Response", "Error"}, lp : Lp]
Wires   == {p \in Node \X Node : {p[1], p[2]} \in Links}
Nobody  == "nobody"
Idle    == [at |-> "idle"]

\* The commitments with our swap_id the chains may show: our own deposit, a
\* counter as quoted, one that pays too little, and strangers' with another hash
\* or another receiver.
Leg(source, hash, receiver, amount) ==
    [source |-> source, hash |-> hash, receiver |-> receiver, amount |-> amount]
Deposit == Leg("origin", "ours", "lp", 2)
Commitment == {Deposit, Leg("counter", "ours", "taker", 2), Leg("counter", "ours", "taker", 1),
               Leg("counter", "other", "taker", 2), Leg("counter", "ours", "other", 2)}
None == [source |-> "none"]
Claim == [expected_counter_chain |-> "counter", expected_secret_hash |-> "ours",
          expected_destination_address |-> "taker", expected_amount_out |-> 2]

Init ==
    /\ up = Links
    /\ wire = [w \in Wires |-> <<>>]
    /\ seen = [n \in Node |-> <<>>]
    /\ quoting = [n \in Node |-> Idle]
    /\ handled = [n \in Node |-> [k \in Flooded |-> 0]]
    /\ outcome = [n \in Lp |-> "none"]
    /\ heard = [n \in Node |-> Nobody]
    /\ quotes = {}
    /\ pending = "none"
    /\ record = [init |-> None, counter |-> None]
    /\ fired = None
    /\ asked = 0 /\ cuts = 0

-----------------------------------------------------------------------------
(* SeenSet and relay.                                                      *)

Seen(n, m) == m \in Range(seen[n])

insert(s, m) ==
    IF m \in Range(s) THEN s
    ELSE LET order == Append(s, m) IN IF Len(order) > cap THEN Tail(order) ELSE order

\* A link that is down fails the send, or times it out; either is only logged.
send_timed(w, p, m) == IF {p[1], p[2]} \in up THEN Append(w[p], m) ELSE w[p]

send_bytes_to_all(w, n, m, exclude) ==
    [p \in Wires |-> IF p[1] = n /\ p[2] # exclude THEN send_timed(w, p, m) ELSE w[p]]

send_to(w, n, to, m) == [w EXCEPT ![<<n, to>>] = send_timed(w, <<n, to>>, m)]

broadcast(n, m) ==
    /\ seen' = [seen EXCEPT ![n] = insert(@, m)]
    /\ wire' = send_bytes_to_all(wire, n, m, Nobody)

\* The message from peer f is at the head of its wire to n, whose loop is idle.
Receives(n, f, m) ==
    /\ quoting[n] = Idle
    /\ <<f, n>> \in Wires /\ wire[<<f, n>>] # <<>> /\ Head(wire[<<f, n>>]) = m

Taken(n, f) == [wire EXCEPT ![<<f, n>>] = Tail(@)]

\* (mutant) The message is sent on whether or not it was seen.
ForwardedAlways(n, f, m) == send_bytes_to_all(Taken(n, f), n, m, f)

\* (mutant) Only LPs relay.
RelayedByLps(n, f, m) ==
    IF Seen(n, m) \/ n \notin Lp THEN Taken(n, f) ELSE send_bytes_to_all(Taken(n, f), n, m, f)

\* What forward leaves on the wires.
Forwarded(n, f, m) ==
    IF Seen(n, m) THEN Taken(n, f) ELSE send_bytes_to_all(Taken(n, f), n, m, f)

\* (mutant) A message is acted on whether or not it was seen.
ActsAlways(n, m) == TRUE

\* forward says whether the message is new, and only then is it acted on.
Acts(n, m) == ~Seen(n, m)

forward(n, f, m) ==
    /\ seen' = [seen EXCEPT ![n] = insert(@, m)]
    /\ wire' = Forwarded(n, f, m)
    /\ handled' = [handled EXCEPT ![n][m.kind] = IF Acts(n, m) THEN @ + 1 ELSE @]

-----------------------------------------------------------------------------
(* The taker.                                                              *)

request_quote(size) ==
    /\ asked < MaxAsk
    /\ asked > 0 => Seen(Taker, [kind |-> "Request", size |-> size])
    /\ asked' = asked + 1
    /\ broadcast(Taker, [kind |-> "Request", size |-> size])
    /\ UNCHANGED <<up, quoting, handled, outcome, heard, quotes, pending, record, fired, cuts>>

\* The taker settles on a quote.  A deposit on a script chain is announced,
\* one on a contract chain is not.
register_commitment(script) ==
    /\ pending = "none" /\ \E q \in quotes : q.kind = "Response"
    /\ pending' = "claim"
    /\ IF script THEN broadcast(Taker, [kind |-> "Script", size |-> "ok"])
                 ELSE UNCHANGED <<seen, wire>>
    /\ UNCHANGED <<up, quoting, handled, outcome, heard, quotes, record, fired, asked, cuts>>

\* (mutant) The amount of the counter is not compared.
matches_any_amount(d) ==
    /\ d.hash = Claim.expected_secret_hash /\ d.source = Claim.expected_counter_chain
    /\ d.receiver = Claim.expected_destination_address

pending_claim_matches(d) ==
    /\ d.hash = Claim.expected_secret_hash /\ d.source = Claim.expected_counter_chain
    /\ d.receiver = Claim.expected_destination_address
    /\ d.amount >= Claim.expected_amount_out

\* set_counter_commitment: same hash, and each leg pays who the other says.
Counters(c, d) ==
    c.hash = d.hash /\ {c.receiver, d.receiver} = {"lp", "taker"}

Known(d) == record.init = d \/ record.counter = d \/ record.init.source = d.source

\* handle_external_commitment, when it is not an error.
handle_external_commitment(d) ==
    \/ record.init = None /\ record' = [record EXCEPT !.init = d]
    \/ record.init # None /\ Known(d) /\ UNCHANGED record
    \/ /\ record.init # None /\ ~Known(d)
       /\ record.counter = None /\ Counters(record.init, d)
       /\ record' = [record EXCEPT !.counter = d]

\* A commitment event: what the handler accepts has the effect TransmitReveal.
\* Our hash is not known to anybody before we register.
TransmitReveal(d) ==
    /\ d.hash = "ours" => pending # "none"
    /\ handle_external_commitment(d)
    /\ IF pending = "claim" /\ pending_claim_matches(d)
         THEN pending' = "firing" /\ fired' = d
         ELSE UNCHANGED <<pending, fired>>
    /\ UNCHANGED <<up, wire, seen, quoting, handled, outcome, heard, quotes, asked, cuts>>

\* The task of spawn_reveal_broadcast; sending to nobody is no error.
spawn_reveal_broadcast ==
    /\ pending = "firing"
    /\ pending' = "completed"
    /\ broadcast(Taker, [kind |-> "Reveal", size |-> "ok"])
    /\ UNCHANGED <<up, quoting, handled, outcome, heard, quotes, record, fired, asked, cuts>>

-----------------------------------------------------------------------------
(* The dispatch loop of a node.                                            *)

on_proposal_request(n, f) ==
    \E size \in {"ok", "limit"} :
      LET m == [kind |-> "Request", size |-> size]
      IN  /\ Receives(n, f, m)
          /\ forward(n, f, m)
          /\ heard' = [heard EXCEPT ![n] = IF Acts(n, m) THEN f ELSE @]
          /\ quoting' = [quoting EXCEPT ![n] =
                IF Acts(n, m) /\ n \in Lp THEN [at |-> "quote", from |-> f, size |-> size] ELSE @]
          /\ UNCHANGED <<up, outcome, quotes, pending, record, fired, asked, cuts>>

\* on_script_announce and on_reveal; what they do to the chains is the business
\* of KaspaChannel, Settlement and SwapHandler.
on_gossip(n, f) ==
    \E k \in {"Script", "Reveal"} :
      LET m == [kind |-> k, size |-> "ok"]
      IN  /\ Receives(n, f, m)
          /\ forward(n, f, m)
          /\ UNCHANGED <<up, quoting, outcome, heard, quotes, pending, record, fired, asked, cuts>>

\* (mutant) A rejection is only logged, like any other error.
AnswersOf(n) == IF quoting[n].size = "limit" THEN {"none"} ELSE {"Response", "Failed"}

\* create_proposal and sign_message: an amount out of bounds is rejected; without
\* a fresh price, or when the wallet fails, the LP says nothing.
Answers(n) == {IF quoting[n].size = "limit" THEN "Error" ELSE "Response", "Failed"}

handle_proposal(n) ==
    /\ quoting[n].at = "quote"
    /\ \E a \in Answers(n) :
         /\ wire' = IF a \in {"Response", "Error"}
                      THEN send_to(wire, n, quoting[n].from, [kind |-> a, lp |-> n]) ELSE wire
         /\ outcome' = [outcome EXCEPT ![n] = a]
    /\ quoting' = [quoting EXCEPT ![n] = Idle]
    /\ UNCHANGED <<up, seen, handled, heard, quotes, pending, record, fired, asked, cuts>>

\* Only the taker has a use for an answer; a native node drops it.
on_answer(n, f) ==
    \E kind \in {"Response", "Error"}, lp \in Lp :
      /\ Receives(n, f, [kind |-> kind, lp |-> lp])
      /\ wire' = Taken(n, f)
      /\ quotes' = IF n = Taker THEN quotes \cup {[kind |-> kind, lp |-> lp]} ELSE quotes
      /\ UNCHANGED <<up, seen, quoting, handled, outcome, heard, pending, record, fired, asked, cuts>>

\* A link breaks: what is on the wire is lost, and so is the way back to it.
Cut(l) ==
    /\ l \in up /\ cuts < MaxCut
    /\ cuts' = cuts + 1 /\ up' = up \ {l}
    /\ wire' = [w \in Wires |-> IF {w[1], w[2]} = l THEN <<>> ELSE wire[w]]
    /\ quoting' = [n \in Node |->
          IF quoting[n].at = "quote" /\ {n, quoting[n].from} = l
            THEN [quoting[n] EXCEPT !.from = Nobody] ELSE quoting[n]]
    /\ UNCHANGED <<seen, handled, outcome, heard, quotes, pending, record, fired, asked>>

Relink(l) ==
    /\ l \in Links \ up /\ up' = up \cup {l}
    /\ UNCHANGED <<wire, seen, quoting, handled, outcome, heard, quotes, pending, record, fired, asked, cuts>>

Dispatch(n, f) == on_proposal_request(n, f) \/ on_gossip(n, f) \/ on_answer(n, f)

Next ==
    \/ \E size \in {"ok", "limit"} : request_quote(size)
    \/ \E s \in BOOLEAN : register_commitment(s)
    \/ \E d \in Commitment : TransmitReveal(d)
    \/ spawn_reveal_broadcast
    \/ \E n, f \in Node : Dispatch(n, f)
    \/ \E n \in Lp : handle_proposal(n)
    \/ \E l \in Links : Cut(l) \/ Relink(l)

Spec == Init /\ [][Next]_vars

\* The loops and spawned tasks run; nobody is obliged to ask or to lock, and
\* links need not come back.
FairSpec ==
    /\ Spec
    /\ WF_vars(spawn_reveal_broadcast)
    /\ \A w \in Wires : WF_vars(Dispatch(w[2], w[1]))
    /\ \A n \in Lp : WF_vars(handle_proposal(n))

-----------------------------------------------------------------------------

\* Around the cycles of the network, and when the taker repeats its request, a
\* node acts on a flooded message once: one quote, one registered script, one
\* round of claims (SeenSet::insert, P2p::forward).
HandledOnce == \A n \in Node, k \in Flooded : handled[n][k] <= 1

\* No node holds the secret unless the taker was shown a counter that pays its
\* address no less than its deposit was quoted for, under its own hash.
SecretNeedsCounter ==
    (\E n \in Node : Seen(n, [kind |-> "Reveal", size |-> "ok"])) =>
      /\ fired \in Commitment \ {Deposit}
      /\ fired.hash = Deposit.hash /\ fired.receiver = "taker" /\ fired.amount >= 2

\* The flood dies out: eventually nothing is on any wire.
FloodEnds == <>[](\A w \in Wires : wire[w] = <<>>)

\* With two ways to every node, one broken link keeps the secret from nobody:
\* every LP and observer acts on the reveal once the taker reports Completed.
RevealSpreads ==
    pending = "completed" ~> \A n \in Node \ {Taker} : handled[n]["Reveal"] = 1

\* An LP that first hears the request from the taker itself gets its quote or
\* its rejection back to the taker, unless it fails silently or a link breaks.
\* (One that hears a relayed copy first answers the relay, which drops it.)
DirectIsAnswered ==
    \A n \in Lp : heard[n] = Taker ~>
      (outcome[n] = "Failed" \/ cuts > 0 \/ \E q \in quotes : q.lp = n)
=============================================================================
