---------------------------- MODULE EventProofs -----------------------------
(***************************************************************************)
(* Proofs about what the daemon learns from outside: the messages of the   *)
(* gossip network (Rfq) and the events of an EVM chain (EvmPoll).          *)
(***************************************************************************)
EXTENDS Rfq, EvmPoll, TLAPS

-----------------------------------------------------------------------------
(***************************************************************************)
(* Two promises of the gossip network, for any nodes, links, broken links  *)
(* and repeated requests.  The taker's secret leaves it only for a counter *)
(* that pays: until such a counter was seen there is no reveal on any wire *)
(* or in any SeenSet, so that forwarding can spread none, and the taker is *)
(* not about to send one.  And a node acts on a flooded message once: one  *)
(* request, one script and one reveal circulate, so a SeenSet that can     *)
(* hold three messages forgets none of those it has acted on.              *)
(***************************************************************************)

\* The wires carry messages of S only and the SeenSets hold messages of T only.
Carries(S, T) ==
    /\ wire \in [Wires -> Seq(S)]
    /\ seen \in [Node -> Seq(T)]

-----------------------------------------------------------------------------
(* What the relay does to wires and SeenSets.                              *)

LEMMA TailType ==
    ASSUME NEW S, NEW s \in Seq(S), Len(s) # 0
    PROVE  Tail(s) \in Seq(S)
  OBVIOUS

LEMMA InsertType ==
    ASSUME NEW S, NEW s \in Seq(S), NEW m \in S
    PROVE  insert(s, m) \in Seq(S)
  <1>1. Append(s, m) \in Seq(S) /\ Len(Append(s, m)) = Len(s) + 1
    OBVIOUS
  <1>2. Tail(Append(s, m)) \in Seq(S)
    BY <1>1, TailType
  <1> QED BY <1>1, <1>2 DEF insert

LEMMA SendType ==
    ASSUME NEW S, NEW w \in [Wires -> Seq(S)], NEW m \in S, NEW p \in Wires
    PROVE  send_timed(w, p, m) \in Seq(S)
  <1>1. w[p] \in Seq(S)
    OBVIOUS
  <1>2. Append(w[p], m) \in Seq(S)
    BY <1>1
  <1> QED BY <1>1, <1>2 DEF send_timed

LEMMA SendAllType ==
    ASSUME NEW S, NEW w \in [Wires -> Seq(S)], NEW m \in S, NEW n, NEW exclude
    PROVE  send_bytes_to_all(w, n, m, exclude) \in [Wires -> Seq(S)]
  BY SendType DEF send_bytes_to_all

LEMMA SendToType ==
    ASSUME NEW S, NEW w \in [Wires -> Seq(S)], NEW m \in S, NEW n, NEW to
    PROVE  send_to(w, n, to, m) \in [Wires -> Seq(S)]
  BY SendType, Zenon DEF send_to

LEMMA TakenType ==
    ASSUME NEW S, wire \in [Wires -> Seq(S)], NEW n, NEW f, NEW m, Receives(n, f, m)
    PROVE  m \in S /\ Taken(n, f) \in [Wires -> Seq(S)]
  <1>1. wire[<<f, n>>] \in Seq(S) /\ wire[<<f, n>>] # <<>> /\ m = Head(wire[<<f, n>>])
    BY DEF Receives
  <1>2. m \in S /\ Tail(wire[<<f, n>>]) \in Seq(S)
    BY <1>1
  <1> QED BY <1>2, Zenon DEF Taken

LEMMA BroadcastCarries ==
    ASSUME NEW S, NEW T, Carries(S, T), NEW m \in S \cap T, NEW n, broadcast(n, m)
    PROVE  Carries(S, T)'
  <1>1. wire' \in [Wires -> Seq(S)]
    BY SendAllType DEF broadcast, Carries
  <1>2. n \in Node => insert(seen[n], m) \in Seq(T)
    BY InsertType DEF Carries
  <1>3. seen' \in [Node -> Seq(T)]
    BY <1>2, Zenon DEF broadcast, Carries
  <1> QED BY <1>1, <1>3 DEF Carries

LEMMA ForwardCarries ==
    ASSUME NEW S, NEW T, Carries(S, T), NEW m \in T, NEW n \in Node, NEW f,
           Receives(n, f, m), forward(n, f, m)
    PROVE  Carries(S, T)'
  <1>1. m \in S /\ Taken(n, f) \in [Wires -> Seq(S)]
    BY TakenType DEF Carries
  <1>2. wire' \in [Wires -> Seq(S)]
    BY <1>1, SendAllType DEF forward, Forwarded
  <1>3. insert(seen[n], m) \in Seq(T)
    BY InsertType DEF Carries
  <1>4. seen' \in [Node -> Seq(T)]
    BY <1>3 DEF forward, Carries
  <1> QED BY <1>2, <1>4 DEF Carries

LEMMA AnswerCarries ==
    ASSUME NEW S, NEW T, Carries(S, T), NEW n, NEW f, on_answer(n, f)
    PROVE  Carries(S, T)'
  <1>1. /\ \E m : Receives(n, f, m)
        /\ wire' = Taken(n, f) /\ seen' = seen
    BY DEF on_answer
  <1> QED BY <1>1, TakenType DEF Carries

LEMMA QuoteCarries ==
    ASSUME NEW S, NEW T, Carries(S, T), NEW n \in Lp, handle_proposal(n),
           \A k \in {"Response", "Error"} : [kind |-> k, lp |-> n] \in S
    PROVE  Carries(S, T)'
  <1>1. /\ seen' = seen
        /\ \/ wire' = wire
           \/ \E a \in {"Response", "Error"} :
                 wire' = send_to(wire, n, quoting[n].from, [kind |-> a, lp |-> n])
    BY DEF handle_proposal
  <1>2. ASSUME NEW a \in {"Response", "Error"}
        PROVE  send_to(wire, n, quoting[n].from, [kind |-> a, lp |-> n]) \in [Wires -> Seq(S)]
    BY SendToType, Zenon DEF Carries
  <1> QED BY <1>1, <1>2 DEF Carries

LEMMA CutCarries ==
    ASSUME NEW S, NEW T, Carries(S, T), NEW l, Cut(l) \/ Relink(l)
    PROVE  Carries(S, T)'
  <1>1. <<>> \in Seq(S)
    OBVIOUS
  <1> QED BY <1>1, Zenon DEF Cut, Relink, Carries

-----------------------------------------------------------------------------
(* The secret.                                                             *)

Reveal == [kind |-> "Reveal", size |-> "ok"]

\* What SecretNeedsCounter asks of the commitment that made the taker reveal.
Paid ==
    /\ fired \in Commitment \ {Deposit}
    /\ fired.hash = Deposit.hash /\ fired.receiver = "taker" /\ fired.amount >= 2

Other == Message \ {Reveal}

NoReveal == Carries(Other, Other)

SecretInv ==
    /\ Paid \/ NoReveal
    /\ pending \in {"firing", "completed"} => Paid

LEMMA OtherMessages ==
    /\ \A size \in {"ok", "limit"} : [kind |-> "Request", size |-> size] \in Other
    /\ [kind |-> "Script", size |-> "ok"] \in Other
    /\ \A k \in {"Response", "Error"}, lp \in Lp : [kind |-> k, lp |-> lp] \in Other
  BY DEF Other, Message, Flooded, Reveal

LEMMA SecretInit == Init => SecretInv
  <1> SUFFICES ASSUME Init PROVE SecretInv
    OBVIOUS
  <1>1. <<>> \in Seq(Other)
    OBVIOUS
  <1> QED BY <1>1 DEF Init, SecretInv, NoReveal, Carries

LEMMA SecretNext == SecretInv /\ [Next]_vars => SecretInv'
  <1> SUFFICES ASSUME SecretInv, [Next]_vars PROVE SecretInv'
    OBVIOUS
  <1>1. ASSUME UNCHANGED <<pending, fired>>, NoReveal => NoReveal' PROVE SecretInv'
    BY <1>1 DEF SecretInv, Paid
  <1>2. CASE UNCHANGED vars
    BY <1>1, <1>2 DEF vars, NoReveal, Carries
  <1>3. ASSUME NEW size \in {"ok", "limit"}, request_quote(size) PROVE SecretInv'
    BY <1>1, <1>3, OtherMessages, BroadcastCarries DEF request_quote, NoReveal
  <1>4. ASSUME NEW script \in BOOLEAN, register_commitment(script) PROVE SecretInv'
    <2>1. pending' = "claim" /\ fired' = fired
      BY <1>4 DEF register_commitment
    <2>2. NoReveal => NoReveal'
      <3>1. CASE script
        BY <1>4, <3>1, OtherMessages, BroadcastCarries DEF register_commitment, NoReveal
      <3>2. CASE ~script
        BY <1>4, <3>2 DEF register_commitment, NoReveal, Carries
      <3> QED BY <3>1, <3>2
    <2> QED BY <2>1, <2>2 DEF SecretInv, Paid
  <1>5. ASSUME NEW d \in Commitment, TransmitReveal(d) PROVE SecretInv'
    <2>1. CASE pending = "claim" /\ pending_claim_matches(d)
      <3>1. fired' = d /\ pending' = "firing"
        BY <1>5, <2>1 DEF TransmitReveal
      <3>2. /\ d.hash = "ours" /\ d.source = "counter" /\ d.receiver = "taker" /\ d.amount >= 2
        BY <2>1 DEF pending_claim_matches, Claim
      <3>3. d # Deposit /\ Deposit.hash = "ours"
        BY <3>2 DEF Deposit, Leg
      <3> QED BY <3>1, <3>2, <3>3 DEF SecretInv, Paid
    <2>2. CASE ~(pending = "claim" /\ pending_claim_matches(d))
      BY <1>1, <1>5, <2>2 DEF TransmitReveal, NoReveal, Carries
    <2> QED BY <2>1, <2>2
  <1>6. CASE spawn_reveal_broadcast
    BY <1>6 DEF spawn_reveal_broadcast, SecretInv, Paid
  <1>7. ASSUME NEW n \in Node, NEW f \in Node, Dispatch(n, f) PROVE SecretInv'
    <2>1. CASE on_proposal_request(n, f) \/ on_gossip(n, f)
      <3>1. PICK m : Receives(n, f, m) /\ forward(n, f, m)
        BY <2>1 DEF on_proposal_request, on_gossip
      <3>2. UNCHANGED <<pending, fired>>
        BY <2>1 DEF on_proposal_request, on_gossip
      <3>3. NoReveal => NoReveal'
        BY <3>1, TakenType, ForwardCarries DEF NoReveal, Carries
      <3> QED BY <1>1, <3>2, <3>3
    <2>2. CASE on_answer(n, f)
      BY <1>1, <2>2, AnswerCarries, Zenon DEF on_answer, NoReveal
    <2> QED BY <1>7, <2>1, <2>2 DEF Dispatch
  <1>8. ASSUME NEW n \in Lp, handle_proposal(n) PROVE SecretInv'
    BY <1>1, <1>8, OtherMessages, QuoteCarries, Zenon DEF handle_proposal, NoReveal
  <1>9. ASSUME NEW l \in Links, Cut(l) \/ Relink(l) PROVE SecretInv'
    BY <1>1, <1>9, CutCarries DEF Cut, Relink, NoReveal
  <1> QED
    BY <1>2, <1>3, <1>4, <1>5, <1>6, <1>7, <1>8, <1>9 DEF Next

\* No node of any network holds the secret before the taker was shown a counter
\* that pays its address, under its own hash, no less than it was quoted
\* (pending_claim_matches, spawn_reveal_broadcast, forward).
THEOREM SecretIsPaidFor == Spec => []SecretNeedsCounter
  <1>1. SecretInv => SecretNeedsCounter
    <2> SUFFICES ASSUME NoReveal, NEW n \in Node, Seen(n, Reveal) PROVE FALSE
      BY DEF SecretInv, Paid, SecretNeedsCounter, Reveal
    <2>1. seen[n] \in Seq(Other) /\ Reveal \in Range(seen[n])
      BY DEF NoReveal, Carries, Seen
    <2>2. PICK i \in DOMAIN seen[n] : seen[n][i] = Reveal
      BY <2>1 DEF Range
    <2>3. seen[n][i] \in Other
      BY <2>1, <2>2
    <2> QED BY <2>2, <2>3 DEF Other
  <1> QED BY <1>1, SecretInit, SecretNext, PTL DEF Spec

-----------------------------------------------------------------------------
(* One round of the flood.                                                 *)

Sizes == {"ok", "limit"}

\* The messages that are flooded when the taker asks for an amount of size z.
Flood(z) == {[kind |-> "Request", size |-> z],
             [kind |-> "Script", size |-> "ok"], [kind |-> "Reveal", size |-> "ok"]}

Answer == [kind : {"Response", "Error"}, lp : Lp]

\* No message is listed twice.
Distinct(s) == \A i, j \in DOMAIN s : s[i] = s[j] => i = j

\* Only requests of size z circulate, and a node that acted on a message still
\* has it in its SeenSet.
OneFlood(z) ==
    /\ Carries(Flood(z) \cup Answer, Flood(z))
    /\ \A n \in Node : Distinct(seen[n])
    /\ handled \in [Node -> [Flooded -> {0, 1}]]
    /\ \A n \in Node, m \in Flood(z) : handled[n][m.kind] = 1 => Seen(n, m)

\* Before the taker has asked, no request of any size is about.
OnceInv ==
    /\ asked \in Nat
    /\ \E z \in Sizes : OneFlood(z)
    /\ asked = 0 => \A z \in Sizes : OneFlood(z)

\* A SeenSet of such messages never evicts one.
LEMMA InsertKeeps ==
    ASSUME NEW z, NEW s \in Seq(Flood(z)), Distinct(s), NEW m \in Flood(z)
    PROVE  /\ Distinct(insert(s, m))
           /\ m \in Range(insert(s, m)) /\ Range(s) \subseteq Range(insert(s, m))
  <1>1. CASE m \in Range(s)
    BY <1>1 DEF insert
  <1>2. CASE m \notin Range(s)
    <2>1. Len(s) \in Nat /\ DOMAIN s = 1 .. Len(s) /\ \A i \in DOMAIN s : s[i] \in Flood(z)
      OBVIOUS
    <2>2. \A i \in DOMAIN s : s[i] # m
      BY <1>2 DEF Range
    <2>3. Len(s) < 3
      <3>1. SUFFICES ASSUME Len(s) >= 3 PROVE FALSE
        BY <2>1
      <3>2. /\ 1 \in DOMAIN s /\ 2 \in DOMAIN s /\ 3 \in DOMAIN s
        BY <2>1, <3>1
      <3>3. /\ s[1] # s[2] /\ s[1] # s[3] /\ s[2] # s[3]
        BY <3>2 DEF Distinct
      <3> QED BY <2>1, <2>2, <3>2, <3>3 DEF Flood
    <2> DEFINE order == Append(s, m)
    <2>4. /\ order \in Seq(Flood(z)) /\ Len(order) = Len(s) + 1
          /\ \A i \in 1 .. Len(s) : order[i] = s[i]
          /\ order[Len(s) + 1] = m
      OBVIOUS
    <2>5. DOMAIN order = 1 .. Len(s) + 1
      BY <2>4
    <2>6. insert(s, m) = order
      <3>1. cap \in Nat /\ ~(Len(order) > cap)
        <4> HIDE DEF order
        <4> QED BY <2>1, <2>3, <2>4, RfqAssumption, SeenAssumption
      <3> QED BY <1>2, <3>1 DEF insert
    <2>7. Distinct(order)
      <3> HIDE DEF order
      <3> QED BY <2>1, <2>2, <2>4, <2>5 DEF Distinct
    <2>8. m \in Range(order) /\ Range(s) \subseteq Range(order)
      <3> HIDE DEF order
      <3> QED BY <2>1, <2>4, <2>5 DEF Range
    <2> QED BY <2>6, <2>7, <2>8
  <1> QED BY <1>1, <1>2

\* A message at the taker's own SeenSet, or relayed, leaves the flood one round.
LEMMA BroadcastOnce ==
    ASSUME NEW z, OneFlood(z), NEW m \in Flood(z), NEW n \in Node, broadcast(n, m),
           handled' = handled
    PROVE  OneFlood(z)'
  <1>1. Carries(Flood(z) \cup Answer, Flood(z))'
    BY BroadcastCarries DEF OneFlood
  <1>2. /\ seen[n] \in Seq(Flood(z)) /\ Distinct(seen[n]) /\ DOMAIN seen = Node
        /\ seen' = [seen EXCEPT ![n] = insert(seen[n], m)]
    BY DEF OneFlood, Carries, broadcast
  <1>3. /\ Distinct(insert(seen[n], m))
        /\ Range(seen[n]) \subseteq Range(insert(seen[n], m))
    BY <1>2, InsertKeeps
  <1>4. \A x \in Node : Distinct(seen'[x]) /\ Range(seen[x]) \subseteq Range(seen'[x])
    BY <1>2, <1>3 DEF OneFlood
  <1>5. \A x \in Node, y \in Flood(z) : handled'[x][y.kind] = 1 => y \in Range(seen'[x])
    BY <1>4 DEF OneFlood, Seen
  <1> QED BY <1>1, <1>4, <1>5 DEF OneFlood, Seen

LEMMA ForwardOnce ==
    ASSUME NEW z, OneFlood(z), NEW m \in Flood(z), NEW n \in Node, NEW f,
           Receives(n, f, m), forward(n, f, m)
    PROVE  OneFlood(z)'
  <1>1. Carries(Flood(z) \cup Answer, Flood(z))'
    BY ForwardCarries DEF OneFlood
  <1>2. /\ seen[n] \in Seq(Flood(z)) /\ Distinct(seen[n]) /\ DOMAIN seen = Node
        /\ seen' = [seen EXCEPT ![n] = insert(seen[n], m)]
    BY DEF OneFlood, Carries, forward
  <1>3. /\ Distinct(insert(seen[n], m)) /\ m \in Range(insert(seen[n], m))
        /\ Range(seen[n]) \subseteq Range(insert(seen[n], m))
    BY <1>2, InsertKeeps
  <1>4. \A x \in Node : Distinct(seen'[x]) /\ Range(seen[x]) \subseteq Range(seen'[x])
    BY <1>2, <1>3 DEF OneFlood
  <1>5. m.kind \in Flooded /\ \A y \in Flood(z) : y.kind = m.kind => y = m
    BY DEF Flood, Flooded
  <1>6. handled[n][m.kind] \in {0, 1} /\ (handled[n][m.kind] = 1 => Seen(n, m))
    BY <1>5 DEF OneFlood
  <1>7. PICK v \in {0, 1} : handled' = [handled EXCEPT ![n][m.kind] = v]
    <2>1. CASE Acts(n, m)
      <3>1. handled[n][m.kind] + 1 = 1
        BY <1>6, <2>1 DEF Acts
      <3>2. handled' = [handled EXCEPT ![n][m.kind] = 1]
        BY <2>1, <3>1, Zenon DEF forward
      <3> QED BY <3>2
    <2>2. CASE ~Acts(n, m)
      BY <1>6, <2>2, Zenon DEF forward
    <2> QED BY <2>1, <2>2
  <1>8. handled' \in [Node -> [Flooded -> {0, 1}]]
    BY <1>5, <1>7 DEF OneFlood
  <1>9. ASSUME NEW x \in Node, NEW y \in Flood(z), handled'[x][y.kind] = 1
        PROVE  y \in Range(seen'[x])
    <2>1. CASE x = n /\ y = m
      BY <1>2, <1>3, <2>1
    <2>2. CASE ~(x = n /\ y = m)
      <3>1. y.kind \in Flooded
        BY DEF Flood, Flooded
      <3>2. handled[x][y.kind] = 1
        BY <1>5, <1>7, <1>9, <2>2, <3>1 DEF OneFlood
      <3> QED BY <1>4, <3>2, Zenon DEF OneFlood, Seen
    <2> QED BY <2>1, <2>2
  <1> QED BY <1>1, <1>4, <1>8, <1>9 DEF OneFlood, Seen

LEMMA OnceInit == Init => OnceInv
  <1> SUFFICES ASSUME Init PROVE OnceInv
    OBVIOUS
  <1>1. ASSUME NEW z PROVE OneFlood(z)
    <2>1. <<>> \in Seq(Flood(z)) /\ <<>> \in Seq(Flood(z) \cup Answer)
      OBVIOUS
    <2>2. Carries(Flood(z) \cup Answer, Flood(z))
      BY <2>1 DEF Init, Carries
    <2>3. \A n \in Node : Distinct(seen[n])
      BY DEF Init, Distinct
    <2>4. handled = [n \in Node |-> [k \in Flooded |-> 0]]
      BY DEF Init
    <2>5. \A m \in Flood(z) : m.kind \in Flooded
      BY DEF Flood, Flooded
    <2> QED BY <2>2, <2>3, <2>4, <2>5 DEF OneFlood
  <1> QED BY <1>1 DEF OnceInv, Init, Sizes

\* Every step but a request keeps the flood of any size one round.
LEMMA OtherStepsOnce ==
    ASSUME NEW z \in Sizes, OneFlood(z), Next, ~\E size \in Sizes : request_quote(size)
    PROVE  OneFlood(z)' /\ asked' = asked
  <1>1. ASSUME UNCHANGED <<handled, seen>>, Carries(Flood(z) \cup Answer, Flood(z))'
        PROVE  OneFlood(z)'
    BY <1>1 DEF OneFlood, Seen
  <1>2. ASSUME UNCHANGED <<handled, seen, wire>> PROVE OneFlood(z)'
    BY <1>2 DEF OneFlood, Seen, Carries
  <1>3. /\ [kind |-> "Script", size |-> "ok"] \in Flood(z)
        /\ [kind |-> "Reveal", size |-> "ok"] \in Flood(z)
    BY DEF Flood
  <1>4. ASSUME NEW script \in BOOLEAN, register_commitment(script) PROVE OneFlood(z)'
    <2>1. CASE script
      BY <1>3, <1>4, <2>1, BroadcastOnce, RfqAssumption DEF register_commitment
    <2>2. CASE ~script
      BY <1>2, <1>4, <2>2 DEF register_commitment
    <2> QED BY <2>1, <2>2
  <1>5. ASSUME NEW d \in Commitment, TransmitReveal(d) PROVE OneFlood(z)'
    BY <1>2, <1>5 DEF TransmitReveal
  <1>6. CASE spawn_reveal_broadcast
    BY <1>3, <1>6, BroadcastOnce, RfqAssumption DEF spawn_reveal_broadcast
  <1>7. ASSUME NEW n \in Node, NEW f \in Node, Dispatch(n, f) PROVE OneFlood(z)'
    <2>1. CASE on_proposal_request(n, f) \/ on_gossip(n, f)
      <3>1. PICK m : /\ Receives(n, f, m) /\ forward(n, f, m)
                     /\ m \in [kind : Flooded, size : Sizes]
        BY <2>1 DEF on_proposal_request, on_gossip, Flooded, Sizes
      <3>2. m \in Flood(z) \cup Answer
        BY <3>1, TakenType, Zenon DEF OneFlood, Carries
      <3>3. m \notin Answer
        BY <3>1 DEF Answer, Flooded
      <3> QED BY <3>1, <3>2, <3>3, ForwardOnce
    <2>2. CASE on_answer(n, f)
      BY <1>1, <2>2, AnswerCarries, Zenon DEF on_answer, OneFlood
    <2> QED BY <1>7, <2>1, <2>2 DEF Dispatch
  <1>8. ASSUME NEW n \in Lp, handle_proposal(n) PROVE OneFlood(z)'
    <2>1. \A k \in {"Response", "Error"} : [kind |-> k, lp |-> n] \in Flood(z) \cup Answer
      BY DEF Answer
    <2>2. UNCHANGED <<handled, seen>>
      BY <1>8 DEF handle_proposal
    <2> QED BY <1>1, <1>8, <2>1, <2>2, QuoteCarries DEF OneFlood
  <1>9. ASSUME NEW l \in Links, Cut(l) \/ Relink(l) PROVE OneFlood(z)'
    <2>1. UNCHANGED <<handled, seen>>
      BY <1>9 DEF Cut, Relink
    <2> QED BY <1>1, <1>9, <2>1, CutCarries DEF OneFlood
  <1>10. OneFlood(z)'
    BY <1>4, <1>5, <1>6, <1>7, <1>8, <1>9 DEF Next, Sizes
  <1>11. asked' = asked
    BY Zenon DEF Next, Sizes, register_commitment, TransmitReveal, spawn_reveal_broadcast, Dispatch,
           on_proposal_request, on_gossip, on_answer, handle_proposal, Cut, Relink
  <1> QED BY <1>10, <1>11

LEMMA OnceNext == OnceInv /\ [Next]_vars => OnceInv'
  <1> SUFFICES ASSUME OnceInv, [Next]_vars PROVE OnceInv'
    OBVIOUS
  <1>1. CASE UNCHANGED vars
    BY <1>1, Zenon DEF vars, OnceInv, OneFlood, Carries, Seen
  <1>2. ASSUME NEW size \in Sizes, request_quote(size) PROVE OnceInv'
    <2> DEFINE m == [kind |-> "Request", size |-> size]
    <2>1. OneFlood(size)
      <3>1. CASE asked = 0
        BY <3>1 DEF OnceInv
      <3>2. CASE asked # 0
        <4>1. PICK z \in Sizes : OneFlood(z)
          BY DEF OnceInv
        <4>2. m \in Range(seen[Taker]) /\ seen[Taker] \in Seq(Flood(z))
          BY <1>2, <3>2, <4>1, RfqAssumption DEF OnceInv, request_quote, Seen, OneFlood, Carries
        <4>3. PICK i \in DOMAIN seen[Taker] : seen[Taker][i] = m
          BY <4>2 DEF Range
        <4>4. m \in Flood(z)
          BY <4>2, <4>3
        <4>5. size = z
          BY <4>4 DEF Flood
        <4> QED BY <4>1, <4>5
      <3> QED BY <3>1, <3>2
    <2>2. m \in Flood(size)
      BY DEF Flood
    <2>3. OneFlood(size)'
      BY <1>2, <2>1, <2>2, BroadcastOnce, RfqAssumption DEF request_quote
    <2>4. asked' \in Nat /\ asked' # 0
      BY <1>2 DEF OnceInv, request_quote
    <2> QED BY <2>3, <2>4 DEF OnceInv
  <1>3. CASE Next /\ ~\E size \in Sizes : request_quote(size)
    BY <1>3, OtherStepsOnce DEF OnceInv
  <1> QED BY <1>1, <1>2, <1>3

\* Whatever the cycles of the network, the repeats of the taker and the links
\* that break, a node quotes, registers a script and claims at most once (forward
\* answers whether the message is new; SeenSet::insert evicts only when full).
THEOREM ActedOnOnce == Spec => []HandledOnce
  <1>1. OnceInv => HandledOnce
    BY DEF OnceInv, OneFlood, HandledOnce
  <1> QED BY <1>1, OnceInit, OnceNext, PTL DEF Spec

-----------------------------------------------------------------------------
(* The events, for every number of confirmations, range size and chain:    *)
(* what is tracked is final, in order, and complete but for what a kill    *)
(* between the cursor's save and the tracking cuts off.                    *)

LEMMA MaxOfTwo ==
    ASSUME NEW a \in Int, NEW b \in Int
    PROVE  /\ Max({a, b}) \in {a, b}
           /\ Max({a, b}) >= a /\ Max({a, b}) >= b
  <1>1. \E x \in {a, b} : \A y \in {a, b} : x >= y
    <2>1. CASE a >= b
      BY <2>1
    <2>2. CASE b >= a
      BY <2>2
    <2> QED BY <2>1, <2>2
  <1> QED BY <1>1 DEF Max

LEMMA MinOfTwo ==
    ASSUME NEW a \in Int, NEW b \in Int
    PROVE  /\ Min({a, b}) \in {a, b}
           /\ Min({a, b}) <= a /\ Min({a, b}) <= b
  <1>1. \E x \in {a, b} : \A y \in {a, b} : x <= y
    <2>1. CASE a <= b
      BY <2>1
    <2>2. CASE b <= a
      BY <2>2
    <2> QED BY <2>1, <2>2
  <1> QED BY <1>1 DEF Min

\* A range ends at the cursor (nothing to fetch) or past it, and then at most
\* at the end of the confirmed blocks.
LEMMA NextEndIsConfirmed ==
    ASSUME cursor \in Nat, NEW head \in Int
    PROVE  \/ NextEnd(head) = cursor
           \/ /\ NextEnd(head) \in Nat /\ cursor < NextEnd(head)
              /\ NextEnd(head) <= head - minimum_block_confirmations + 1
  <1> DEFINE m == Max({max_blocks_per_poll, 1})
             c == head - minimum_block_confirmations + 1
  <1>1. m \in Nat /\ m >= 1
    BY PollAssumption, MaxOfTwo
  <1>2. c \in Int
    BY PollAssumption
  <1> HIDE DEF m, c
  <1>3. Min({c, cursor + m}) \in {c, cursor + m} /\ Min({c, cursor + m}) <= c
    BY <1>1, <1>2, MinOfTwo
  <1>4. NextEnd(head) = IF head < minimum_block_confirmations \/ cursor >= c
                        THEN cursor ELSE Min({c, cursor + m})
    BY DEF NextEnd, RangeEnd, m, c
  <1> QED BY <1>1, <1>2, <1>3, <1>4, PollAssumption DEF c

LEMMA EntryFields ==
    ASSUME NEW s \in Seq(Entry), NEW i \in DOMAIN s
    PROVE  s[i] \in Entry /\ s[i].height \in Nat /\ s[i].block \in Blocks
  <1>1. s[i] \in Entry
    OBVIOUS
  <1> QED BY <1>1 DEF Entry

LEMMA FallbackIsNat ==
    ASSUME NEW head \in Nat
    PROVE  FallbackCursor(head) \in Nat
  BY PollAssumption DEF FallbackCursor, Monus

-----------------------------------------------------------------------------
\* The height of the next block to track: everything between the first cursor
\* and it was tracked or lost, and what was fetched from it on is in logs.
Base == cursor - Len(logs)

\* The chain as the node relies on it: a block is final once confirmed.
ChainInv == Len(chain) - minimum_block_confirmations <= final

\* Where poll_finalized stands decides what is fetched and what is saved.
ControlInv ==
    /\ pc = "getLogs" => cursor < end /\ end <= final
    /\ pc \in {"idle", "getLogs"} => logs = <<>>
    /\ pc = "track" => stored = cursor
    /\ pc # "track" => stored \in {NoCursor, Base}
    /\ stored = NoCursor => start = Base
    /\ Base \in Nat /\ start <= Base

\* Fetched logs are consecutive final blocks that end below the cursor.
LogsInv ==
    \A i \in DOMAIN logs :
        /\ logs[i].height = Base + i - 1
        /\ logs[i].height < final
        /\ chain[logs[i].height + 1] = logs[i].block

TrackedInv == \A i \in DOMAIN tracked : tracked[i].height < Base

CompleteInv == start .. Base - 1 = TrackedHeights \cup lost

IInv == /\ TypeOK /\ ChainInv /\ ControlInv /\ LogsInv /\ TrackedInv
        /\ TrackedIsFinal /\ TrackedInOrder /\ CompleteInv

LEMMA InitIInv == PollInit => IInv
  <1> SUFFICES ASSUME PollInit PROVE IInv
    OBVIOUS
  <1>1. PICK b \in Blocks : chain = <<b>>
    BY DEF PollInit
  <1>2. chain \in Seq(Blocks) /\ Len(chain) = 1
    BY <1>1
  <1>3. cursor \in Nat /\ start = cursor
    BY FallbackIsNat DEF PollInit
  <1>4. final \in 0..1 /\ 1 - minimum_block_confirmations <= final
    BY PollAssumption DEF PollInit, Monus
  <1>5. Len(logs) = 0 /\ DOMAIN logs = {} /\ Base = cursor
    BY <1>3 DEF PollInit, Base
  <1>6. tracked = <<>> /\ DOMAIN tracked = {} /\ lost = {} /\ TrackedHeights = {}
    BY DEF PollInit, TrackedHeights
  <1>7. TypeOK
    BY <1>2, <1>3, <1>4, PollAssumption DEF PollInit, TypeOK
  <1>8. ChainInv /\ ControlInv /\ LogsInv /\ TrackedInv /\ TrackedIsFinal
          /\ TrackedInOrder
    BY <1>2, <1>3, <1>4, <1>5, <1>6
       DEF PollInit, ChainInv, ControlInv, LogsInv, TrackedInv, TrackedIsFinal, TrackedInOrder
  <1>9. CompleteInv
    BY <1>3, <1>5, <1>6 DEF CompleteInv
  <1> QED BY <1>7, <1>8, <1>9 DEF IInv

\* A step of the chain that keeps its final blocks and leaves the node alone
\* keeps the invariant.
LEMMA ChainStepKeepsIInv ==
    ASSUME IInv, UNCHANGED <<nodeVars, history>>,
           chain' \in Seq(Blocks), Len(chain') > 0, reorgs' \in 0 .. MaxReorgs,
           final' \in final .. Len(chain'),
           Len(chain') - minimum_block_confirmations <= final',
           \A h \in Nat : h < final => chain'[h + 1] = chain[h + 1]
    PROVE  IInv'
  <1>1. TypeOK /\ final \in Nat /\ final <= final' /\ final' \in Nat
    BY DEF IInv, TypeOK
  <1>2. TypeOK'
    BY <1>1 DEF TypeOK, nodeVars, history
  <1>3. ChainInv'
    BY DEF ChainInv
  <1>4. ControlInv'
    BY <1>1 DEF IInv, ControlInv, Base, nodeVars, history, TypeOK
  <1>5. LogsInv'
    <2>1. \A i \in DOMAIN logs : logs[i].height \in Nat
      BY <1>1, EntryFields DEF TypeOK
    <2> QED BY <1>1, <2>1 DEF IInv, LogsInv, Base, nodeVars
  <1>6. TrackedIsFinal'
    <2>1. \A i \in DOMAIN tracked : tracked[i].height \in Nat
      BY <1>1, EntryFields DEF TypeOK
    <2> QED BY <1>1, <2>1 DEF IInv, TrackedIsFinal, history
  <1>7. TrackedInv' /\ TrackedInOrder' /\ CompleteInv'
    BY DEF IInv, TrackedInv, TrackedInOrder, CompleteInv, TrackedHeights, Base,
           nodeVars, history
  <1> QED BY <1>2, <1>3, <1>4, <1>5, <1>6, <1>7 DEF IInv

LEMMA MineKeepsIInv ==
    ASSUME IInv, Mine
    PROVE  IInv'
  <1>1. /\ chain \in Seq(Blocks) /\ Len(chain) \in Nat /\ final \in 0 .. Len(chain)
        /\ Len(chain) - minimum_block_confirmations <= final
        /\ reorgs \in 0 .. MaxReorgs /\ minimum_block_confirmations \in Nat
    BY PollAssumption DEF IInv, TypeOK, ChainInv
  <1>2. PICK b \in Blocks : chain' = Append(chain, b)
    BY DEF Mine
  <1>3. /\ chain' \in Seq(Blocks) /\ Len(chain') = Len(chain) + 1
        /\ \A i \in 1 .. Len(chain) : chain'[i] = chain[i]
    BY <1>1, <1>2
  <1> DEFINE m == Monus(Len(chain) + 1, minimum_block_confirmations)
  <1>4. m \in Nat /\ m <= Len(chain) + 1
           /\ Len(chain) + 1 - minimum_block_confirmations <= m
    BY <1>1 DEF Monus
  <1>5. final' = Max({final, m})
    BY DEF Mine
  <1> HIDE DEF m
  <1>6. final' \in {final, m} /\ final' >= final /\ final' >= m
    <2>1. final \in Int /\ m \in Int
      BY <1>1, <1>4
    <2>2. /\ Max({final, m}) \in {final, m}
          /\ Max({final, m}) >= final /\ Max({final, m}) >= m
      BY <2>1, MaxOfTwo, Zenon
    <2> QED BY <1>5, <2>2
  <1>7. \A h \in Nat : h < final => chain'[h + 1] = chain[h + 1]
    BY <1>1, <1>3, SMTT(30)
  <1>8. /\ final' \in final .. Len(chain')
        /\ Len(chain') - minimum_block_confirmations <= final'
    BY <1>1, <1>3, <1>4, <1>6
  <1> QED BY <1>1, <1>3, <1>7, <1>8, ChainStepKeepsIInv DEF Mine

LEMMA ReorgKeepsIInv ==
    ASSUME IInv, Reorg
    PROVE  IInv'
  <1>1. /\ chain \in Seq(Blocks) /\ Len(chain) \in Nat /\ final \in 0 .. Len(chain)
        /\ Len(chain) - minimum_block_confirmations <= final
        /\ reorgs \in 0 .. MaxReorgs /\ minimum_block_confirmations \in Nat
        /\ MaxReorgs \in Nat
    BY PollAssumption DEF IInv, TypeOK, ChainInv
  <1>2. PICK n \in 1 .. Len(chain) - 1 : n >= final /\ chain' = SubSeq(chain, 1, n)
    BY DEF Reorg
  <1>3. /\ chain' \in Seq(Blocks) /\ Len(chain') = n
        /\ \A i \in 1 .. n : chain'[i] = chain[i]
    BY <1>1, <1>2
  <1>4. \A h \in Nat : h < final => chain'[h + 1] = chain[h + 1]
    BY <1>1, <1>2, <1>3
  <1>5. final' = final /\ reorgs' \in 0 .. MaxReorgs
    BY <1>1 DEF Reorg
  <1>6. /\ final' \in final .. Len(chain') /\ Len(chain') > 0
        /\ Len(chain') - minimum_block_confirmations <= final'
    BY <1>1, <1>2, <1>3, <1>5
  <1> QED BY <1>3, <1>4, <1>5, <1>6, ChainStepKeepsIInv DEF Reorg

\* A step of the node that fetches, tracks and loses nothing keeps the
\* invariant when it keeps the types and the control part.
LEMMA QuietStepKeepsIInv ==
    ASSUME IInv, UNCHANGED <<chainVars, cursor, logs, tracked, start, lost>>,
           TypeOK', ControlInv'
    PROVE  IInv'
  BY DEF IInv, ChainInv, LogsInv, TrackedInv, TrackedIsFinal, TrackedInOrder,
         CompleteInv, TrackedHeights, Base, chainVars

LEMMA BlockNumberKeepsIInv ==
    ASSUME IInv, BlockNumber
    PROVE  IInv'
  <1>1. TypeOK /\ ControlInv /\ ChainInv /\ cursor \in Nat /\ HeadBlock \in Nat
    BY DEF IInv, TypeOK, HeadBlock
  <1>2. \/ end' = cursor /\ pc' = "save"
        \/ end' \in Nat /\ cursor < end' /\ pc' = "getLogs"
             /\ end' <= HeadBlock - minimum_block_confirmations + 1
    BY <1>1, NextEndIsConfirmed DEF BlockNumber
  <1>3. TypeOK'
    BY <1>1, <1>2 DEF BlockNumber, TypeOK, chainVars, history
  <1>4. pc' = "getLogs" => end' <= final
    BY <1>1, <1>2, PollAssumption DEF ChainInv, HeadBlock, TypeOK
  <1>5. ControlInv'
    BY <1>1, <1>2, <1>4 DEF BlockNumber, ControlInv, Base, chainVars, history
  <1> QED BY <1>3, <1>5, QuietStepKeepsIInv DEF BlockNumber, history

LEMMA RpcFailsKeepsIInv ==
    ASSUME IInv, RpcFails
    PROVE  IInv'
  <1>1. TypeOK /\ ControlInv
    BY DEF IInv
  <1>2. TypeOK' /\ ControlInv'
    BY <1>1 DEF RpcFails, TypeOK, ControlInv, Base, chainVars, history
  <1> QED BY <1>2, QuietStepKeepsIInv DEF RpcFails, history

LEMMA SaveCursorKeepsIInv ==
    ASSUME IInv, SaveCursor
    PROVE  IInv'
  <1>1. TypeOK /\ ControlInv
    BY DEF IInv
  <1>2. TypeOK' /\ ControlInv'
    BY <1>1, PollAssumption
       DEF SaveCursor, TypeOK, ControlInv, Base, chainVars, history
  <1> QED BY <1>2, QuietStepKeepsIInv DEF SaveCursor, history

LEMMA ReturnEventsKeepsIInv ==
    ASSUME IInv, ReturnEvents
    PROVE  IInv'
  <1>1. TypeOK /\ ControlInv
    BY DEF IInv
  <1>2. handed' \in Seq(Entry) /\ events' \in Seq(Entry)
    BY <1>1 DEF ReturnEvents, TypeOK
  <1>3. TypeOK'
    BY <1>1, <1>2 DEF ReturnEvents, TypeOK, chainVars
  <1>4. ControlInv'
    <2>1. Len(logs) = 0 /\ Base = cursor /\ cursor \in Nat
      BY <1>1 DEF ReturnEvents, Base, TypeOK
    <2> QED BY <1>1, <2>1 DEF ReturnEvents, ControlInv, Base
  <1> QED BY <1>3, <1>4, QuietStepKeepsIInv DEF ReturnEvents

\* GetLogs fetches the blocks from the old cursor to the end of the range,
\* all of them final; nothing is tracked yet.
LEMMA GetLogsKeepsIInv ==
    ASSUME IInv, GetLogs
    PROVE  IInv'
  <1>1. /\ TypeOK /\ ControlInv /\ ChainInv /\ cursor \in Nat /\ end \in Nat
        /\ cursor < end /\ end <= final /\ final <= Len(chain) /\ final \in Nat
        /\ Len(chain) \in Nat /\ pc = "getLogs" /\ pc' = "save"
    BY SMTT(30) DEF IInv, TypeOK, ControlInv, GetLogs
  <1>2. Base = cursor
    BY <1>1 DEF ControlInv, Base
  <1> DEFINE n == end - cursor
  <1>3. n \in Nat
    BY <1>1
  <1>4. logs' = [i \in 1 .. n |-> [height |-> cursor + i - 1, block |-> chain[cursor + i]]]
    BY DEF GetLogs
  <1> HIDE DEF n
  <1>5. \A i \in 1 .. n : cursor + i - 1 \in Nat /\ cursor + i - 1 < final
                           /\ cursor + i \in 1 .. Len(chain)
    BY <1>1, <1>3 DEF n
  <1>6. \A i \in 1 .. n : [height |-> cursor + i - 1, block |-> chain[cursor + i]] \in Entry
    <2> SUFFICES ASSUME NEW i \in 1 .. n
                 PROVE  [height |-> cursor + i - 1, block |-> chain[cursor + i]] \in Entry
        OBVIOUS
    <2>1. cursor + i - 1 \in Nat /\ chain[cursor + i] \in Blocks
        BY <1>1, <1>5 DEF TypeOK
    <2> QED BY <2>1 DEF Entry
  <1>7. logs' \in Seq(Entry) /\ Len(logs') = n /\ DOMAIN logs' = 1 .. n
    BY <1>3, <1>4, <1>6
  <1>8. cursor' = end /\ Base' = cursor
    BY <1>1, <1>7 DEF GetLogs, Base, n
  <1>9. TypeOK'
    BY <1>1, <1>7, Zenon DEF GetLogs, TypeOK, chainVars, history
  <1>10. ControlInv'
    BY <1>1, <1>2, <1>8 DEF GetLogs, ControlInv, history
  <1>11. LogsInv'
    <2>1. \A i \in 1 .. n : /\ logs'[i].height = cursor + i - 1
                            /\ logs'[i].block = chain[cursor + i]
                            /\ cursor + i = (cursor + i - 1) + 1
      <3>1. \A i \in 1 .. n : cursor + i = (cursor + i - 1) + 1
        BY <1>1, <1>3
      <3> QED BY <1>4, <3>1, Zenon
    <2> QED BY <1>5, <1>7, <1>8, <2>1, Zenon DEF LogsInv, GetLogs, chainVars
  <1>12. ChainInv' /\ TrackedInv' /\ TrackedIsFinal' /\ TrackedInOrder' /\ CompleteInv'
    BY <1>2, <1>8 DEF IInv, GetLogs, ChainInv, TrackedInv, TrackedIsFinal, TrackedInOrder,
       CompleteInv, TrackedHeights, chainVars, history
  <1> QED BY <1>9, <1>10, <1>11, <1>12 DEF IInv

\* TrackLog moves the first fetched block, at height Base, to the end of what
\* was tracked.
LEMMA TrackLogKeepsIInv ==
    ASSUME IInv, TrackLog
    PROVE  IInv'
  <1>1. /\ TypeOK /\ ControlInv /\ LogsInv /\ TrackedInv /\ CompleteInv
        /\ logs \in Seq(Entry) /\ logs # <<>> /\ tracked \in Seq(Entry)
        /\ cursor \in Nat /\ Base \in Nat /\ start \in Nat /\ final \in Nat
        /\ start <= Base /\ pc = "track" /\ pc' = "track"
    BY DEF IInv, TypeOK, ControlInv, TrackLog
  <1> DEFINE e == logs[1]
             n == Len(tracked)
  <1>2. 1 \in DOMAIN logs /\ Len(logs) \in Nat /\ Len(logs) > 0
    BY <1>1
  <1>3. /\ e \in Entry /\ e.height = Base /\ e.height < final
        /\ chain[e.height + 1] = e.block
    BY <1>1, <1>2, EntryFields DEF LogsInv
  <1>4. /\ logs' \in Seq(Entry) /\ Len(logs') = Len(logs) - 1
        /\ \A i \in DOMAIN logs' : i + 1 \in DOMAIN logs /\ logs'[i] = logs[i + 1]
                                   /\ i \in Nat
    BY <1>1, <1>2 DEF TrackLog
  <1>5. Base' = Base + 1
    BY <1>1, <1>2, <1>4 DEF Base, TrackLog
  <1> HIDE DEF e
  <1>6. tracked' = Append(tracked, e) /\ events' = Append(events, e)
    BY DEF TrackLog, e
  <1>7. /\ tracked' \in Seq(Entry) /\ n \in Nat /\ DOMAIN tracked = 1 .. n
        /\ DOMAIN tracked' = 1 .. (n + 1)
        /\ \A i \in DOMAIN tracked : tracked'[i] = tracked[i]
        /\ tracked'[n + 1] = e
    BY <1>1, <1>3, <1>6
  <1>8. TypeOK'
    <2>1. events' \in Seq(Entry)
      BY <1>1, <1>3, <1>6 DEF TypeOK
    <2> QED BY <1>1, <1>4, <1>7, <2>1 DEF TrackLog, TypeOK, chainVars
  <1> HIDE DEF n
  <1>9. \A i \in DOMAIN tracked' : i \in DOMAIN tracked \/ i = n + 1
    BY <1>7
  <1>10. ControlInv'
    BY <1>1, <1>5, PollAssumption DEF ControlInv, TrackLog
  <1>11. LogsInv'
    <2>1. UNCHANGED <<chain, final>>
      BY DEF TrackLog, chainVars
    <2>2. \A i \in DOMAIN logs' :
            /\ logs[i + 1].height = Base + (i + 1) - 1
            /\ logs[i + 1].height < final
            /\ chain[logs[i + 1].height + 1] = logs[i + 1].block
      BY <1>1, <1>4 DEF LogsInv
    <2> QED BY <1>1, <1>4, <1>5, <2>1, <2>2, SMTT(30) DEF LogsInv
  <1>12. TrackedInv' /\ TrackedIsFinal' /\ TrackedInOrder'
    <2>1. \A i \in DOMAIN tracked : tracked[i].height \in Nat /\ tracked[i].height < Base
      BY <1>1, EntryFields DEF TrackedInv
    <2>2. TrackedInv'
      BY <1>1, <1>3, <1>5, <1>7, <1>9, <2>1, SMTT(30) DEF TrackedInv
    <2>3. TrackedIsFinal'
      BY <1>3, <1>7, <1>9 DEF IInv, TrackedIsFinal, TrackLog, chainVars
    <2>4. TrackedInOrder'
      BY <1>1, <1>3, <1>7, <1>9, <2>1 DEF IInv, TrackedInOrder
    <2> QED BY <2>2, <2>3, <2>4
  <1>13. CompleteInv'
    <2>1. TrackedHeights' = TrackedHeights \cup {Base}
      <3>1. n + 1 \in DOMAIN tracked' /\ DOMAIN tracked \subseteq DOMAIN tracked'
        BY <1>7
      <3> QED BY <1>3, <1>7, <1>9, <3>1 DEF TrackedHeights
    <2>2. start .. (Base + 1) - 1 = (start .. Base - 1) \cup {Base}
      BY <1>1
    <2> QED BY <1>1, <1>5, <2>1, <2>2 DEF CompleteInv, TrackLog
  <1> QED BY <1>8, <1>10, <1>11, <1>12, <1>13 DEF IInv, TrackLog, ChainInv, chainVars

\* A kill drops what was fetched.  If the cursor was saved past it, the lost
\* blocks are the ones not yet tracked; if not, the restart fetches them again.
LEMMA CrashKeepsIInv ==
    ASSUME IInv, Crash
    PROVE  IInv'
  <1>1. /\ TypeOK /\ ControlInv /\ LogsInv /\ TrackedInv /\ CompleteInv
        /\ tracked \in Seq(Entry) /\ logs \in Seq(Entry) /\ cursor \in Nat
        /\ Base \in Nat /\ start \in Nat /\ start <= Base /\ HeadBlock \in Nat
    BY DEF IInv, TypeOK, ControlInv, HeadBlock
  <1>2. /\ logs' = <<>> /\ Len(logs') = 0 /\ DOMAIN logs' = {}
        /\ UNCHANGED <<chain, final, reorgs, stored, tracked, handed>>
        /\ pc' = "idle"
    BY DEF Crash, chainVars
  <1>3. cursor' \in Nat /\ Base' = cursor'
    <2>1. BootCursor \in Nat
      BY <1>1, FallbackIsNat, Zenon DEF BootCursor, TypeOK
    <2> QED BY <1>2, <2>1 DEF Crash, Base
  <1> DEFINE fetched == {logs[i].height : i \in DOMAIN logs}
  <1>4. fetched = Base .. cursor - 1
    <2>1. Len(logs) \in Nat /\ DOMAIN logs = 1 .. Len(logs) /\ cursor = Base + Len(logs)
      BY <1>1 DEF Base
    <2>2. fetched \subseteq Base .. cursor - 1
      BY <1>1, <2>1 DEF LogsInv
    <2>3. \A h \in Base .. cursor - 1 : /\ h - Base + 1 \in DOMAIN logs
                                        /\ logs[h - Base + 1].height = h
      BY <1>1, <2>1 DEF LogsInv
    <2> QED BY <2>2, <2>3
  <1>5. TypeOK'
    <2>1. lost' \subseteq Nat
      <3>1. Base .. cursor - 1 \subseteq Nat
        BY <1>1
      <3> HIDE DEF fetched
      <3>2. lost' = IF pc = "track" THEN lost \cup fetched ELSE lost
        BY DEF Crash, fetched
      <3> QED BY <1>1, <1>4, <3>1, <3>2 DEF TypeOK
    <2>2. crashes' \in 0 .. MaxCrashes
      BY <1>1, PollAssumption DEF Crash, TypeOK
    <2>3. start' \in Nat
      BY <1>1, <1>3 DEF Crash
    <2> QED BY <1>1, <1>2, <1>3, <2>1, <2>2, <2>3 DEF Crash, TypeOK
  <1>6. LogsInv' /\ ChainInv' /\ TrackedIsFinal' /\ TrackedInOrder'
    BY <1>2 DEF IInv, LogsInv, ChainInv, TrackedIsFinal, TrackedInOrder
  <1>7. TrackedHeights' = TrackedHeights
    BY <1>2 DEF TrackedHeights
  <1>8. CASE stored = NoCursor
    <2>1. /\ pc # "track" /\ cursor' = FallbackCursor(HeadBlock) /\ start' = cursor'
          /\ lost' = lost
      BY <1>1, <1>8, PollAssumption DEF ControlInv, Crash, BootCursor
    <2>2. TrackedHeights = {} /\ lost = {}
      <3>1. start .. Base - 1 = {}
        BY <1>1, <1>8 DEF ControlInv
      <3> QED BY <1>1, <3>1 DEF CompleteInv
    <2>3. DOMAIN tracked = {}
      BY <2>2, Zenon DEF TrackedHeights
    <2>4. ControlInv'
      BY <1>2, <1>3, <1>8, <2>1 DEF ControlInv
    <2>5. TrackedInv'
      BY <1>2, <2>3 DEF TrackedInv
    <2>6. CompleteInv'
      <3>1. start' .. Base' - 1 = {}
        BY <1>3, <2>1
      <3> QED BY <1>7, <2>1, <2>2, <3>1 DEF CompleteInv
    <2> QED BY <1>5, <1>6, <2>4, <2>5, <2>6 DEF IInv
  <1>9. CASE stored # NoCursor /\ pc # "track"
    <2>1. cursor' = Base /\ stored = Base /\ start' = start /\ lost' = lost
      BY <1>1, <1>9 DEF ControlInv, Crash, BootCursor
    <2>2. ControlInv'
      BY <1>1, <1>2, <1>3, <1>9, <2>1 DEF ControlInv
    <2>3. TrackedInv' /\ CompleteInv'
      BY <1>1, <1>2, <1>3, <1>7, <2>1, SMTT(30) DEF TrackedInv, CompleteInv
    <2> QED BY <1>5, <1>6, <2>2, <2>3 DEF IInv
  <1>10. CASE stored # NoCursor /\ pc = "track"
    <2>1. cursor' = cursor /\ stored = cursor /\ start' = start /\ lost' = lost \cup fetched
      BY <1>1, <1>10 DEF ControlInv, Crash, BootCursor
    <2>2. Base <= cursor
      BY <1>1 DEF Base
    <2>3. ControlInv'
      BY <1>1, <1>2, <1>3, <1>10, <2>1, <2>2 DEF ControlInv
    <2>4. TrackedInv'
      <3>1. \A i \in DOMAIN tracked : tracked[i].height \in Nat
        BY <1>1, EntryFields
      <3> QED BY <1>1, <1>2, <1>3, <2>1, <2>2, <3>1 DEF TrackedInv
    <2>5. CompleteInv'
      <3>1. start .. cursor - 1 = (start .. Base - 1) \cup (Base .. cursor - 1)
        BY <1>1, <2>2
      <3> HIDE DEF fetched
      <3> QED BY <1>1, <1>3, <1>4, <1>7, <2>1, <3>1 DEF CompleteInv
    <2> QED BY <1>5, <1>6, <2>3, <2>4, <2>5 DEF IInv
  <1> QED BY <1>8, <1>9, <1>10

LEMMA NextIInv == IInv /\ [PollNext]_pollVars => IInv'
  <1> SUFFICES ASSUME IInv, [PollNext]_pollVars PROVE IInv'
    OBVIOUS
  <1>1. CASE UNCHANGED pollVars
    <2>1. UNCHANGED <<chainVars, nodeVars, history>>
      BY <1>1 DEF pollVars
    <2>2. TypeOK' /\ ControlInv'
      BY <2>1 DEF IInv, TypeOK, ControlInv, Base, chainVars, nodeVars, history
    <2> QED BY <2>1, <2>2, QuietStepKeepsIInv DEF nodeVars, history
  <1> QED BY <1>1, MineKeepsIInv, ReorgKeepsIInv, BlockNumberKeepsIInv, RpcFailsKeepsIInv,
             GetLogsKeepsIInv, SaveCursorKeepsIInv, TrackLogKeepsIInv, ReturnEventsKeepsIInv,
             CrashKeepsIInv DEF PollNext, Poll

\* The inductive invariant holds in every reachable state of the intake.
THEOREM InductiveInvariant == PollSpec => []IInv
  BY InitIInv, NextIInv, PTL DEF PollSpec

\* The intake keeps its types whatever the chain, the RPC and the kills do.
THEOREM TypeCorrect == PollSpec => []TypeOK
  <1>1. IInv => TypeOK
    BY DEF IInv
  <1> QED BY <1>1, InductiveInvariant, PTL

\* What next_range lets through has enough confirmations: no tracked log is
\* ever reorganised away.
THEOREM TrackedStaysFinal == PollSpec => []TrackedIsFinal
  <1>1. IInv => TrackedIsFinal
    BY DEF IInv
  <1> QED BY <1>1, InductiveInvariant, PTL

\* poll_finalized tracks each block at most once and in chain order, across
\* failures and restarts.
THEOREM TrackedOnceInOrder == PollSpec => []TrackedInOrder
  <1>1. IInv => TrackedInOrder
    BY DEF IInv
  <1> QED BY <1>1, InductiveInvariant, PTL

\* Between polls the intake has tracked every block up to its cursor, except
\* those a kill cut off between the cursor's save and their tracking.
THEOREM CompleteUpToCrashes == PollSpec => []GapsOnlyFromCrashes
  <1>1. IInv => GapsOnlyFromCrashes
    <2> SUFFICES ASSUME IInv, pc = "idle"
                 PROVE  start .. cursor - 1 = TrackedHeights \cup lost
      BY DEF GapsOnlyFromCrashes
    <2>1. Base = cursor
      BY DEF IInv, ControlInv, Base, TypeOK
    <2> QED BY <2>1 DEF IInv, CompleteInv
  <1> QED BY <1>1, InductiveInvariant, PTL

\* Across failed calls, partial ranges and restarts every confirmed log is
\* tracked once and in order, but for what a kill cut off.
THEOREM ExactlyOnce == PollSpec => []TrackedExactlyOnce
  <1>1. TrackedInOrder /\ GapsOnlyFromCrashes => TrackedExactlyOnce
    BY DEF TrackedExactlyOnce
  <1> QED BY <1>1, TrackedOnceInOrder, CompleteUpToCrashes, PTL

\* The assertion of PollState::advance, and its counterpart on disk.
THEOREM CursorAdvances == PollSpec => CursorNeverBackwards
  <1> DEFINE Up == /\ stored # NoCursor => stored' >= stored
                   /\ crashes' = crashes => cursor' >= cursor
  <1>1. ASSUME IInv, [PollNext]_pollVars
        PROVE  [Up]_pollVars
    <2>1. /\ TypeOK /\ ControlInv /\ cursor \in Nat /\ end \in Nat /\ Base <= cursor
          /\ crashes \in Nat /\ (stored # NoCursor => stored \in Nat)
      BY <1>1, PollAssumption DEF IInv, TypeOK, ControlInv, Base
    <2>2. CASE Mine \/ Reorg \/ BlockNumber \/ RpcFails \/ TrackLog \/ ReturnEvents
      <3>1. stored' = stored /\ cursor' = cursor
        BY <2>2 DEF Mine, Reorg, BlockNumber, RpcFails, TrackLog, ReturnEvents, nodeVars
      <3> QED BY <2>1, <3>1
    <2>3. CASE GetLogs
      BY <2>1, <2>3 DEF GetLogs, ControlInv
    <2>4. CASE SaveCursor
      BY <2>1, <2>4, PollAssumption DEF SaveCursor, ControlInv
    <2>5. CASE Crash
      BY <2>1, <2>5 DEF Crash
    <2> QED BY <1>1, <2>2, <2>3, <2>4, <2>5 DEF PollNext, Poll
  <1> HIDE DEF Up
  <1>2. PollSpec => [][Up]_pollVars
    BY <1>1, InductiveInvariant, PTL DEF PollSpec
  <1> QED BY <1>2 DEF CursorNeverBackwards, Up
=============================================================================
