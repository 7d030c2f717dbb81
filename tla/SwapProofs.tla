----------------------------- MODULE SwapProofs -----------------------------
(***************************************************************************)
(* Proofs about one swap: how a daemon follows it (SwapHandler) and how    *)
(* its two legs fit in time (AtomicSwap), one part each.                   *)
(***************************************************************************)
EXTENDS SwapHandler, AtomicSwap, TLAPS

-----------------------------------------------------------------------------
(***************************************************************************)
(* Proofs about the swap handler, for any number of restarts: the record   *)
(* agrees with the chains, its resolution is final, and a process counters *)
(* a deposit once, and only if its channel hands the deposit over.         *)
(***************************************************************************)

-----------------------------------------------------------------------------
(* The event that may start a counter, and how often a sequence holds it.  *)

Opening == [source |-> "A", kind |-> "Commitment"]
Has(s) == \E i \in 1 .. Len(s) : s[i] = Opening
Once(s) == \A i, j \in 1 .. Len(s) : s[i] = Opening /\ s[j] = Opening => i = j
OpensFirst(s) == \A i \in 1 .. Len(s) : s[i] = Opening => i = 1

LEMMA AppendOpens ==
    ASSUME NEW S, NEW s \in Seq(S), NEW e \in S
    PROVE  /\ Append(s, e) \in Seq(S) /\ Len(Append(s, e)) = Len(s) + 1
           /\ OpensFirst(s) /\ (e = Opening => s = <<>>) => OpensFirst(Append(s, e))
  <1>1. /\ Append(s, e) \in Seq(S) /\ Len(s) \in Nat /\ Len(Append(s, e)) = Len(s) + 1
        /\ \A i \in 1 .. Len(s) + 1 : Append(s, e)[i] = IF i <= Len(s) THEN s[i] ELSE e
    OBVIOUS
  <1>2. s = <<>> => Len(s) = 0
    OBVIOUS
  <1> QED BY <1>1, <1>2 DEF OpensFirst

LEMMA TailHas ==
    ASSUME NEW S, NEW s \in Seq(S), s # <<>>
    PROVE  /\ Head(s) \in S /\ Tail(s) \in Seq(S)
           /\ Has(Tail(s)) => Has(s)
           /\ Once(s) => Once(Tail(s))
           /\ Once(s) /\ Head(s) = Opening => ~Has(Tail(s))
           /\ Head(s) = Opening => Has(s)
  <1>1. /\ Len(s) \in Nat \ {0} /\ Len(Tail(s)) = Len(s) - 1
        /\ Head(s) = s[1]
        /\ \A i \in 1 .. Len(s) - 1 : Tail(s)[i] = s[i + 1]
    OBVIOUS
  <1> QED BY <1>1 DEF Has, Once

LEMMA SliceHas ==
    ASSUME NEW S, NEW s \in Seq(S), NEW n \in 0 .. Len(s), NEW m \in 0 .. n
    PROVE  LET r == SubSeq(s, m + 1, n)
           IN  /\ r \in Seq(S)
               /\ Has(r) => Has(s)
               /\ OpensFirst(s) => Once(r) /\ (Has(r) => m = 0 /\ n > 0)
  <1> DEFINE r == SubSeq(s, m + 1, n)
  <1>1. Len(s) \in Nat /\ m \in Nat /\ n \in Nat /\ \A i \in 1 .. Len(s) : s[i] \in S
    OBVIOUS
  <1>2. /\ r \in Seq(S) /\ Len(r) = n - m
        /\ \A i \in 1 .. n - m : r[i] = s[m + i]
    BY <1>1
  <1> HIDE DEF r
  <1>3. \A i \in 1 .. Len(r) : i \in Int /\ m + i \in 1 .. Len(s) /\ r[i] = s[m + i]
    BY <1>1, <1>2
  <1>4. Has(r) => Has(s)
    BY <1>3 DEF Has
  <1>5. ASSUME OpensFirst(s), NEW i \in 1 .. Len(r), r[i] = Opening PROVE i = 1 /\ m = 0 /\ n > 0
    <2>1. m + i \in 1 .. Len(s) /\ s[m + i] = Opening
      BY <1>3, <1>5
    <2>2. m + i = 1
      BY <2>1, <1>5, Zenon DEF OpensFirst
    <2>3. i \in Int /\ i >= 1 /\ i <= n - m
      BY <1>1, <1>2
    <2> QED BY <2>2, <2>3, <1>1
  <1> QED BY <1>2, <1>4, <1>5, Zenon DEF Has, Once, r

LEMMA ConcatHas ==
    ASSUME NEW S, NEW s \in Seq(S), NEW t \in Seq(S)
    PROVE  /\ s \o t \in Seq(S)
           /\ Has(s \o t) => Has(s) \/ Has(t)
           /\ Once(s) /\ Once(t) /\ ~(Has(s) /\ Has(t)) => Once(s \o t)
  <1>1. Len(s) \in Nat /\ Len(t) \in Nat
    OBVIOUS
  <1>2. /\ s \o t \in Seq(S) /\ Len(s \o t) = Len(s) + Len(t)
        /\ \A i \in 1 .. Len(s) + Len(t) :
              (s \o t)[i] = IF i <= Len(s) THEN s[i] ELSE t[i - Len(s)]
    OBVIOUS
  <1> DEFINE u == s \o t
  <1> HIDE DEF u
  <1>3. \A i \in 1 .. Len(u) : u[i] = Opening =>
            \/ i \in 1 .. Len(s) /\ s[i] = Opening
            \/ i - Len(s) \in 1 .. Len(t) /\ t[i - Len(s)] = Opening
    BY <1>1, <1>2 DEF u
  <1>4. Has(u) => Has(s) \/ Has(t)
    BY <1>3 DEF Has
  <1>5. Once(s) /\ Once(t) /\ ~(Has(s) /\ Has(t)) => Once(u)
    <2> SUFFICES ASSUME Once(s), Once(t), ~(Has(s) /\ Has(t)),
                        NEW i \in 1 .. Len(u), NEW j \in 1 .. Len(u),
                        u[i] = Opening, u[j] = Opening
                 PROVE  i = j
      BY DEF Once
    <2> i \in Int /\ j \in Int
      BY <1>1, <1>2 DEF u
    <2> QED BY <1>1, <1>3, SMTT(30) DEF Has, Once
  <1> QED BY <1>2, <1>4, <1>5 DEF u

-----------------------------------------------------------------------------
(* The inductive invariant.                                                *)

\* What channel c has really reported.
Happened(c) ==
    {e \in ChainEvent : /\ e.source = c /\ htlc[c] # "none"
                        /\ e.kind = "Reveal" => revealed
                        /\ e.kind = "Refund" => htlc[c] = "refunded"}

Typed ==
    /\ is_lp \in BOOLEAN /\ revealed \in BOOLEAN
    /\ htlc \in [Legs -> {"none", "open", "claimed", "refunded"}]
    /\ pc \in {"idle", "internal", "broadcast", "counterparty"}
    /\ record \in Record
    /\ counters \in Nat
    /\ cursor \in [Legs -> Nat] /\ stored \in [Legs -> Nat]

\* No event before what it reports.
Truthful ==
    /\ DOMAIN confirmed = Legs
    /\ \A c \in Legs : confirmed[c] \in Seq(Happened(c))
    /\ batch \in Seq(Happened("A") \cup Happened("B"))

\* What the driver and the peer task know where they stand.
Control ==
    /\ Locked => record.init # "none"
    /\ pc # "idle" => batch # <<>>
    /\ pc \in {"internal", "broadcast"} => Head(batch).kind = "Commitment"
    /\ pc = "broadcast" => Head(batch) = Opening
    /\ pc = "counterparty" \/ peer # {} => revealed

\* The deposit is the first event of its channel: a process is handed it once,
\* if it started before it, and has sent no counter until then.
OneOpening ==
    /\ OpensFirst(confirmed["A"])
    /\ stored["A"] <= cursor["A"]
    /\ Once(batch)
    /\ Has(batch) => counters = 0 /\ stored["A"] = 0 /\ cursor["A"] > 0
    /\ cursor["A"] = 0 => counters = 0
    /\ OneCounter

HandlerInv == Typed /\ Truthful /\ Control /\ RecordAgrees /\ OneOpening

\* What happened stays happened.
LEMMA HappenedGrows ==
    ASSUME \A c \in Legs : /\ htlc[c] # "none" => htlc'[c] # "none"
                           /\ htlc[c] = "refunded" => htlc'[c] = "refunded",
           revealed => revealed'
    PROVE  /\ \A c \in Legs : Happened(c) \subseteq Happened(c)'
           /\ \A c \in Legs : Seq(Happened(c)) \subseteq Seq(Happened(c)')
           /\ Seq(Happened("A") \cup Happened("B"))
                \subseteq Seq(Happened("A")' \cup Happened("B")')
  <1>1. \A c \in Legs : Happened(c) \subseteq Happened(c)'
    BY DEF Happened
  <1>2. \A c \in Legs : Seq(Happened(c)) \subseteq Seq(Happened(c)')
    BY <1>1
  <1>3. Happened("A") \cup Happened("B") \subseteq Happened("A")' \cup Happened("B")'
    BY <1>1 DEF Legs
  <1> QED BY <1>1, <1>2, <1>3

\* A step of a chain: one leg moves on and reports it.
LEMMA ChainStep ==
    ASSUME HandlerInv, NEW c \in Legs, NEW status \in {"open", "claimed", "refunded"},
           NEW kind \in {"Commitment", "Reveal", "Refund"},
           Happens(c, status, kind),
           htlc[c] # "refunded",
           kind = "Commitment" <=> htlc[c] = "none",
           kind = "Reveal" => revealed, kind = "Refund" => status = "refunded",
           UNCHANGED <<daemonVars, revealed>>
    PROVE  HandlerInv'
  <1> USE DEF HandlerInv
  <1> DEFINE e == [source |-> c, kind |-> kind]
  <1>1. Typed'
    BY DEF Typed, Happens, daemonVars, driverVars, lifeVars
  <1>2. /\ \A d \in Legs : htlc[d] # "none" => htlc'[d] # "none"
        /\ \A d \in Legs : htlc[d] = "refunded" => htlc'[d] = "refunded"
        /\ htlc'[c] # "none"
    BY DEF Typed, Happens
  <1>3. /\ \A d \in Legs : Seq(Happened(d)) \subseteq Seq(Happened(d)')
        /\ Seq(Happened("A") \cup Happened("B"))
                \subseteq Seq(Happened("A")' \cup Happened("B")')
    BY <1>2, HappenedGrows
  <1>4. e \in Happened(c)'
    BY <1>2 DEF Happened, ChainEvent, Happens, Typed
  <1>5. \A d \in Legs : confirmed'[d] = IF d = c THEN Append(confirmed[c], e) ELSE confirmed[d]
    BY DEF Happens, Truthful
  <1>6. Truthful'
    <2>1. confirmed[c] \in Seq(Happened(c)')
      BY <1>3 DEF Truthful
    <2>2. Append(confirmed[c], e) \in Seq(Happened(c)')
      BY <2>1, <1>4
    <2>3. \A d \in Legs : confirmed'[d] \in Seq(Happened(d)')
      BY <2>2, <1>3, <1>5, Zenon DEF Truthful
    <2>4. batch' \in Seq(Happened("A")' \cup Happened("B")')
      BY <1>3 DEF Truthful, daemonVars, driverVars, lifeVars
    <2>5. DOMAIN confirmed' = Legs
      BY DEF Truthful, Happens
    <2> QED BY <2>3, <2>4, <2>5 DEF Truthful
  <1>7. Control'
    BY DEF Control, Locked, daemonVars, driverVars, lifeVars
  <1>8. RecordAgrees'
    BY <1>2 DEF RecordAgrees, Locked, Typed, Record, daemonVars, driverVars, lifeVars
  <1>9. OneOpening'
    <2>1. confirmed["A"] \in Seq(Happened("A")')
      BY <1>3 DEF Truthful, Legs
    <2>2. e = Opening => confirmed["A"] = <<>>
      <3>1. e = Opening => htlc["A"] = "none"
        BY DEF Opening
      <3>2. htlc["A"] = "none" => Happened("A") = {}
        BY DEF Happened
      <3> QED BY <3>1, <3>2 DEF Truthful, Legs
    <2>3. OpensFirst(confirmed'["A"])
      <3>1. CASE c = "A"
        BY <3>1, <2>1, <2>2, <1>4, <1>5, AppendOpens DEF OneOpening
      <3>2. CASE c # "A"
        BY <3>2, <1>5 DEF OneOpening, Legs
      <3> QED BY <3>1, <3>2
    <2> QED BY <2>3 DEF OneOpening, OneCounter, daemonVars, driverVars, lifeVars
  <1> QED BY <1>1, <1>6, <1>7, <1>8, <1>9

\* The driver moves to the next event.
LEMMA EventDone ==
    ASSUME HandlerInv, pc # "idle" \/ batch # <<>>, NextEvent,
           UNCHANGED <<htlc, confirmed, revealed, cursor, stored>>
    PROVE  /\ Truthful'
           /\ Once(batch)'
           /\ Has(batch)' => Has(batch)
           /\ Head(batch) = Opening => Has(batch) /\ ~Has(batch)'
  <1>1. batch # <<>>
    BY DEF HandlerInv, Control
  <1>2. batch \in Seq(Happened("A") \cup Happened("B"))
    BY SMTT(30) DEF HandlerInv, Truthful
  <1>3. /\ batch' \in Seq(Happened("A") \cup Happened("B"))
        /\ Has(batch') => Has(batch)
        /\ Once(batch')
        /\ Head(batch) = Opening => ~Has(batch') /\ Has(batch)
    BY <1>1, <1>2, TailHas DEF NextEvent, HandlerInv, OneOpening
  <1>4. Truthful'
    BY <1>3 DEF HandlerInv, Truthful, Happened
  <1> QED BY <1>3, <1>4

LEMMA ChunkStep ==
    ASSUME HandlerInv, FinalizedChunk
    PROVE  HandlerInv'
  <1> USE DEF HandlerInv
  <1>1. /\ UNCHANGED <<is_lp, htlc, confirmed, revealed, stored, pc, record, peer, counters, claimQueued>>
        /\ pc = "idle"
    BY DEF FinalizedChunk, chainVars
  <1>2. \A c \in Legs : Happened(c)' = Happened(c)
    BY <1>1 DEF Happened
  <1>3. PICK first \in Legs, to \in [Legs -> Position] :
            /\ \A c \in Legs : to[c] \in cursor[c] .. Len(confirmed[c])
            /\ batch' = Returned(first, to[first]) \o Returned(Other(first), to[Other(first)])
            /\ cursor' = to
    BY Zenon DEF FinalizedChunk
  <1> DEFINE second == Other(first)
             p == Returned(first, to[first])
             q == Returned(second, to[second])
             All == Happened("A") \cup Happened("B")
  <1>4. second \in Legs /\ second # first
    BY DEF Other, Legs
  <1>5. \A c \in Legs : /\ confirmed[c] \in Seq(Happened(c))
                        /\ to[c] \in 0 .. Len(confirmed[c])
                        /\ cursor[c] \in 0 .. to[c]
    <2> TAKE c \in Legs
    <2>1. confirmed[c] \in Seq(Happened(c)) /\ cursor[c] \in Nat
      BY DEF Truthful, Typed
    <2>2. to[c] \in cursor[c] .. Len(confirmed[c]) /\ Len(confirmed[c]) \in Nat
      BY <1>3, <2>1
    <2> QED BY <2>1, <2>2
  <1>6. \A c \in Legs : /\ Returned(c, to[c]) \in Seq(Happened(c))
                        /\ Has(Returned(c, to[c])) => Has(confirmed[c])
                        /\ OpensFirst(confirmed[c]) =>
                              /\ Once(Returned(c, to[c]))
                              /\ Has(Returned(c, to[c])) => cursor[c] = 0 /\ to[c] > 0
    BY <1>5, SliceHas DEF Returned
  <1>7. batch' = p \o q
    BY <1>3
  <1> HIDE DEF p, q, second
  <1>8. p \in Seq(All) /\ q \in Seq(All)
    <2>1. Happened(first) \subseteq All /\ Happened(second) \subseteq All
      BY <1>4 DEF Legs
    <2> QED BY <2>1, <1>4, <1>6 DEF p, q
  <1>9. ~Has(confirmed["B"])
    <2>1. \A i \in 1 .. Len(confirmed["B"]) : confirmed["B"][i] \in Happened("B")
      BY DEF Truthful, Legs
    <2> QED BY <2>1 DEF Has, Happened, Opening
  <1>10. OpensFirst(confirmed["A"]) /\ OpensFirst(confirmed["B"])
    BY <1>9 DEF OneOpening, OpensFirst, Has
  <1>11. /\ Once(p) /\ Once(q) /\ ~(Has(p) /\ Has(q))
         /\ Has(p) \/ Has(q) => cursor["A"] = 0 /\ to["A"] > 0
    <2>1. CASE first = "A"
      BY <2>1, <1>4, <1>6, <1>9, <1>10 DEF p, q, Legs
    <2>2. CASE first = "B"
      BY <2>2, <1>4, <1>6, <1>9, <1>10 DEF p, q, Legs
    <2> QED BY <2>1, <2>2 DEF Legs
  <1>12. batch' \in Seq(All) /\ Once(batch') /\ (Has(batch') => cursor["A"] = 0 /\ cursor'["A"] > 0)
    BY <1>3, <1>7, <1>8, <1>11, ConcatHas, SMTT(30)
  <1>13. Truthful'
    BY <1>1, <1>2, <1>12 DEF Truthful, Legs
  <1>14. cursor' \in [Legs -> Nat] /\ \A c \in Legs : cursor[c] <= cursor'[c]
    BY <1>3, <1>5 DEF Position
  <1>15. OneOpening'
    <2>1. stored["A"] \in Nat /\ cursor["A"] \in Nat /\ cursor'["A"] \in Nat
          /\ cursor["A"] <= cursor'["A"]
      BY <1>14 DEF Typed, Legs
    <2> QED BY <2>1, <1>1, <1>12 DEF OneOpening, OneCounter
  <1>16. Typed' /\ Control' /\ RecordAgrees'
    BY <1>1, <1>14 DEF Typed, Control, RecordAgrees, Locked
  <1> QED BY <1>13, <1>15, <1>16

-----------------------------------------------------------------------------
LEMMA InitInv == HandlerInit => HandlerInv
  <1> SUFFICES ASSUME HandlerInit PROVE HandlerInv
    OBVIOUS
  <1>1. <<>> \in Seq(Happened("A") \cup Happened("B"))
        /\ \A c \in Legs : confirmed[c] \in Seq(Happened(c))
    BY DEF HandlerInit
  <1>2. Truthful
    BY <1>1 DEF HandlerInit, Truthful
  <1>3. ~Has(<<>>) /\ Once(<<>>) /\ OpensFirst(<<>>)
    BY DEF Has, Once, OpensFirst
  <1>4. OneOpening
    BY <1>3 DEF HandlerInit, OneOpening, OneCounter, Legs
  <1>5. Typed /\ Control /\ RecordAgrees
    BY Zenon DEF HandlerInit, Typed, Control, RecordAgrees, Locked, Record, NoRecord, Legs
  <1> QED BY <1>2, <1>4, <1>5 DEF HandlerInv

\* The invariant of a step that leaves the events alone.
LEMMA SameEvents ==
    ASSUME HandlerInv, UNCHANGED <<htlc, confirmed, revealed, batch, cursor, stored>>
    PROVE  /\ Truthful'
           /\ counters' = counters => OneOpening'
  BY SMTT(30) DEF HandlerInv, Truthful, Happened, OneOpening, OneCounter

LEMMA NextInv == HandlerInv /\ [HandlerNext]_handlerVars => HandlerInv'
  <1> SUFFICES ASSUME HandlerInv, [HandlerNext]_handlerVars PROVE HandlerInv'
    OBVIOUS
  <1> USE DEF HandlerInv
  <1>1. CASE UNCHANGED handlerVars
    <2>1. UNCHANGED <<is_lp, cursor, stored, htlc, confirmed, revealed, batch, pc, record, peer, counters, claimQueued>>
      BY <1>1 DEF handlerVars, chainVars, driverVars, lifeVars
    <2>2. Truthful' /\ OneOpening'
      BY <2>1, SameEvents
    <2> QED BY <2>1, <2>2 DEF Typed, Control, RecordAgrees, Locked
  <1>2. CASE DepositMined
    <2>1. Happens("A", "open", "Commitment") /\ htlc["A"] = "none" /\ UNCHANGED <<daemonVars, revealed>>
      BY <1>2 DEF DepositMined
    <2> QED BY <2>1, ChainStep DEF Legs
  <1>3. CASE CounterMined
    <2>1. Happens("B", "open", "Commitment") /\ htlc["B"] = "none" /\ UNCHANGED <<daemonVars, revealed>>
      BY <1>3 DEF CounterMined
    <2> QED BY <2>1, ChainStep DEF Legs
  <1>4. CASE TakerReveals
    <2>1. /\ UNCHANGED <<is_lp, cursor, stored, htlc, confirmed, batch, pc, record, peer, counters, claimQueued>>
          /\ revealed'
      BY <1>4 DEF TakerReveals, daemonVars, driverVars, lifeVars
    <2>2. /\ \A c \in Legs : Seq(Happened(c)) \subseteq Seq(Happened(c)')
          /\ Seq(Happened("A") \cup Happened("B"))
                \subseteq Seq(Happened("A")' \cup Happened("B")')
      BY <2>1, HappenedGrows
    <2>3. Truthful'
      BY <2>1, <2>2 DEF Truthful
    <2>4. Typed'
      BY <1>4, <2>1 DEF Typed, TakerReveals
    <2>5. OneOpening'
      BY <2>1, SMTT(30) DEF OneOpening, OneCounter
    <2>6. Control' /\ RecordAgrees'
      BY <2>1 DEF Control, RecordAgrees, Locked
    <2> QED BY <2>3, <2>4, <2>5, <2>6
  <1>5. ASSUME NEW c \in Legs, OthersClaim(c) PROVE HandlerInv'
    <2>1. Happens(c, "claimed", "Reveal") /\ htlc[c] = "open" /\ revealed
          /\ UNCHANGED <<daemonVars, revealed>>
      BY <1>5 DEF OthersClaim
    <2> QED BY <2>1, ChainStep
  <1>6. ASSUME NEW c \in Legs, LegRefunded(c) PROVE HandlerInv'
    <2>1. Happens(c, "refunded", "Refund") /\ htlc[c] = "open" /\ UNCHANGED <<daemonVars, revealed>>
      BY <1>6, SMTT(30) DEF LegRefunded
    <2> QED BY <2>1, ChainStep
  <1>7. ASSUME NEW c \in Legs, PeerClaim(c) PROVE HandlerInv'
    <2>1. /\ UNCHANGED <<is_lp, cursor, stored, htlc, confirmed, revealed, batch, pc, record, counters>>
          /\ peer # {} /\ peer' = peer \ {c} /\ claimQueued' = claimQueued \cup {c}
      BY <1>7 DEF PeerClaim, chainVars, driverVars, lifeVars
    <2>2. Truthful' /\ OneOpening'
      BY <2>1, SameEvents
    <2> QED BY <2>1, <2>2 DEF Typed, Control, RecordAgrees, Locked
  <1>8. CASE FinalizedChunk
    BY <1>8, ChunkStep
  <1>9. CASE ExternalCommitment
    <2>1. /\ UNCHANGED <<is_lp, cursor, stored, htlc, confirmed, revealed, batch, peer, counters, claimQueued>>
          /\ batch # <<>> /\ Head(batch).kind = "Commitment" /\ pc' = "internal"
      BY <1>9 DEF ExternalCommitment, Applies, chainVars, lifeVars
    <2>2. Truthful' /\ OneOpening'
      BY <2>1, SameEvents
    <2>3. Head(batch) \in Happened("A") \cup Happened("B")
      BY <2>1, TailHas DEF Truthful
    <2>4. Source \in Legs /\ htlc[Source] # "none"
      BY <2>3 DEF Source, Happened, Legs
    <2>5. \/ record.init = "none" /\ record' = [NoRecord EXCEPT !.init = Source]
          \/ UNCHANGED record
          \/ record.init = Other(Source) /\ ~Locked /\ record' = [record EXCEPT !.counter = Source]
      BY <1>9 DEF ExternalCommitment, set_init_commitment, set_counter_commitment
    <2>6. Typed'
      BY <2>1, <2>4, <2>5 DEF Typed, Record, NoRecord
    <2>7. Control' /\ RecordAgrees'
      <3>1. CASE record.init = "none" /\ record' = [NoRecord EXCEPT !.init = Source]
        BY <3>1, <2>1, <2>4, SMTT(30) DEF Control, RecordAgrees, Locked, NoRecord, Legs
      <3>2. CASE UNCHANGED record
        BY <3>2, <2>1 DEF Control, RecordAgrees, Locked
      <3>3. CASE record.init = Other(Source) /\ ~Locked
                 /\ record' = [record EXCEPT !.counter = Source]
        <4>1. /\ record'.init = record.init /\ record'.counter = Source
              /\ record'.resolution = record.resolution
          BY <3>3 DEF Typed, Record
        <4>2. record.init \in Legs /\ record.init # Source
          BY <3>3, <2>4 DEF Other, Legs
        <4>3. \A c \in Legs : htlc[c] # "none"
          BY <4>2, <2>4, SMTT(30) DEF RecordAgrees, Legs
        <4> QED BY <4>1, <4>2, <4>3, <3>3, <2>1, <2>4 DEF Control, RecordAgrees, Locked, Legs
      <3> QED BY <3>1, <3>2, <3>3, <2>5
    <2> QED BY <2>2, <2>6, <2>7
  <1>10. CASE InternalCommitment
    <2>1. /\ UNCHANGED <<is_lp, cursor, stored, htlc, confirmed, revealed, batch, record, peer, counters, claimQueued>>
          /\ pc = "internal" /\ pc' = "broadcast" /\ Source = "A"
      BY <1>10 DEF InternalCommitment, Mirrors, AddressedToUs, chainVars, lifeVars
    <2>2. Truthful' /\ OneOpening'
      BY <2>1, SameEvents
    <2>3. batch # <<>> /\ Head(batch).kind = "Commitment"
      BY <2>1 DEF Control
    <2>4. Head(batch) \in ChainEvent
      BY <2>3, TailHas DEF Truthful, Happened
    <2>5. Head(batch) = Opening
      BY <2>1, <2>3, <2>4, SMTT(30) DEF ChainEvent, Opening, Source
    <2> QED BY <2>1, <2>2, <2>3, <2>5 DEF Typed, Control, RecordAgrees, Locked
  <1>11. CASE InternalRejected
    <2>1. /\ UNCHANGED <<is_lp, cursor, stored, htlc, confirmed, revealed, record, peer, counters, claimQueued>>
          /\ pc = "internal" /\ NextEvent /\ pc' = "idle"
      BY <1>11, SMTT(30) DEF InternalRejected, NextEvent, chainVars, lifeVars
    <2>2. Truthful' /\ OneOpening'
      BY <2>1, EventDone, SMTT(30) DEF OneOpening, OneCounter
    <2> QED BY <2>1, <2>2 DEF Typed, Control, RecordAgrees, Locked
  <1>12. CASE BroadcastCounter
    <2>1. /\ UNCHANGED <<is_lp, cursor, stored, htlc, confirmed, revealed, record, peer, claimQueued>>
          /\ pc = "broadcast" /\ NextEvent /\ pc' = "idle" /\ counters' = counters + 1
      BY <1>12 DEF BroadcastCounter, NextEvent, lifeVars
    <2>2. batch # <<>> /\ Head(batch) = Opening
      BY <2>1 DEF Control
    <2>3. batch \in Seq(Happened("A") \cup Happened("B"))
      BY DEF Truthful
    <2>4. counters = 0 /\ stored["A"] = 0 /\ cursor["A"] > 0
      BY <2>1, <2>2, <2>3, TailHas DEF OneOpening
    <2>5. Truthful' /\ OneOpening'
      BY <2>1, <2>2, <2>4, EventDone DEF OneOpening, OneCounter
    <2> QED BY <2>1, <2>4, <2>5 DEF Typed, Control, RecordAgrees, Locked
  <1>13. CASE ExternalReveal
    <2>1. /\ UNCHANGED <<is_lp, cursor, stored, htlc, confirmed, revealed, peer, counters, claimQueued>>
          /\ pc = "idle" /\ batch # <<>> /\ Head(batch).kind = "Reveal"
      BY <1>13 DEF ExternalReveal, Applies, chainVars, lifeVars
    <2>2. revealed
      BY <2>1, TailHas DEF Truthful, Happened
    <2>3. CASE LockedUnresolved
      <3>1. /\ record' = [record EXCEPT !.resolution = "secret"]
            /\ pc' = "counterparty" /\ UNCHANGED batch
        BY <1>13, <2>3 DEF ExternalReveal, resolve
      <3>2. Truthful' /\ OneOpening'
        BY <3>1, <2>1, SameEvents, SMTT(30)
      <3> QED BY <3>1, <3>2, <2>1, <2>2, <2>3, Zenon
              DEF Typed, Record, Control, RecordAgrees, Locked, LockedUnresolved
    <2>4. CASE ~LockedUnresolved
      <3>1. NextEvent /\ pc' = "idle" /\ UNCHANGED record
        BY <1>13, <2>4, SMTT(30) DEF ExternalReveal, NextEvent
      <3>2. Truthful' /\ OneOpening'
        BY <3>1, <2>1, EventDone, SMTT(30) DEF OneOpening, OneCounter
      <3> QED BY <3>1, <3>2, <2>1 DEF Typed, Control, RecordAgrees, Locked
    <2> QED BY <2>3, <2>4
  <1>14. CASE BroadcastReveal
    <2>1. /\ UNCHANGED <<is_lp, cursor, stored, htlc, confirmed, revealed, record, peer, counters>>
          /\ pc = "counterparty" /\ NextEvent /\ pc' = "idle"
      BY <1>14, SMTT(30) DEF BroadcastReveal, NextEvent, chainVars, lifeVars
    <2>2. Truthful' /\ OneOpening'
      BY <2>1, EventDone DEF OneOpening, OneCounter
    <2> QED BY <2>1, <2>2 DEF Typed, Control, RecordAgrees, Locked
  <1>15. CASE ExternalRefund
    <2>1. /\ UNCHANGED <<is_lp, cursor, stored, htlc, confirmed, revealed, peer, counters, claimQueued>>
          /\ batch # <<>> /\ Head(batch).kind = "Refund" /\ NextEvent /\ pc' = "idle"
          /\ IF LockedUnresolved THEN record' = [record EXCEPT !.resolution = "refunded"]
             ELSE UNCHANGED record
      BY <1>15 DEF ExternalRefund, Applies, NextEvent, resolve, chainVars, lifeVars
    <2>2. \E c \in Legs : htlc[c] = "refunded"
      BY <2>1, TailHas DEF Truthful, Happened, Legs
    <2>3. Truthful' /\ OneOpening'
      BY <2>1, EventDone DEF OneOpening, OneCounter
    <2> QED BY <2>1, <2>2, <2>3
            DEF Typed, Record, Control, RecordAgrees, Locked, LockedUnresolved
  <1>16. CASE PeerReveal
    <2>1. /\ UNCHANGED <<is_lp, cursor, stored, htlc, confirmed, revealed, batch, pc, counters, claimQueued>>
          /\ revealed
          /\ IF LockedUnresolved THEN record' = [record EXCEPT !.resolution = "secret"]
             ELSE UNCHANGED record
      BY <1>16 DEF PeerReveal, resolve, chainVars, driverVars, lifeVars
    <2>2. Truthful' /\ OneOpening'
      BY <2>1, SameEvents, SMTT(30)
    <2> QED BY <2>1, <2>2 DEF Typed, Record, Control, RecordAgrees, Locked, LockedUnresolved
  <1>17. CASE CleanupOldSwaps
    <2>1. /\ UNCHANGED <<is_lp, cursor, stored, htlc, confirmed, revealed, batch, pc, peer, counters, claimQueued>>
          /\ record' = NoRecord
      BY <1>17 DEF CleanupOldSwaps, chainVars, driverVars, lifeVars
    <2>2. Truthful' /\ OneOpening'
      BY <2>1, SameEvents, SMTT(30)
    <2> QED BY <2>1, <2>2, SMTT(30) DEF Typed, Record, NoRecord, Control, RecordAgrees, Locked
  <1>18. CASE Crash
    <2>1. /\ UNCHANGED <<is_lp, htlc, confirmed, revealed, claimQueued>>
          /\ record' = NoRecord /\ batch' = <<>> /\ pc' = "idle" /\ peer' = {}
          /\ counters' = 0 /\ stored' = cursor'
      BY <1>18 DEF Crash, chainVars
    <2>2. Truthful'
      BY <2>1 DEF Truthful, Happened
    <2>3. ~Has(<<>>) /\ Once(<<>>)
      BY DEF Has, Once
    <2>4. cursor' \in [Legs -> Nat]
      BY <1>18 DEF Crash, StoredCursors, Position
    <2>5. OneOpening'
      <3>1. stored'["A"] <= cursor'["A"]
        BY <2>1, <2>4 DEF Legs
      <3> QED BY <3>1, <2>1, <2>3 DEF OneOpening, OneCounter
    <2> QED BY <2>1, <2>2, <2>4, <2>5 DEF Typed, Record, NoRecord, Control, RecordAgrees, Locked
  <1> QED
    BY <1>1, <1>2, <1>3, <1>4, <1>5, <1>6, <1>7, <1>8, <1>9, <1>10, <1>11, <1>12,
       <1>13, <1>14, <1>15, <1>16, <1>17, <1>18, SMTT(30)
    DEF HandlerNext, DriverStep, OurClaim

-----------------------------------------------------------------------------
LEMMA Invariance == HandlerSpec => []HandlerInv
  BY InitInv, NextInv, PTL DEF HandlerSpec

\* The record a daemon keeps of a swap never runs ahead of the chains, and no
\* channel holds a claim before the secret is out, whatever the order in which
\* on_chain_event and on_reveal see the events and however often the daemon is
\* restarted.
THEOREM RecordsAgree == HandlerSpec => []RecordAgrees
  <1>1. HandlerInv => RecordAgrees
    BY DEF HandlerInv
  <1> QED BY <1>1, Invariance, PTL

\* A process mirrors a deposit once at most, whatever order the events come in
\* and wherever its cursors started; and one that started past the deposit, with
\* an empty tracker, mirrors nothing: not its own counter either.
THEOREM NeverTwoCounters == HandlerSpec => []OneCounter
  <1>1. HandlerInv => OneCounter
    BY DEF HandlerInv, OneOpening
  <1> QED BY <1>1, Invariance, PTL

\* set_revealed and set_refunded never overwrite each other's resolution.
THEOREM ResolutionsAreFinal == HandlerSpec => ResolutionIsFinal
  <1>1. HandlerInv /\ [HandlerNext]_handlerVars =>
            [record.resolution # "none" /\ record' # record => record' = NoRecord]_handlerVars
    <2> SUFFICES ASSUME HandlerInv, HandlerNext, record.resolution # "none", record' # record
                 PROVE  record' = NoRecord
      OBVIOUS
    <2>1. Locked /\ record.init # "none"
      BY DEF HandlerInv, RecordAgrees, Control
    <2> QED BY <2>1, Zenon
            DEF HandlerNext, DepositMined, CounterMined, TakerReveals, OthersClaim, OurClaim, LegRefunded,
                PeerClaim, DriverStep, FinalizedChunk, ExternalCommitment, InternalCommitment,
                InternalRejected, BroadcastCounter, ExternalReveal, BroadcastReveal,
                ExternalRefund, PeerReveal, CleanupOldSwaps, Crash, LockedUnresolved, daemonVars
  <1> QED BY <1>1, Invariance, PTL DEF HandlerSpec, ResolutionIsFinal

-----------------------------------------------------------------------------
(***************************************************************************)
(* The factor two of required_init_lock_secs protects the LP, and the lock *)
(* of the counter the taker, for every lock time, clock skew, reading age  *)
(* and reaction time that leave the margins of MarginAssumption and        *)
(* RevealAssumption.  Each leg, taken alone, implements the escrow.        *)
(***************************************************************************)

\* A chain's clock stays close to real time.
ClocksClose ==
    \A c \in Channels : clock[c] <= now + Skew /\ now <= clock[c] + Skew

\* A cached reading was close to real time when it was taken.
ReadingsClose ==
    \A c \in Channels :
        /\ cache[c].ts <= cache[c].observed + Skew
        /\ cache[c].observed <= cache[c].ts + Skew
        /\ cache[c].observed <= now

\* What the LP checked when it mirrored, freed of the readings it used.
Gap ==
    leg["B"] # "none" =>
        /\ leg["A"] # "none"
        /\ unlock["B"] + lock_time_secs <= unlock["A"] + max_age + 2 * Skew

SentBound ==
    leg["B"] = "sent" =>
        /\ now <= since + Reaction
        /\ since + lock_time_secs <= unlock["B"] + max_age + Skew

OpenBound ==
    leg["B"] = "open" =>
        /\ now <= unlock["B"] + Skew + Reaction
        /\ ~secret => since + lock_time_secs <= unlock["B"] + max_age + Skew + Reaction

\* A revealed secret is used in time: the counter is claimed, or about to be.
SecretBound ==
    /\ secret => leg["B"] \in {"open", "claimed"}
    /\ secret /\ leg["B"] = "open" =>
        /\ now <= since + Reaction
        /\ since + lock_time_secs <= unlock["B"] + max_age + Skew + 2 * Reaction

\* The deposit is claimed with the secret only.
DepositBound == leg["A"] = "claimed" => secret \/ leg["B"] = "claimed"

ClaimedBound ==
    leg["B"] = "claimed" =>
        /\ leg["A"] # "refunded"
        /\ since + Reaction <= unlock["B"] + Skew + Exposure
        /\ leg["A"] = "open" => now <= since + Reaction

RefundedBound == leg["A"] = "refunded" => unlock["A"] <= clock["A"]

IInv ==
    /\ TypeOK
    /\ ClocksClose /\ ReadingsClose
    /\ Gap /\ SentBound /\ OpenBound /\ SecretBound /\ DepositBound /\ ClaimedBound /\ RefundedBound

-----------------------------------------------------------------------------
LEMMA ExposureRange ==
    /\ Exposure \in Nat
    /\ Reaction <= Exposure
    /\ ~is_evm["B"] => Exposure = 2 * Reaction
    /\ is_evm["B"] => Exposure = Reaction
BY SwapAssumption DEF Exposure, Channels

LEMMA InitIInv == Init => IInv
<1> SUFFICES ASSUME Init PROVE IInv
  OBVIOUS
<1> USE SwapAssumption DEF Init, Channels
<1>0. secret \in BOOLEAN BY Zenon
<1>1. TypeOK BY <1>0 DEF TypeOK
<1>2. ClocksClose BY DEF ClocksClose
<1>3. ReadingsClose BY DEF ReadingsClose
<1>4. Gap /\ SentBound /\ OpenBound /\ SecretBound /\ DepositBound /\ ClaimedBound /\ RefundedBound
  BY DEF Gap, SentBound, OpenBound, SecretBound, DepositBound, ClaimedBound, RefundedBound
<1> QED BY <1>1, <1>2, <1>3, <1>4 DEF IInv

\* As long as the counter can still pay the taker, or has just paid, the
\* deposit is not refundable.
LEMMA DepositOutlasts ==
    ASSUME IInv,
           \/ leg["B"] = "claimed" /\ leg["A"] = "open"
           \/ Claimable("B")
           \/ leg["B"] = "sent" /\ Lockable("B", unlock["B"])
    PROVE  clock["A"] < unlock["A"]
<1>1. /\ now \in Nat /\ since \in Nat
      /\ clock["A"] \in Nat /\ clock["B"] \in Nat
      /\ unlock["A"] \in Nat /\ unlock["B"] \in Nat
  BY DEF IInv, TypeOK, Channels
<1>2. /\ clock["A"] <= now + Skew /\ now <= clock["B"] + Skew
  BY DEF IInv, ClocksClose, Channels
<1>3. unlock["B"] + lock_time_secs <= unlock["A"] + max_age + 2 * Skew
  BY DEF IInv, Gap, Claimable
<1>4. now <= unlock["B"] + Skew + Exposure
  <2>1. CASE leg["B"] = "claimed" /\ leg["A"] = "open"
    BY <2>1, <1>1, ExposureRange, SwapAssumption DEF IInv, ClaimedBound
  <2>2. CASE Claimable("B")
    BY <2>2, <1>1, ExposureRange, SwapAssumption DEF IInv, OpenBound, Claimable
  <2>3. CASE leg["B"] = "sent" /\ Lockable("B", unlock["B"])
    BY <2>3, <1>1, ExposureRange, SwapAssumption, MarginAssumption DEF IInv, SentBound
  <2> QED BY <2>1, <2>2, <2>3
<1> QED BY <1>1, <1>2, <1>3, <1>4, ExposureRange, SwapAssumption, MarginAssumption

\* The counter of a revealed secret is not refundable yet.
LEMMA CounterOutlasts ==
    ASSUME IInv, secret, leg["B"] = "open"
    PROVE  clock["B"] < unlock["B"]
<1>1. /\ now \in Nat /\ since \in Nat /\ clock["B"] \in Nat /\ unlock["B"] \in Nat
  BY DEF IInv, TypeOK, Channels
<1>2. clock["B"] <= now + Skew
  BY DEF IInv, ClocksClose, Channels
<1>3. /\ now <= since + Reaction
      /\ since + lock_time_secs <= unlock["B"] + max_age + Skew + 2 * Reaction
  BY DEF IInv, SecretBound
<1> QED BY <1>1, <1>2, <1>3, SwapAssumption, RevealAssumption

LEMMA TypeStep == IInv /\ [Next]_vars => TypeOK'
<1> SUFFICES ASSUME IInv, [Next]_vars PROVE TypeOK'
  OBVIOUS
<1> USE SwapAssumption DEF IInv, TypeOK, Channels
<1>1. CASE Deposit BY <1>1 DEF Deposit, Move
<1>2. CASE TransmitReveal \/ TakerClaims BY <1>2, Zenon DEF TransmitReveal, TakerClaims, Move
<1>3. CASE Mirror BY <1>3 DEF Mirror, Move, counter_unlock_ts, now_checked
<1>4. CASE CounterLands \/ CounterDropped BY <1>4 DEF CounterLands, CounterDropped, Move
<1>5. CASE LpClaims BY <1>5 DEF LpClaims, Move
<1>6. CASE \E c \in Channels : RefundLeg(c) BY <1>6 DEF RefundLeg, Move
<1>7. CASE \E c \in Channels : ReadClock(c) BY <1>7 DEF ReadClock
<1>8. CASE \E c \in Channels : Block(c) BY <1>8 DEF Block
<1>9. CASE Tick BY <1>9 DEF Tick
<1>10. CASE UNCHANGED vars BY <1>10 DEF vars
<1> QED BY <1>1, <1>2, <1>3, <1>4, <1>5, <1>6, <1>7, <1>8, <1>9, <1>10 DEF Next

LEMMA ClockStep == IInv /\ [Next]_vars => ClocksClose' /\ ReadingsClose'
<1> SUFFICES ASSUME IInv, [Next]_vars PROVE ClocksClose' /\ ReadingsClose'
  OBVIOUS
<1>1. TypeOK /\ ClocksClose /\ ReadingsClose BY DEF IInv
<1> USE SwapAssumption DEF TypeOK, ClocksClose, ReadingsClose, Channels
<1>2. CASE UNCHANGED <<now, clock, cache>> BY <1>1, <1>2
<1>3. CASE \E c \in Channels : ReadClock(c) BY <1>1, <1>3 DEF ReadClock
<1>4. CASE \E c \in Channels : Block(c) BY <1>1, <1>4 DEF Block
<1>5. CASE Tick BY <1>1, <1>5 DEF Tick
<1> QED BY <1>2, <1>3, <1>4, <1>5 DEF Next, Deposit, TransmitReveal, TakerClaims, Mirror, CounterLands,
      CounterDropped, LpClaims, RefundLeg, vars

Bounds == Gap /\ SentBound /\ OpenBound /\ SecretBound /\ DepositBound /\ ClaimedBound /\ RefundedBound

LEMMA BoundsStep == IInv /\ [Next]_vars => Bounds'
<1> SUFFICES ASSUME IInv, [Next]_vars PROVE Bounds'
  OBVIOUS
<1>a. /\ now \in Nat /\ since \in Nat /\ secret \in BOOLEAN
      /\ clock \in [Channels -> Nat] /\ unlock \in [Channels -> Nat]
      /\ cache \in [Channels -> [ts : Nat, observed : Nat]]
      /\ leg \in [Channels -> {"none", "sent", "dropped", "open", "claimed", "refunded"}]
  BY DEF IInv, TypeOK
<1>b. Bounds BY DEF IInv, Bounds
<1>c. /\ clock["A"] <= now + Skew /\ now <= clock["A"] + Skew
      /\ clock["B"] <= now + Skew /\ now <= clock["B"] + Skew
  BY DEF IInv, ClocksClose, Channels
<1>d. \A c \in Channels : leg[c] \in {"none", "sent", "dropped", "open", "claimed", "refunded"}
  BY <1>a
<1> USE SwapAssumption, ExposureRange DEF Channels
<1> USE DEF Bounds, Gap, SentBound, OpenBound, SecretBound, DepositBound, ClaimedBound, RefundedBound
<1>1. CASE Deposit
  BY <1>1, <1>a, <1>b DEF Deposit, Move
<1>2. CASE TakerClaims
  <2>1. clock["A"] < unlock["A"]
    BY <1>2, DepositOutlasts DEF TakerClaims
  <2>2. now + Reaction <= unlock["B"] + Skew + Exposure
    BY <1>2, <1>a, <1>b, <1>c DEF TakerClaims, Claimable
  <2> QED BY <1>2, <2>1, <2>2, <1>a, <1>b DEF TakerClaims, Move, Claimable
<1>13. CASE TransmitReveal
  BY <1>13, <1>a, <1>b DEF TransmitReveal
<1>3. CASE Mirror
  <2> DEFINE rA == now_checked("A")
             rB == now_checked("B")
  <2>1. \A c \in Channels : /\ now_checked(c) \in Nat
                            /\ now_checked(c) <= now + Skew
                            /\ now <= now_checked(c) + max_age + Skew
    BY <1>a DEF IInv, ReadingsClose, now_checked, chain_clock, Fresh
  <2>2. /\ rA \in Nat /\ rB \in Nat
        /\ rB <= now + Skew
        /\ now <= rA + max_age + Skew /\ now <= rB + max_age + Skew
    BY <2>1
  <2>3. /\ unlock["A"] - rA >= 2 * lock_time_secs
        /\ unlock' = [unlock EXCEPT !["B"] = rB + lock_time_secs]
        /\ leg' = [leg EXCEPT !["B"] = "sent"]
        /\ since' = now /\ now' = now /\ clock' = clock
        /\ leg["A"] # "none" /\ leg["B"] = "none" /\ secret' = secret
    BY <1>3 DEF Mirror, required_init_lock_secs, counter_unlock_ts, Move
  <2> HIDE DEF rA, rB
  <2>4. /\ unlock'["A"] = unlock["A"]
        /\ unlock'["B"] = rB + lock_time_secs
        /\ leg'["A"] = leg["A"] /\ leg'["B"] = "sent"
    BY <2>3, <1>a
  <2>5. Gap' BY <2>2, <2>3, <2>4, <1>a
  <2>6. SentBound' BY <2>2, <2>3, <2>4, <1>a
  <2>7. OpenBound' /\ ClaimedBound' /\ RefundedBound' BY <2>3, <2>4, <1>b
  <2>8. SecretBound' /\ DepositBound' BY <2>3, <2>4, <1>b, Zenon
  <2> QED BY <2>5, <2>6, <2>7, <2>8
<1>4. CASE CounterLands
  <2>1. now <= unlock["B"] + Skew + Reaction
    BY <1>4, <1>a, <1>b, MarginAssumption DEF CounterLands
  <2> QED BY <1>4, <2>1, <1>a, <1>b DEF CounterLands, Move
<1>5. CASE CounterDropped BY <1>5, <1>a, <1>b DEF CounterDropped, Move
<1>6. CASE LpClaims BY <1>6, <1>a, <1>b DEF LpClaims, Claimable, Move
<1>7. CASE RefundLeg("A")
  <2>1. leg["B"] # "claimed"
    BY <1>7, <1>a, DepositOutlasts DEF RefundLeg, Refundable
  <2> QED BY <1>7, <2>1, <1>a, <1>b DEF RefundLeg, Refundable, Move
<1>8. CASE RefundLeg("B")
  <2>1. ~secret
    BY <1>8, <1>a, CounterOutlasts DEF RefundLeg, Refundable
  <2> QED BY <1>8, <2>1, <1>a, <1>b DEF RefundLeg, Refundable, Move
<1>9. CASE \E c \in Channels : ReadClock(c) BY <1>9, <1>b DEF ReadClock
<1>10. CASE \E c \in Channels : Block(c)
  BY <1>10, <1>a, <1>b DEF Block
<1>11. CASE Tick
  <2>1. leg["B"] = "open" => now + 1 <= unlock["B"] + Skew + Reaction
    BY <1>11, <1>a, <1>c DEF Tick, Refundable
  <2>2. leg["B"] = "claimed" /\ leg["A"] = "open" => now + 1 <= since + Reaction
    BY <1>11, <1>a, DepositOutlasts DEF Tick, Claimable
  <2>3. leg["B"] = "sent" => now + 1 <= since + Reaction
    BY <1>11, <1>a DEF Tick
  <2>4. secret /\ leg["B"] = "open" => now + 1 <= since + Reaction
    BY <1>11, <1>a, CounterOutlasts DEF Tick, Claimable
  <2> QED BY <1>11, <2>1, <2>2, <2>3, <2>4, <1>a, <1>b DEF Tick
<1>12. CASE UNCHANGED vars BY <1>12, <1>b DEF vars
<1> QED BY <1>1, <1>2, <1>3, <1>4, <1>5, <1>6, <1>7, <1>8, <1>9, <1>10, <1>11, <1>12, <1>13, Zenon DEF Next

\* Every reachable state satisfies the type invariant, the closeness of clocks
\* and readings, and the bounds between timelocks and answers.
THEOREM InductiveInvariant == Spec => []IInv
<1>1. IInv /\ [Next]_vars => IInv'
  BY TypeStep, ClockStep, BoundsStep DEF IInv, Bounds
<1> QED BY <1>1, InitIInv, PTL DEF Spec

\* All times the LP computes are natural numbers: no subtraction of the
\* counter's timelock or of a reading goes below zero.
THEOREM TypeCorrect == Spec => []TypeOK
<1>1. IInv => TypeOK BY DEF IInv
<1> QED BY <1>1, InductiveInvariant, PTL

\* The swap is atomic: the margin of twice the lock time
\* (required_init_lock_secs) covers skew, stale readings and the LP's reaction,
\* and the counter's lock covers landing, reveal and claim although the taker's
\* node does not look at it (pending_claim_matches), for every lock time.
THEOREM Atomicity == Spec => []SwapIsAtomic
<1>1. IInv => SwapIsAtomic
  BY DEF IInv, SecretBound, DepositBound, ClaimedBound, SwapIsAtomic
<1> QED BY <1>1, InductiveInvariant, PTL

\* The window in which the deposit can be taken back opens after the window
\* in which the counter can be locked or claimed has closed.
THEOREM WindowsNeverOverlap == Spec => []WindowsDisjoint
<1>1. IInv => WindowsDisjoint
  <2> SUFFICES ASSUME IInv, Refundable("A"),
                      Claimable("B") \/ (leg["B"] = "sent" /\ Lockable("B", unlock["B"]))
               PROVE  FALSE
    BY DEF WindowsDisjoint
  <2>1. clock["A"] < unlock["A"] BY DepositOutlasts
  <2>2. clock["A"] \in Nat /\ unlock["A"] \in Nat BY DEF IInv, TypeOK, Channels
  <2> QED BY <2>1, <2>2 DEF Refundable
<1> QED BY <1>1, InductiveInvariant, PTL

-----------------------------------------------------------------------------
(* Each leg is an escrow on its own chain's clock.                         *)

\* The clocks and the timelocks stay within the times of the escrows.
InTime ==
    /\ now <= MaxTime
    /\ \A c \in Channels : clock[c] <= MaxTime + Skew
    /\ unlock["A"] <= MaxTime

LEMMA InTimeInit == Init => InTime
  BY SwapAssumption DEF Init, InTime, Channels

LEMMA InTimeStep == IInv /\ InTime /\ [Next]_vars => InTime'
<1> SUFFICES ASSUME IInv, InTime, [Next]_vars PROVE InTime'
  OBVIOUS
<1>1. TypeOK BY DEF IInv
<1> USE SwapAssumption DEF TypeOK, InTime, Channels
<1>2. CASE UNCHANGED <<now, clock, unlock>> BY <1>1, <1>2
<1>3. CASE Deposit BY <1>1, <1>3 DEF Deposit
<1>4. CASE Mirror BY <1>1, <1>4 DEF Mirror
<1>5. CASE \E c \in Channels : Block(c) BY <1>1, <1>5 DEF Block
<1>6. CASE Tick BY <1>1, <1>6 DEF Tick
<1> QED BY <1>2, <1>3, <1>4, <1>5, <1>6 DEF Next, TransmitReveal, TakerClaims, CounterLands,
      CounterDropped, LpClaims, RefundLeg, ReadClock, vars

\* What an escrow sees of a leg.
View(c) == <<Status(c), Deadline(c), clock[c]>>

LEMMA ViewKept ==
    ASSUME NEW c, leg[c]' = leg[c], unlock[c]' = unlock[c], clock[c]' = clock[c]
    PROVE  View(c)' = View(c)
  BY DEF View, Status, Deadline

\* A step on the other leg is none for this one.
LEMMA OtherLeg ==
    ASSUME TypeOK,
           \/ UNCHANGED vars \/ TransmitReveal \/ Tick
           \/ \E c \in Channels : ReadClock(c)
    PROVE  \A c \in Channels : View(c)' = View(c)
  BY ViewKept DEF vars, TransmitReveal, Tick, ReadClock

LEMMA InitEscrows == Init => EscrowA!Init /\ EscrowB!Init
<1> SUFFICES ASSUME Init PROVE EscrowA!Init /\ EscrowB!Init
  OBVIOUS
<1>1. \A c \in Channels : Status(c) = "none" /\ Deadline(c) = 0
  BY DEF Init, Status, Deadline
<1>2. \A c \in Channels : clock[c] \in 0 .. MaxTime + Skew
  BY SwapAssumption DEF Init
<1>3. 0 \in 0 .. MaxTime + Skew
  BY SwapAssumption
<1> QED BY <1>1, <1>2, <1>3 DEF Channels, EscrowA!Init, EscrowB!Init

LEMMA NextEscrowA == IInv /\ InTime /\ InTime' /\ [Next]_vars => [EscrowA!Next]_EscrowA!vars
<1> SUFFICES ASSUME IInv, InTime, InTime', [Next]_vars PROVE [EscrowA!Next]_EscrowA!vars
  OBVIOUS
<1>1. /\ now \in Nat /\ clock \in [Channels -> Nat] /\ unlock \in [Channels -> Nat]
      /\ leg \in [Channels -> {"none", "sent", "dropped", "open", "claimed", "refunded"}]
      /\ "A" \in Channels /\ "B" \in Channels /\ TypeOK
  BY DEF IInv, TypeOK, Channels
<1>2. ASSUME View("A")' = View("A") PROVE UNCHANGED EscrowA!vars
  BY <1>2 DEF View, EscrowA!vars
<1>3. CASE Deposit
  <2>1. PICK d \in DepositLocks :
          /\ Lockable("A", clock["A"] + d)
          /\ unlock' = [unlock EXCEPT !["A"] = clock["A"] + d]
          /\ clock["A"] + d <= MaxTime
    BY <1>3, Zenon DEF Deposit
  <2>2. /\ Status("A") = "none" /\ Status("A")' = "locked" /\ clock' = clock
        /\ Deadline("A")' = clock["A"] + d
    BY <1>1, <1>3, <2>1 DEF Deposit, Move, Status, Deadline
  <2>3. clock["A"] + d \in 0 .. MaxTime + Skew
    BY <1>1, <2>1, SwapAssumption
  <2>4. EscrowA!Lock("A", clock["A"] + d)
    BY <1>1, <2>1, <2>2, SwapAssumption, Zenon DEF EscrowA!Lock, Lockable
  <2> QED BY <2>3, <2>4 DEF EscrowA!Next
<1>4. CASE LpClaims
  <2>1. /\ Status("A") = "locked" /\ Status("A")' = "claimed" /\ clock' = clock
        /\ Deadline("A") = unlock["A"] /\ Deadline("A")' = unlock["A"]
    BY <1>1, <1>4 DEF LpClaims, Claimable, Move, Status, Deadline
  <2>2. EscrowA!Claim("A")
    BY <1>1, <1>4, <2>1, SwapAssumption DEF EscrowA!Claim, LpClaims, Claimable
  <2> QED BY <2>2 DEF EscrowA!Next
<1>5. CASE RefundLeg("A")
  <2>1. /\ Status("A") = "locked" /\ Status("A")' = "refunded" /\ clock' = clock
        /\ Deadline("A") = unlock["A"] /\ Deadline("A")' = unlock["A"]
    BY <1>1, <1>5 DEF RefundLeg, Refundable, Move, Status, Deadline
  <2>2. EscrowA!Refund("A")
    BY <1>1, <1>5, <2>1 DEF EscrowA!Refund, RefundLeg, Refundable
  <2> QED BY <2>2 DEF EscrowA!Next
<1>6. CASE Block("A")
  <2>1. /\ Status("A")' = Status("A") /\ Deadline("A")' = Deadline("A")
        /\ clock["A"]' \in Nat /\ clock["A"]' > clock["A"]
    BY <1>1, <1>6, SwapAssumption DEF Block, Status, Deadline
  <2>2. clock["A"]' \in 0 .. MaxTime + Skew
    BY <1>1, <2>1, SwapAssumption DEF InTime
  <2>3. EscrowA!Tick
    BY <2>1, <2>2 DEF EscrowA!Tick
  <2> QED BY <2>3 DEF EscrowA!Next
<1>7. CASE TakerClaims \/ Mirror \/ CounterLands \/ CounterDropped \/ RefundLeg("B") \/ Block("B")
  <2>1. leg["A"]' = leg["A"] /\ unlock["A"]' = unlock["A"] /\ clock["A"]' = clock["A"]
    BY <1>1, <1>7 DEF TakerClaims, Mirror, CounterLands, CounterDropped, RefundLeg, Block, Move
  <2> QED BY <1>2, <2>1, ViewKept
<1>8. CASE UNCHANGED vars \/ TransmitReveal \/ Tick \/ \E c \in Channels : ReadClock(c)
  BY <1>1, <1>2, <1>8, OtherLeg
<1> QED BY <1>3, <1>4, <1>5, <1>6, <1>7, <1>8 DEF Next, Channels

LEMMA NextEscrowB == IInv /\ InTime /\ InTime' /\ [Next]_vars => [EscrowB!Next]_EscrowB!vars
<1> SUFFICES ASSUME IInv, InTime, InTime', [Next]_vars PROVE [EscrowB!Next]_EscrowB!vars
  OBVIOUS
<1>1. /\ now \in Nat /\ clock \in [Channels -> Nat] /\ unlock \in [Channels -> Nat]
      /\ leg \in [Channels -> {"none", "sent", "dropped", "open", "claimed", "refunded"}]
      /\ "A" \in Channels /\ "B" \in Channels /\ TypeOK
  BY DEF IInv, TypeOK, Channels
<1>2. ASSUME View("B")' = View("B") PROVE UNCHANGED EscrowB!vars
  BY <1>2 DEF View, EscrowB!vars
<1>3. CASE CounterLands
  <2>1. unlock["B"] + lock_time_secs <= unlock["A"] + max_age + 2 * Skew
    BY <1>3 DEF CounterLands, IInv, Gap
  <2>2. unlock["B"] \in 0 .. MaxTime + Skew
    BY <1>1, <2>1, SwapAssumption, MarginAssumption, ExposureRange DEF InTime
  <2>3. /\ Status("B") = "none" /\ Status("B")' = "locked" /\ clock' = clock
        /\ Deadline("B")' = unlock["B"]
    BY <1>1, <1>3 DEF CounterLands, Move, Status, Deadline
  <2>4. EscrowB!Lock("B", unlock["B"])
    BY <1>1, <1>3, <2>3, SwapAssumption, Zenon DEF EscrowB!Lock, CounterLands, Lockable
  <2> QED BY <2>2, <2>4 DEF EscrowB!Next
<1>4. CASE TakerClaims
  <2>1. /\ Status("B") = "locked" /\ Status("B")' = "claimed" /\ clock' = clock
        /\ Deadline("B") = unlock["B"] /\ Deadline("B")' = unlock["B"]
    BY <1>1, <1>4 DEF TakerClaims, Claimable, Move, Status, Deadline
  <2>2. EscrowB!Claim("B")
    BY <1>1, <1>4, <2>1, SwapAssumption DEF EscrowB!Claim, TakerClaims, Claimable
  <2> QED BY <2>2 DEF EscrowB!Next
<1>5. CASE RefundLeg("B")
  <2>1. /\ Status("B") = "locked" /\ Status("B")' = "refunded" /\ clock' = clock
        /\ Deadline("B") = unlock["B"] /\ Deadline("B")' = unlock["B"]
    BY <1>1, <1>5 DEF RefundLeg, Refundable, Move, Status, Deadline
  <2>2. EscrowB!Refund("B")
    BY <1>1, <1>5, <2>1 DEF EscrowB!Refund, RefundLeg, Refundable
  <2> QED BY <2>2 DEF EscrowB!Next
<1>6. CASE Block("B")
  <2>1. /\ Status("B")' = Status("B") /\ Deadline("B")' = Deadline("B")
        /\ clock["B"]' \in Nat /\ clock["B"]' > clock["B"]
    BY <1>1, <1>6, SwapAssumption DEF Block, Status, Deadline
  <2>2. clock["B"]' \in 0 .. MaxTime + Skew
    BY <1>1, <2>1, SwapAssumption DEF InTime
  <2>3. EscrowB!Tick
    BY <2>1, <2>2 DEF EscrowB!Tick
  <2> QED BY <2>3 DEF EscrowB!Next
<1>7. CASE Deposit \/ LpClaims \/ RefundLeg("A") \/ Block("A")
  <2>1. leg["B"]' = leg["B"] /\ unlock["B"]' = unlock["B"] /\ clock["B"]' = clock["B"]
    BY <1>1, <1>7 DEF Deposit, LpClaims, RefundLeg, Block, Move
  <2> QED BY <1>2, <2>1, ViewKept
\* A counter that is not on the chain yet is no lock.
<1>8. CASE Mirror \/ CounterDropped
  <2>1. Status("B") = "none" /\ Status("B")' = "none" /\ clock' = clock
    BY <1>1, <1>8 DEF Mirror, CounterDropped, Move, Status
  <2> QED BY <1>2, <2>1 DEF View, Deadline
<1>9. CASE UNCHANGED vars \/ TransmitReveal \/ Tick \/ \E c \in Channels : ReadClock(c)
  BY <1>1, <1>2, <1>9, OtherLeg
<1> QED BY <1>3, <1>4, <1>5, <1>6, <1>7, <1>8, <1>9 DEF Next, Channels

\* Either leg of a swap does on its own chain's clock what an escrow does, the
\* contract's or the script's: it is locked once, with a deadline, and leaves the
\* lock once (Claimable, Refundable, Lockable; StroemHTLC is shown to do the same).
THEOREM LegsRefineEscrow == Spec => LegsAreEscrows
<1>1. Spec => []InTime
  BY InTimeInit, InTimeStep, InductiveInvariant, PTL DEF Spec
<1>2. Spec => EscrowA!Spec
  BY <1>1, InitEscrows, NextEscrowA, InductiveInvariant, PTL DEF Spec, EscrowA!Spec
<1>3. Spec => EscrowB!Spec
  BY <1>1, InitEscrows, NextEscrowB, InductiveInvariant, PTL DEF Spec, EscrowB!Spec
<1> QED BY <1>2, <1>3 DEF LegsAreEscrows
=============================================================================
