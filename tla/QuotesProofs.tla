---------------------------- MODULE QuotesProofs ----------------------------
(***************************************************************************)
(* The LP keeps its spread, for every pair of tokens, every spread and     *)
(* every sequence of prices.  The arithmetic is in AmountOutKeepsSpread:   *)
(* amount_out and rescale divide three times and each division rounds      *)
(* down.  The invariant carries the prices and amounts the quote and the   *)
(* counter were made with from the step that read them to the step that    *)
(* used them, and that the storage holds positive integers: the oracle's   *)
(* means are integers and set refuses those that are not positive.         *)
(*                                                                         *)
(* A quote is honoured: its deposit is refused only when it comes late or  *)
(* the price has moved.                                                    *)
(*                                                                         *)
(* A price is near the market's: one of two sources that agree with the    *)
(* median is not faulty, and all that agree are near each other, so their  *)
(* mean is near that one's price.                                          *)
(***************************************************************************)
EXTENDS Quotes, FiniteSetTheorems, WellFoundedInduction, TLAPS

LEMMA DivRoundsDown ==
    ASSUME NEW a \in Nat, NEW b \in Nat \ {0}
    PROVE  a \div b \in Nat /\ (a \div b) * b <= a
  OBVIOUS

LEMMA TimesMonotonic ==
    ASSUME NEW a \in Nat, NEW b \in Nat, NEW k \in Nat, a <= b
    PROVE  a * k <= b * k
  OBVIOUS

LEMMA TimesNat == ASSUME NEW a \in Nat, NEW b \in Nat PROVE a * b \in Nat
  OBVIOUS

LEMMA RescaleRoundsDown ==
    ASSUME NEW x \in Nat, NEW from \in Channels, NEW to \in Channels
    PROVE  rescale(x, from, to) \in Nat /\ rescale(x, from, to) * Unit[from] <= x * Unit[to]
  <1> DEFINE u == Unit[from]
             v == Unit[to]
  <1>1. u \in Nat \ {0} /\ v \in Nat \ {0}
    BY ChannelsAssumption
  <1>2. CASE v > u
    <2> DEFINE q == v \div u
    <2>1. q \in Nat /\ q * u <= v
      BY <1>1, DivRoundsDown
    <2>2. rescale(x, from, to) = x * q
      BY <1>2 DEF rescale
    <2> HIDE DEF q, u, v
    <2>3. q * u \in Nat /\ (q * u) * x <= v * x
      BY <1>1, <2>1, TimesNat, TimesMonotonic
    <2>4. x * q \in Nat /\ (x * q) * u = (q * u) * x /\ v * x = x * v
      BY <1>1, <2>1, TimesNat
    <2> QED BY <2>2, <2>3, <2>4 DEF u, v
  <1>3. CASE ~(v > u)
    <2> DEFINE q == u \div v
    <2>1. v <= u /\ u % v = 0
      BY <1>1, <1>3, ChannelsAssumption
    <2>2. q \in Nat \ {0} /\ u = q * v
      <3> HIDE DEF u, v
      <3> QED BY <1>1, <2>1
    <2>3. rescale(x, from, to) = x \div q
      BY <1>3 DEF rescale
    <2> DEFINE r == x \div q
    <2>4. r \in Nat /\ r * q <= x
      BY <2>2, DivRoundsDown
    <2> HIDE DEF q, u, v, r
    <2>5. r * q \in Nat /\ (r * q) * v <= x * v
      BY <1>1, <2>2, <2>4, TimesNat, TimesMonotonic
    <2>6. r * u = (r * q) * v
      BY <1>1, <2>2, <2>4
    <2> QED BY <2>3, <2>4, <2>5, <2>6 DEF u, v, r
  <1> QED BY <1>2, <1>3

LEMMA MultiplierNat ==
    /\ Multiplier \in Nat /\ 10000 - LeastSpread \in Nat
    /\ Multiplier <= 10000 - LeastSpread
  <1>1. ASSUME NEW s \in Nat, NEW b \in Nat, s < 1000000, 100 * b <= s, s <= 100 * b + 100
        PROVE  /\ 10000 - b \in Nat /\ 10000 - ((s + 99) \div 100 - 1) \in Nat
               /\ 10000 - b <= 10000 - ((s + 99) \div 100 - 1)
    BY <1>1, SMT
  <1> QED BY <1>1, SpreadAssumption, SMT DEF Multiplier, LeastSpread

\* Whatever amount_out is asked, it answers no more than the value of the
\* amount less the spread, one basis point excepted.
LEMMA AmountOutKeepsSpread ==
    ASSUME NEW amount \in Nat, NEW sp \in Nat, NEW dp \in Nat \ {0},
           NEW from \in Channels, NEW to \in Channels
    PROVE  PaysAtMost(amount_out(amount, sp, from, dp, to), dp, to, amount, sp, from)
  <1> DEFINE k == 10000
             m == Multiplier
             n == 10000 - LeastSpread
             a == amount * sp
             x == a \div dp
             y == (x * m) \div k
             z == rescale(y, from, to)
             u == Unit[from]
             v == Unit[to]
  <1>1. k \in Nat \ {0} /\ m \in Nat /\ n \in Nat /\ m <= n /\ u \in Nat /\ v \in Nat
    BY MultiplierNat, ChannelsAssumption, SMT
  <1>2. a \in Nat
    BY TimesNat
  <1>3. x \in Nat /\ x * dp <= a
    <2> HIDE DEF a, k
    <2> QED BY <1>2, DivRoundsDown
  <1>4. y \in Nat /\ y * k <= x * m
    <2> HIDE DEF x, m, k
    <2>1. x * m \in Nat
      BY <1>1, <1>3, TimesNat
    <2> QED BY <1>1, <2>1, DivRoundsDown
  <1>5. z \in Nat /\ z * u <= y * v
    <2> HIDE DEF y, k
    <2> QED BY <1>4, RescaleRoundsDown
  <1>6. amount_out(amount, sp, from, dp, to) = z
    BY SMT DEF amount_out
  <1>7. z * dp * k * u <= a * n * v
    <2> HIDE DEF m, n, a, x, y, z, u, v, k
    <2>1. (z * u) * (dp * k) <= (y * v) * (dp * k)
      BY <1>1, <1>4, <1>5, TimesNat, TimesMonotonic
    <2>2. (y * k) * (dp * v) <= (x * m) * (dp * v)
      BY <1>1, <1>3, <1>4, TimesNat, TimesMonotonic
    <2>3. (x * dp) * (m * v) <= a * (m * v)
      BY <1>1, <1>2, <1>3, TimesNat, TimesMonotonic
    <2>4. /\ z * dp * k * u = (z * u) * (dp * k)
          /\ (y * v) * (dp * k) = (y * k) * (dp * v)
          /\ (x * m) * (dp * v) = (x * dp) * (m * v)
          /\ a * (m * v) = m * (a * v) /\ n * (a * v) = a * n * v
      BY <1>1, <1>2, <1>3, <1>4, <1>5
    <2>5. /\ (z * u) * (dp * k) \in Nat /\ (y * v) * (dp * k) \in Nat
          /\ (x * m) * (dp * v) \in Nat /\ a * (m * v) \in Nat /\ n * (a * v) \in Nat
      BY <1>1, <1>2, <1>3, <1>4, <1>5, TimesNat
    <2>6. m * (a * v) <= n * (a * v)
      BY <1>1, <1>2, TimesNat, TimesMonotonic
    <2> QED BY <2>1, <2>2, <2>3, <2>4, <2>5, <2>6
  <1> QED BY <1>6, <1>7, SMT DEF PaysAtMost

-----------------------------------------------------------------------------
\* What the storage holds, and what is on its way there.
WholePrices ==
    /\ \A c \in DOMAIN prices : prices[c].price \in Nat \ {0}
    /\ oracle.is = "setting" => \A c \in DOMAIN oracle.todo : oracle.todo[c] \in Int

\* A proposal, the LP's side of the swap, and what the spread asks of it.
Priced(p) ==
    /\ p.origin \in Channels /\ p.destination \in Channels /\ p.amount_out \in Nat
    /\ PaysAtMost(p.amount_in, p.dp, p.origin, p.amount_out, p.sp, p.destination)

SpreadInv ==
    /\ lp.is = "priced" => /\ lp.origin \in Channels /\ lp.destination \in Channels
                           /\ lp.amount \in Nat /\ lp.sp \in Nat
    /\ lp.is = "proposal" => Priced(lp)
    /\ quote.is = "quote" => Priced(quote.proposal)
    /\ checked.is = "checked" => /\ checked.origin \in Channels
                                 /\ checked.destination \in Channels
                                 /\ checked.amount_in \in Nat
    /\ deposit.is = "deposit" => /\ deposit.source \in Channels
                                 /\ deposit.destination \in Channels
                                 /\ deposit.amount \in Nat
    /\ driver.is \in {"priced", "counter"} => deposit.is = "deposit"
    /\ driver.is = "priced" => driver.sp \in Nat
    /\ driver.is = "counter" =>
         PaysAtMost(driver.amount, driver.dp, deposit.destination,
                    deposit.amount, driver.sp, deposit.source)

LEMMA GetIsWhole ==
    ASSUME WholePrices, NEW c
    PROVE  get(c) \in Nat
  BY DEF WholePrices, get

LEMMA WholePricesInit == Init => WholePrices
  BY DEF Init, WholePrices, Empty, OracleIdle

\* What the oracle aggregates.
AggregatesWhole == \A asked, p : <<asked, p>> \in RobustPrices => p \in Int

LEMMA WholePricesStep == AggregatesWhole /\ WholePrices /\ [Next]_vars => WholePrices'
  <1> SUFFICES ASSUME AggregatesWhole, WholePrices, [Next]_vars PROVE WholePrices'
    OBVIOUS
  <1>1. CASE UNCHANGED <<prices, oracle>>
    BY <1>1 DEF WholePrices
  <1>2. CASE StartRound
    BY <1>2 DEF StartRound, WholePrices
  <1>3. CASE aggregate
    <2>1. PICK price \in [Symbols -> {r[2] : r \in RobustPrices}] :
            /\ \A y \in Symbols :
                  <<{p \in Market : lastSeen[y][p] >= oracle.at}, price[y]>> \in RobustPrices
            /\ LET priced == {c \in Channels : price[Symbol[c]] > 0}
               IN  oracle' = IF priced = {} THEN OracleIdle(now)
                             ELSE [is |-> "setting", at |-> now,
                                   todo |-> [c \in priced |-> price[Symbol[c]]]]
      BY <1>3, Zenon DEF aggregate
    <2>2. \A y \in Symbols : price[y] \in Int
      BY <2>1, Zenon DEF AggregatesWhole
    <2>3. \A c \in Channels : price[Symbol[c]] \in Int
      BY <2>2, ChannelsAssumption
    <2>4. UNCHANGED prices
      BY <1>3 DEF aggregate
    <2> QED BY <2>1, <2>3, <2>4 DEF WholePrices, OracleIdle
  <1>4. ASSUME NEW c \in Channels, update_all_prices(c) PROVE WholePrices'
    <2>1. oracle.is = "setting" /\ c \in DOMAIN oracle.todo /\ set(c, oracle.todo[c])
      BY <1>4 DEF update_all_prices
    <2>2. oracle.todo[c] \in Int
      BY <2>1 DEF WholePrices
    <2>3. \A d \in DOMAIN prices' : prices'[d].price \in Nat \ {0}
      BY <2>1, <2>2 DEF set, WholePrices
    <2>4. oracle'.is = "setting" => \A d \in DOMAIN oracle'.todo : oracle'.todo[d] \in Int
      <3>1. CASE DOMAIN oracle.todo = {c}
        BY <1>4, <3>1 DEF update_all_prices, OracleIdle
      <3>2. CASE DOMAIN oracle.todo # {c}
        <4>1. oracle' = [oracle EXCEPT !.todo = Restrict(@, DOMAIN @ \ {c})]
          BY <1>4, <3>2 DEF update_all_prices
        <4>2. oracle'.todo \in {oracle.todo, Restrict(oracle.todo, DOMAIN oracle.todo \ {c})}
          BY <4>1
        <4> QED BY <2>1, <4>2 DEF Restrict, WholePrices
      <3> QED BY <3>1, <3>2
    <2> QED BY <2>3, <2>4 DEF WholePrices
  <1>5. CASE UNCHANGED vars \/ Tick \/ LpStep \/ TakerStep
    <2>1. UNCHANGED <<prices, oracle>>
      BY <1>5, Zenon DEF vars, Tick, LpStep, TakerStep, ReadOrigin, create_proposal, handle_proposal,
                  ReadSource, build_counter_commitment, on_proposal_response, Deposit
    <2> QED BY <1>1, <2>1
  <1> QED BY <1>2, <1>3, <1>4, <1>5 DEF Next, OracleStep

LEMMA SpreadInit == Init => SpreadInv
  BY DEF Init, SpreadInv, None

LEMMA SpreadNext == WholePrices /\ SpreadInv /\ [Next]_vars => SpreadInv'
  <1> SUFFICES ASSUME WholePrices, SpreadInv, [Next]_vars PROVE SpreadInv'
    OBVIOUS
  <1>1. ASSUME UNCHANGED quoteVars PROVE SpreadInv'
    BY <1>1 DEF quoteVars, SpreadInv, Priced, PaysAtMost
  <1>2. CASE UNCHANGED vars \/ Tick \/ OracleStep
    <2>1. UNCHANGED quoteVars
      BY <1>2, Zenon DEF vars, quoteVars, Tick, OracleStep, StartRound, aggregate, update_all_prices
    <2> QED BY <1>1, <2>1
  <1>3. ASSUME NEW req \in Requests, ReadOrigin(req) PROVE SpreadInv'
    <2>1. /\ lp'.is \in {"rejected", "priced"} /\ UNCHANGED <<quote, checked, deposit, driver>>
          /\ lp'.is = "priced" => /\ lp'.origin = req.origin /\ lp'.destination = req.destination
                                  /\ lp'.amount = req.amount /\ lp'.sp = get(req.origin)
      BY <1>3 DEF ReadOrigin, Rejected
    <2> QED BY <2>1, GetIsWhole, RequestsAssumption DEF SpreadInv, Priced, PaysAtMost
  <1>4. CASE create_proposal
    <2> DEFINE dp == get(lp.destination)
               out == amount_out(lp.amount, lp.sp, lp.origin, dp, lp.destination)
    <2>1. /\ lp.is = "priced" /\ UNCHANGED <<quote, checked, deposit, driver>>
          /\ \/ lp'.is = "rejected"
             \/ /\ dp # 0 /\ lp'.is = "proposal" /\ lp'.sp = lp.sp /\ lp'.dp = dp
                /\ lp'.origin = lp.destination /\ lp'.destination = lp.origin
                /\ lp'.amount_out = lp.amount /\ lp'.amount_in = out
      <3> HIDE DEF out
      <3> QED BY <1>4 DEF create_proposal, Rejected, out
    <2>2. dp \in Nat
      BY GetIsWhole
    <2>3. dp # 0 => PaysAtMost(out, dp, lp.destination, lp.amount, lp.sp, lp.origin)
      <3> HIDE DEF dp
      <3> QED BY <2>1, <2>2, AmountOutKeepsSpread DEF SpreadInv
    <2>4. lp'.is = "proposal" => Priced(lp')
      <3> HIDE DEF dp, out
      <3> QED BY <2>1, <2>3, Zenon DEF SpreadInv, Priced
    <2> HIDE DEF dp, out
    <2> QED BY <2>1, <2>4 DEF SpreadInv, Priced, PaysAtMost
  <1>5. ASSUME NEW a, handle_proposal(a) PROVE SpreadInv'
    <2>1. /\ lp.is = "proposal" /\ lp'.is = "rejected" /\ UNCHANGED <<checked, deposit, driver>>
          /\ quote' = quote \/ quote'.proposal = lp
      BY <1>5 DEF handle_proposal, Rejected
    <2> QED BY <2>1, SMTT(30) DEF SpreadInv, Priced, PaysAtMost
  <1>6. ASSUME NEW a, on_proposal_response(a) PROVE SpreadInv'
    <2>1. /\ quote.is = "quote" /\ UNCHANGED <<lp, quote, deposit, driver>>
          /\ checked'.origin = quote.proposal.destination
          /\ checked'.destination = quote.proposal.origin
          /\ checked'.amount_in = quote.proposal.amount_out
      BY <1>6 DEF on_proposal_response
    <2> QED BY <2>1, SMTT(30) DEF SpreadInv, Priced, PaysAtMost
  <1>7. CASE Deposit
    <2>1. /\ checked.is = "checked" /\ deposit = None
          /\ UNCHANGED <<lp, quote, checked, driver>>
          /\ deposit'.source = checked.origin /\ deposit'.destination = checked.destination
          /\ deposit'.amount = checked.amount_in
      BY <1>7 DEF Deposit
    <2>2. driver.is \notin {"priced", "counter"}
      BY <2>1 DEF SpreadInv, None
    <2> QED BY <2>1, <2>2 DEF SpreadInv, Priced, PaysAtMost
  <1>8. CASE ReadSource
    <2>1. /\ deposit.is = "deposit" /\ UNCHANGED <<lp, quote, checked, deposit>>
          /\ driver'.is \in {"refused", "priced"} /\ driver'.sp \in {0, get(deposit.source)}
      BY <1>8 DEF ReadSource, Refused
    <2> QED BY <2>1, GetIsWhole, SMTT(30) DEF SpreadInv, Priced, PaysAtMost
  <1>9. ASSUME NEW clocked, build_counter_commitment(clocked) PROVE SpreadInv'
    <2> DEFINE dp == get(deposit.destination)
               out == amount_out(deposit.amount, driver.sp, deposit.source,
                                 dp, deposit.destination)
    <2>1. /\ driver.is = "priced" /\ UNCHANGED <<lp, quote, checked, deposit>>
          /\ \/ driver'.is = "refused"
             \/ /\ dp # 0 /\ driver'.is = "counter" /\ driver'.sp = driver.sp
                /\ driver'.dp = dp /\ driver'.amount = out
      <3> HIDE DEF out
      <3> QED BY <1>9, Zenon DEF build_counter_commitment, Refused, out
    <2>2. dp \in Nat
      BY GetIsWhole
    <2>3. dp # 0 => PaysAtMost(out, dp, deposit.destination, deposit.amount,
                               driver.sp, deposit.source)
      <3> HIDE DEF dp
      <3> QED BY <2>1, <2>2, AmountOutKeepsSpread DEF SpreadInv
    <2> HIDE DEF dp, out
    <2>4. driver'.is = "counter" =>
             PaysAtMost(driver'.amount, driver'.dp, deposit.destination,
                        deposit.amount, driver'.sp, deposit.source)
      BY <2>1, <2>3, Zenon
    <2> QED BY <2>1, <2>4 DEF SpreadInv, Priced, PaysAtMost
  <1> QED
    BY <1>2, <1>3, <1>4, <1>5, <1>6, <1>7, <1>8, <1>9 DEF Next, LpStep, TakerStep

-----------------------------------------------------------------------------
(* A quote is honoured.                                                    *)

\* A proposal, the LP's side of the swap, is what create_proposal computes.
Proposed(p) ==
    /\ p.origin \in Channels
    /\ ~TooSmall(p.amount_out, p.destination, p.sp)
    /\ ~TooLarge(p.amount_out, p.destination, p.sp)
    /\ p.amount_in = amount_out(p.amount_out, p.sp, p.destination, p.dp, p.origin)
    /\ p.offset = required_init_lock_secs(p.origin, TRUE)

\* The response carries a proposal and the LP's own signature of its digest.
Signed(q) ==
    /\ Proposed(q.proposal)
    /\ q.lp_sender = lp_address(q.proposal.origin)
    /\ q.lp_signature.key = PrivateKey
    /\ q.lp_signature.over = proposal_digest(q.proposal, q.lp_sender, q.lp_confirmations)

\* The deposit is what the quote of proposal p asked for.
Quoted(d, p) ==
    /\ d.source = p.destination /\ d.destination = p.origin
    /\ d.amount = p.amount_out /\ d.expected = p.amount_in
    /\ d.at \in Nat /\ d.at <= now /\ d.unlock_ts = d.at + p.offset

\* There is one quote, and what is checked, deposited and mirrored goes back to it.
HonouredInv ==
    /\ now \in Nat
    /\ lp.is = "priced" => lp.destination \in Channels
    /\ lp.is = "proposal" => Proposed(lp)
    /\ quote = None \/ (quote.is = "quote" /\ lp.is = "rejected" /\ Signed(quote))
    /\ checked = None \/
         /\ quote.is = "quote"
         /\ checked.origin = quote.proposal.destination
         /\ checked.destination = quote.proposal.origin
         /\ checked.amount_in = quote.proposal.amount_out
         /\ checked.amount_out = quote.proposal.amount_in
         /\ checked.offset = quote.proposal.offset
         /\ ~checked.signature_valid => ~checked.balance_sufficient
    /\ deposit = None \/ (quote.is = "quote" /\ Quoted(deposit, quote.proposal))
    /\ driver = None \/ deposit # None
    /\ driver.is = "refused" =>
         /\ driver.why = "lock" => driver.at - deposit.at > COMMIT_BUFFER
         /\ driver.why = "amount" => driver.sp # quote.proposal.sp
    /\ driver.is = "counter" =>
         driver.amount = amount_out(deposit.amount, driver.sp, deposit.source,
                                    driver.dp, deposit.destination)

\* What the LP signed verifies, on either kind of chain, once the chain answers.
LEMMA OwnSignatureVerifies ==
    ASSUME NEW q, Signed(q), NEW required, NEW answer, NEW v,
           v = verify_message(q.proposal.origin,
                   proposal_digest(q.proposal, q.lp_sender, q.lp_confirmations),
                   q.lp_sender, q.lp_signature, required, answer)
    PROVE  ~v.address_matches => ~v.balance_sufficient
  <1> DEFINE c == q.proposal.origin
             digest == proposal_digest(q.proposal, q.lp_sender, q.lp_confirmations)
  <1>1. q.lp_sender = lp_address(c) /\ q.lp_signature.key = PrivateKey
        /\ q.lp_signature.over = digest
    BY DEF Signed
  <1>2. v = verify_message(c, digest, q.lp_sender, q.lp_signature, required, answer)
    OBVIOUS
  <1> HIDE DEF c, digest
  <1>3. CASE c \in Evm
    <2>1. q.lp_sender = evm_address(PrivateKey)
      BY <1>1, <1>3 DEF lp_address
    <2>2. evm_verify_lp_signature(digest, q.lp_sender, q.lp_signature)
      BY <1>1, <2>1 DEF evm_verify_lp_signature
    <2>3. v = evm_verify(digest, q.lp_sender, q.lp_signature, required, answer)
      BY <1>2, <1>3 DEF verify_message
    <2>4. CASE answer = None
      <3>1. v = Verification(FALSE, FALSE)
        BY <2>3, <2>4 DEF evm_verify
      <3> QED BY <3>1 DEF Verification
    <2>5. CASE answer # None
      <3>1. v = Verification(evm_verify_lp_signature(digest, q.lp_sender, q.lp_signature),
                             evm_query_balance(answer) >= required)
        BY <2>3, <2>5 DEF evm_verify
      <3>2. v.address_matches = evm_verify_lp_signature(digest, q.lp_sender, q.lp_signature)
        BY <3>1 DEF Verification
      <3> QED BY <2>2, <3>2
    <2> QED BY <2>4, <2>5
  <1>4. CASE c \notin Evm
    <2>1. q.lp_sender = kaspa_address(PrivateKey)
      BY <1>1, <1>4 DEF lp_address
    <2>2. /\ kaspa_verify_lp_signature(digest, q.lp_sender, q.lp_signature)
          /\ q.lp_sender.version = "PubKey"
      BY <1>1, <2>1 DEF kaspa_verify_lp_signature, kaspa_address
    <2>3. v = kaspa_verify(digest, q.lp_sender, q.lp_signature, required, answer)
      BY <1>2, <1>4 DEF verify_message
    <2>4. CASE answer = None
      <3>1. v = Verification(FALSE, FALSE)
        BY <2>3, <2>4 DEF kaspa_verify
      <3> QED BY <3>1 DEF Verification
    <2>5. CASE answer # None
      <3>1. v = Verification(kaspa_verify_lp_signature(digest, q.lp_sender, q.lp_signature),
                             kaspa_query_balance(answer) >= required)
        BY <2>2, <2>3, <2>5 DEF kaspa_verify
      <3>2. v.address_matches = kaspa_verify_lp_signature(digest, q.lp_sender, q.lp_signature)
        BY <3>1 DEF Verification
      <3> QED BY <2>2, <3>2
    <2> QED BY <2>4, <2>5
  <1> QED BY <1>3, <1>4

LEMMA HonouredInit == Init => HonouredInv
  BY DEF Init, HonouredInv, None

LEMMA HonouredStep == HonouredInv /\ [Next]_vars => HonouredInv'
  <1> SUFFICES ASSUME HonouredInv, [Next]_vars PROVE HonouredInv'
    OBVIOUS
  <1> USE DEF None
  <1>1. ASSUME UNCHANGED quoteVars, now' \in Nat, now <= now' PROVE HonouredInv'
    BY <1>1 DEF quoteVars, HonouredInv, Quoted
  <1>2. CASE UNCHANGED vars \/ Tick \/ OracleStep
    <2>1. UNCHANGED quoteVars
      BY <1>2, Zenon DEF vars, quoteVars, Tick, OracleStep, StartRound, aggregate, update_all_prices
    <2>2. now' = now \/ now' = now + 1
      BY <1>2, Zenon DEF vars, Tick, OracleStep, StartRound, aggregate, update_all_prices
    <2>3. now' \in Nat /\ now <= now'
      BY <2>2 DEF HonouredInv
    <2> QED BY <1>1, <2>1, <2>3
  <1>3. ASSUME NEW req \in Requests, ReadOrigin(req) PROVE HonouredInv'
    <2>1. /\ lp = None /\ UNCHANGED <<now, quote, checked, deposit, driver>>
          /\ lp'.is \in {"rejected", "priced"}
          /\ lp'.is = "priced" => lp'.destination = req.destination
      BY <1>3 DEF ReadOrigin, Rejected
    <2>2. quote = None
      BY <2>1 DEF HonouredInv
    <2> QED BY <2>1, <2>2, RequestsAssumption DEF HonouredInv, Quoted
  <1>4. CASE create_proposal
    <2>1. /\ lp.is = "priced" /\ UNCHANGED <<now, quote, checked, deposit, driver>>
          /\ lp'.is \in {"rejected", "proposal"}
      BY <1>4, Zenon DEF create_proposal, Rejected
    <2>2. lp'.is = "proposal" => Proposed(lp')
      <3> DEFINE dp == get(lp.destination)
                 out == amount_out(lp.amount, lp.sp, lp.origin, dp, lp.destination)
                 offset == required_init_lock_secs(lp.destination, TRUE)
      <3>1. lp'.is = "proposal" =>
              /\ ~TooSmall(lp.amount, lp.origin, lp.sp) /\ ~TooLarge(lp.amount, lp.origin, lp.sp)
              /\ lp'.sp = lp.sp /\ lp'.dp = dp
              /\ lp'.origin = lp.destination /\ lp'.destination = lp.origin
              /\ lp'.amount_out = lp.amount /\ lp'.amount_in = out /\ lp'.offset = offset
        <4> HIDE DEF out, offset
        <4> QED BY <1>4, Zenon DEF create_proposal, Rejected, out, offset
      <3>2. lp.destination \in Channels
        BY <2>1 DEF HonouredInv
      <3> HIDE DEF dp
      <3> QED BY <3>1, <3>2, Zenon DEF Proposed
    <2>3. quote = None
      BY <2>1 DEF HonouredInv
    <2> QED BY <2>1, <2>2, <2>3 DEF HonouredInv, Quoted
  <1>5. ASSUME NEW a, handle_proposal(a) PROVE HonouredInv'
    <2>1. /\ lp.is = "proposal" /\ lp'.is = "rejected"
          /\ UNCHANGED <<now, checked, deposit, driver>>
      BY <1>5, Zenon DEF handle_proposal, Rejected
    <2>2. quote = None
      BY <2>1, SMTT(30) DEF HonouredInv
    <2>3. quote' = None \/ (quote'.is = "quote" /\ Signed(quote'))
      <3> DEFINE sender == lp_address(lp.origin)
                 confirmations == Confirmations[lp.destination]
                 digest == proposal_digest(lp, sender, confirmations)
                 signature == sign_message(lp.origin, PrivateKey, digest, lp.amount_in, a)
      <3>1. quote' = IF signature = None THEN quote
                     ELSE [is |-> "quote", proposal |-> lp, lp_sender |-> sender,
                           lp_confirmations |-> confirmations, lp_signature |-> signature]
        BY <1>5, Zenon DEF handle_proposal
      <3>2. signature = None \/ (signature.key = PrivateKey /\ signature.over = digest)
        <4> HIDE DEF digest
        <4> QED BY SMTT(30) DEF sign_message, evm_sign_message, kaspa_sign_message, evm_sign, kaspa_sign
      <3> HIDE DEF signature, confirmations
      <3> QED BY <2>1, <2>2, <3>1, <3>2 DEF Signed, HonouredInv
    <2>4. checked = None /\ deposit = None /\ driver = None
      BY <2>2, SMTT(30) DEF HonouredInv
    <2> QED BY <2>1, <2>3, <2>4 DEF HonouredInv
  <1>6. ASSUME NEW a, on_proposal_response(a) PROVE HonouredInv'
    <2> DEFINE p == quote.proposal
               v == verify_message(p.origin,
                        proposal_digest(p, quote.lp_sender, quote.lp_confirmations),
                        quote.lp_sender, quote.lp_signature, p.amount_in, a)
    <2>1. /\ quote.is = "quote" /\ UNCHANGED <<now, lp, quote, deposit, driver>>
          /\ checked'.origin = p.destination /\ checked'.destination = p.origin
          /\ checked'.amount_in = p.amount_out /\ checked'.amount_out = p.amount_in
          /\ checked'.offset = p.offset
          /\ checked'.signature_valid = v.address_matches
          /\ checked'.balance_sufficient = v.balance_sufficient
      <3> HIDE DEF v
      <3> QED BY <1>6, Zenon DEF on_proposal_response, v
    <2>2. Signed(quote)
      <3> HIDE DEF v
      <3>1. quote.is = "quote"
        BY <2>1
      <3> QED BY <3>1 DEF HonouredInv, None
    <2>3. ~v.address_matches => ~v.balance_sufficient
      BY <2>2, OwnSignatureVerifies
    <2> HIDE DEF v
    <2> QED BY <2>1, <2>3 DEF HonouredInv, Quoted
  <1>7. CASE Deposit
    <2>1. /\ checked.is = "checked" /\ deposit = None
          /\ UNCHANGED <<now, lp, quote, checked, driver>>
          /\ deposit' = [is |-> "deposit", source |-> checked.origin,
                         destination |-> checked.destination, amount |-> checked.amount_in,
                         expected |-> checked.amount_out, at |-> now,
                         unlock_ts |-> now + checked.offset]
      BY <1>7, SMTT(30) DEF Deposit
    <2>2. checked # None /\ driver = None
      BY <2>1, SMTT(30) DEF HonouredInv
    <2>3. quote.is = "quote" /\ Quoted(deposit', quote.proposal)
      BY <2>1, <2>2 DEF HonouredInv, Quoted
    <2>4. deposit' # None
      BY <2>1
    <2> QED BY <2>1, <2>2, <2>3, <2>4, Zenon DEF HonouredInv, Quoted
  <1>8. CASE ReadSource
    <2>1. /\ deposit.is = "deposit" /\ UNCHANGED <<now, lp, quote, checked, deposit>>
      BY <1>8 DEF ReadSource
    <2>2. /\ quote.is = "quote" /\ Quoted(deposit, quote.proposal) /\ Proposed(quote.proposal)
      BY <2>1 DEF HonouredInv, Signed
    <2>3. /\ driver'.is \in {"refused", "priced"}
          /\ driver'.is = "refused" =>
               /\ driver'.why \in {"price", "amount"}
               /\ driver'.why = "amount" =>
                    \/ TooSmall(deposit.amount, deposit.source, driver'.sp)
                    \/ TooLarge(deposit.amount, deposit.source, driver'.sp)
      BY <1>8, Zenon DEF ReadSource, Refused
    <2>4. driver'.is = "refused" /\ driver'.why = "amount" => driver'.sp # quote.proposal.sp
      BY <2>2, <2>3 DEF Quoted, Proposed
    <2> QED BY <2>1, <2>3, <2>4 DEF HonouredInv, Quoted
  <1>9. ASSUME NEW clocked, build_counter_commitment(clocked) PROVE HonouredInv'
    <2> DEFINE dp == get(deposit.destination)
               remaining == IF deposit.unlock_ts > now THEN deposit.unlock_ts - now ELSE 0
               needed == required_init_lock_secs(deposit.destination, FALSE)
               out == amount_out(deposit.amount, driver.sp, deposit.source,
                                 dp, deposit.destination)
    <2>1. /\ driver.is = "priced" /\ UNCHANGED <<now, lp, quote, checked, deposit>>
          /\ \/ /\ driver'.is = "refused" /\ driver'.why \in {"price", "clock", "lock"}
                /\ driver'.at = now
                /\ driver'.why = "lock" => remaining < needed
             \/ /\ driver'.is = "counter" /\ driver'.sp = driver.sp
                /\ driver'.dp = dp /\ driver'.amount = out
      <3> HIDE DEF out, needed
      <3> QED BY <1>9, Zenon DEF build_counter_commitment, Refused, out, needed
    <2>2. /\ deposit # None /\ quote.is = "quote"
          /\ Quoted(deposit, quote.proposal) /\ Proposed(quote.proposal)
      BY <2>1 DEF HonouredInv, Signed
    <2>3. remaining < needed => now - deposit.at > COMMIT_BUFFER
      <3> DEFINE lock == LockTime[quote.proposal.origin]
      <3>1. lock \in Nat /\ COMMIT_BUFFER \in Nat
        BY <2>2, LockAssumption DEF Proposed
      <3>2. /\ deposit.at \in Nat /\ now \in Nat
            /\ deposit.unlock_ts = deposit.at + (lock * 2 + COMMIT_BUFFER)
            /\ needed = lock * 2 + 0
        BY <2>2, Zenon DEF Quoted, Proposed, required_init_lock_secs, HonouredInv
      <3> HIDE DEF lock, needed
      <3> QED BY <3>1, <3>2
    <2> HIDE DEF dp, out, remaining, needed
    <2>4. driver'.is = "counter" =>
            driver'.amount = amount_out(deposit.amount, driver'.sp, deposit.source,
                                        driver'.dp, deposit.destination)
      BY <2>1, Zenon DEF out
    <2>5. driver'.is = "refused" => /\ driver'.why = "lock" => driver'.at - deposit.at > COMMIT_BUFFER
                                    /\ driver'.why # "amount"
      BY <2>1, <2>3
    <2> QED BY <2>1, <2>2, <2>4, <2>5, Zenon DEF HonouredInv, Quoted
  <1> QED
    BY <1>2, <1>3, <1>4, <1>5, <1>6, <1>7, <1>8, <1>9 DEF Next, LpStep, TakerStep

\* A deposit on a checked quote is refused only for a late handling or a moved
\* price, a counter at the quoted prices pays the quoted amount, and the LP's own
\* signature verifies, for any tokens, prices, lock times and buffer
\* (create_proposal, handle_proposal, on_proposal_response, build_counter_commitment).
THEOREM QuotesAreHonoured == Spec => []QuoteIsHonoured
  <1>1. HonouredInv => QuoteIsHonoured
    <2> SUFFICES ASSUME HonouredInv PROVE QuoteIsHonoured
      OBVIOUS
    <2>1. ASSUME driver.is = "counter", driver.sp = quote.proposal.sp,
                 driver.dp = quote.proposal.dp
          PROVE  driver.amount = deposit.expected
      <3>1. Quoted(deposit, quote.proposal) /\ Proposed(quote.proposal)
        BY <2>1 DEF HonouredInv, None, Signed
      <3> QED BY <2>1, <3>1, Zenon DEF HonouredInv, Quoted, Proposed
    <2>2. ASSUME checked.is = "checked", ~checked.signature_valid
          PROVE  ~checked.balance_sufficient
      BY <2>2 DEF HonouredInv, None
    <2> QED BY <2>1, <2>2, Zenon DEF HonouredInv, QuoteIsHonoured
  <1> QED BY <1>1, HonouredInit, HonouredStep, PTL DEF Spec

-----------------------------------------------------------------------------
(* A price handed out is near a recent market price.  The invariant says    *)
(* when the market asked what a price is near to: not longer before the     *)
(* price was stored than a round of fetches may take.                       *)

\* Within the factor 11/9, but for the rounding of the mean.
Near(p, m) == 9 * p <= 11 * m /\ 11 * (p + 1) > 9 * m

NearSince(y, p, t) ==
    \E m \in Market : lastSeen[y][m] >= 0 /\ lastSeen[y][m] >= t /\ Near(p, m)

MarketInv ==
    /\ now \in Nat
    /\ \A y \in Symbols, m \in Market : lastSeen[y][m] \in Int /\ lastSeen[y][m] <= now
    /\ oracle.is = "fetching" =>
         oracle.at \in Nat /\ oracle.at <= now /\ now - oracle.at <= FETCH_TIME
    /\ oracle.is = "setting" =>
         \A c \in DOMAIN oracle.todo :
            c \in Channels /\ NearSince(Symbol[c], oracle.todo[c], now - FETCH_TIME)
    /\ \A c \in DOMAIN prices :
         /\ c \in Channels /\ prices[c].ts \in Nat /\ prices[c].ts <= now
         /\ NearSince(Symbol[c], prices[c].price, prices[c].ts - FETCH_TIME)

LEMMA MarketInit == Init => MarketInv
  BY SampleAssumption DEF Init, MarketInv, Empty, OracleIdle

\* What the oracle aggregates of the prices the market asked.
AggregatesNear ==
    \A asked, p : <<asked, p>> \in RobustPrices /\ p > 0 => \E m \in asked : Near(p, m)

LEMMA MarketStep == AggregatesNear /\ MarketInv /\ [Next]_vars => MarketInv'
  <1> SUFFICES ASSUME AggregatesNear, MarketInv, [Next]_vars PROVE MarketInv'
    OBVIOUS
  <1>1. CASE UNCHANGED <<now, lastSeen, prices, oracle>>
    BY <1>1 DEF MarketInv, NearSince
  <1>2. CASE Tick
    <2>1. /\ now \in Nat /\ now' = now + 1 /\ UNCHANGED <<prices, oracle>>
          /\ oracle.is # "setting" /\ with_retry
      BY <1>2 DEF Tick, MarketInv
    <2>2. ASSUME NEW y \in Symbols, NEW m \in Market
          PROVE  lastSeen'[y][m] \in Int /\ lastSeen'[y][m] <= now' /\ lastSeen'[y][m] >= lastSeen[y][m]
      <3>1. lastSeen[y][m] \in Int /\ lastSeen[y][m] <= now
        BY DEF MarketInv
      <3>2. lastSeen'[y][m] = now + 1 \/ lastSeen'[y][m] = lastSeen[y][m]
        BY <1>2 DEF Tick
      <3> QED BY <2>1, <3>1, <3>2
    <2>3. ASSUME NEW y \in Symbols, NEW p, NEW t \in Int, NearSince(y, p, t)
          PROVE  NearSince(y, p, t)'
      <3>1. PICK m \in Market : lastSeen[y][m] >= 0 /\ lastSeen[y][m] >= t /\ Near(p, m)
        BY <2>3, Zenon DEF NearSince
      <3>2. lastSeen[y][m] \in Int
        BY DEF MarketInv
      <3>3. lastSeen'[y][m] >= 0 /\ lastSeen'[y][m] >= t
        BY <2>2, <3>1, <3>2
      <3> QED BY <3>1, <3>3, Zenon DEF NearSince
    <2>4. oracle'.is = "fetching" =>
            oracle'.at \in Nat /\ oracle'.at <= now' /\ now' - oracle'.at <= FETCH_TIME
      BY <2>1, SampleAssumption DEF MarketInv, with_retry
    <2>5. ASSUME NEW c \in DOMAIN prices'
          PROVE  /\ c \in Channels /\ prices'[c].ts \in Nat /\ prices'[c].ts <= now'
                 /\ NearSince(Symbol[c], prices[c].price, prices[c].ts - FETCH_TIME)'
      <3>1. /\ c \in Channels /\ prices[c].ts \in Nat /\ prices[c].ts <= now
            /\ NearSince(Symbol[c], prices[c].price, prices[c].ts - FETCH_TIME)
        BY <2>1, <2>5 DEF MarketInv
      <3>2. Symbol[c] \in Symbols /\ prices[c].ts - FETCH_TIME \in Int
        BY <3>1, ChannelsAssumption, SampleAssumption
      <3>3. \E m \in Market : /\ lastSeen'[Symbol[c]][m] >= 0
                              /\ lastSeen'[Symbol[c]][m] >= prices[c].ts - FETCH_TIME
                              /\ Near(prices[c].price, m)
        BY <2>3, <3>1, <3>2, Zenon DEF NearSince
      <3>4. NearSince(Symbol[c], prices[c].price, prices[c].ts - FETCH_TIME)'
        BY <2>1, <3>3, ZenonT(60) DEF NearSince
      <3> QED BY <2>1, <3>1, <3>4
    <2> QED BY <2>1, <2>2, <2>4, <2>5 DEF MarketInv
  <1>3. CASE StartRound
    <2>1. /\ UNCHANGED <<now, lastSeen, prices>> /\ now \in Nat
          /\ oracle'.is = "fetching" /\ oracle'.at = now
      BY <1>3 DEF StartRound, MarketInv
    <2>2. now - now = 0 /\ 0 <= FETCH_TIME /\ now <= now
      BY <2>1, SampleAssumption
    <2> QED BY <2>1, <2>2 DEF MarketInv, NearSince
  <1>4. CASE aggregate
    <2>1. /\ UNCHANGED <<now, lastSeen, prices>> /\ oracle.is = "fetching" /\ now \in Nat
          /\ oracle.at \in Nat /\ oracle.at <= now /\ now - oracle.at <= FETCH_TIME
      BY <1>4 DEF aggregate, MarketInv
    <2>2. PICK price \in [Symbols -> {r[2] : r \in RobustPrices}] :
            /\ \A y \in Symbols :
                  <<{p \in Market : lastSeen[y][p] >= oracle.at}, price[y]>> \in RobustPrices
            /\ LET priced == {c \in Channels : price[Symbol[c]] > 0}
               IN  oracle' = IF priced = {} THEN OracleIdle(now)
                             ELSE [is |-> "setting", at |-> now,
                                   todo |-> [c \in priced |-> price[Symbol[c]]]]
      BY <1>4, Zenon DEF aggregate
    <2>3. ASSUME NEW y \in Symbols, price[y] > 0
          PROVE  NearSince(y, price[y], now - FETCH_TIME)
      <3>1. PICK m \in {p \in Market : lastSeen[y][p] >= oracle.at} : Near(price[y], m)
        BY <2>2, <2>3, Zenon DEF AggregatesNear
      <3>2. m \in Market /\ lastSeen[y][m] \in Int /\ lastSeen[y][m] >= oracle.at
        BY <3>1 DEF MarketInv
      <3>3. lastSeen[y][m] >= 0 /\ lastSeen[y][m] >= now - FETCH_TIME
        BY <2>1, <3>2, SampleAssumption
      <3> QED BY <3>1, <3>2, <3>3, Zenon DEF NearSince
    <2>4. oracle'.is # "fetching"
      BY <2>2 DEF OracleIdle
    <2>5. ASSUME oracle'.is = "setting", NEW c \in DOMAIN oracle'.todo
          PROVE  c \in Channels /\ NearSince(Symbol[c], oracle'.todo[c], now - FETCH_TIME)
      <3>1. c \in Channels /\ price[Symbol[c]] > 0 /\ oracle'.todo[c] = price[Symbol[c]]
        BY <2>2, <2>5 DEF OracleIdle
      <3>2. Symbol[c] \in Symbols
        BY <3>1, ChannelsAssumption, Zenon
      <3> QED BY <2>3, <3>1, <3>2, Zenon
    <2> QED BY <2>1, <2>4, <2>5, SMTT(30) DEF MarketInv, NearSince
  <1>5. ASSUME NEW c \in Channels, update_all_prices(c) PROVE MarketInv'
    <2>1. /\ oracle.is = "setting" /\ c \in DOMAIN oracle.todo /\ set(c, oracle.todo[c])
          /\ UNCHANGED <<now, lastSeen>> /\ now \in Nat
          /\ NearSince(Symbol[c], oracle.todo[c], now - FETCH_TIME)
      BY <1>5 DEF update_all_prices, MarketInv
    <2>2. ASSUME NEW d \in DOMAIN prices'
          PROVE  /\ d \in Channels /\ prices'[d].ts \in Nat /\ prices'[d].ts <= now
                 /\ NearSince(Symbol[d], prices'[d].price, prices'[d].ts - FETCH_TIME)
      <3>1. CASE d \in DOMAIN prices /\ prices'[d] = prices[d]
        BY <3>1 DEF MarketInv
      <3>2. CASE d = c /\ prices'[d] = [price |-> oracle.todo[c], ts |-> now]
        BY <2>1, <3>2
      <3> QED BY <2>1, <2>2, <3>1, <3>2 DEF set
    <2>3. /\ oracle'.is # "fetching"
          /\ oracle'.is = "setting" => \A d \in DOMAIN oracle'.todo :
               d \in DOMAIN oracle.todo /\ oracle'.todo[d] = oracle.todo[d]
      <3>1. CASE DOMAIN oracle.todo = {c}
        BY <1>5, <3>1 DEF update_all_prices, OracleIdle
      <3>2. CASE DOMAIN oracle.todo # {c}
        <4>1. oracle' = [oracle EXCEPT !.todo = Restrict(@, DOMAIN @ \ {c})]
          BY <1>5, <3>2 DEF update_all_prices
        <4>2. oracle'.is = oracle.is
          BY <4>1
        <4>3. oracle'.todo \in {oracle.todo, Restrict(oracle.todo, DOMAIN oracle.todo \ {c})}
          BY <4>1
        <4> QED BY <2>1, <4>2, <4>3 DEF Restrict
      <3> QED BY <3>1, <3>2
    <2> QED BY <2>1, <2>2, <2>3 DEF MarketInv, NearSince
  <1>6. CASE UNCHANGED vars \/ LpStep \/ TakerStep
    <2>1. UNCHANGED <<now, lastSeen, prices, oracle>>
      BY <1>6, Zenon DEF vars, LpStep, TakerStep, ReadOrigin, create_proposal, handle_proposal,
                  ReadSource, build_counter_commitment, on_proposal_response, Deposit
    <2> QED BY <1>1, <2>1
  <1> QED BY <1>2, <1>3, <1>4, <1>5, <1>6, SMTT(30) DEF Next, OracleStep

\* What is near since a fetch before it was stored is near a recent price.
LEMMA MarketImpliesNear == MarketInv => PricedNearMarket
  <1> SUFFICES ASSUME MarketInv, NEW c \in Channels, get(c) > 0
               PROVE  \E m \in Recent(Symbol[c], MAX_AGE + FETCH_TIME) :
                         9 * get(c) <= 11 * m /\ 11 * (get(c) + 1) > 9 * m
    BY Zenon DEF PricedNearMarket
  <1>1. c \in DOMAIN prices /\ now - prices[c].ts <= MAX_AGE /\ get(c) = prices[c].price
    BY DEF get
  <1>2. /\ now \in Nat /\ prices[c].ts \in Nat /\ Symbol[c] \in Symbols
        /\ NearSince(Symbol[c], prices[c].price, prices[c].ts - FETCH_TIME)
    BY <1>1, ChannelsAssumption DEF MarketInv
  <1>3. PICK m \in Market : /\ lastSeen[Symbol[c]][m] >= 0
                            /\ lastSeen[Symbol[c]][m] >= prices[c].ts - FETCH_TIME
                            /\ Near(get(c), m)
    BY <1>1, <1>2, Zenon DEF NearSince
  <1>4. lastSeen[Symbol[c]][m] \in Int
    BY <1>2 DEF MarketInv
  <1>5. now - lastSeen[Symbol[c]][m] <= MAX_AGE + FETCH_TIME
    BY <1>1, <1>2, <1>3, <1>4, SampleAssumption
  <1>6. m \in Recent(Symbol[c], MAX_AGE + FETCH_TIME)
    BY <1>3, <1>5, Zenon DEF Recent
  <1> QED BY <1>3, <1>6, Zenon DEF Near

-----------------------------------------------------------------------------
(* Sums over a finite set, as SumFunction computes them: a function on the  *)
(* subsets takes one chosen element at a time.                              *)

AnyOf(s) == CHOOSE x \in s : TRUE
IsSum(f, S, g) ==
    g = [s \in SUBSET S |-> IF s = {} THEN 0 ELSE f[AnyOf(s)] + g[s \ {AnyOf(s)}]]
SumOf(f, S) == CHOOSE g : IsSum(f, S, g)

LEMMA SumIsFold ==
    ASSUME NEW f, NEW S, DOMAIN f = S
    PROVE  SumFunction(f) = SumOf(f, S)[S]
  BY Zenon DEF SumFunction, SumFunctionOnSet, FoldFunctionOnSet, MapThenFoldSet, SumOf, IsSum,
               AnyOf

\* Among subsets of a finite set, some are minimal.
LEMMA MinimalSubset ==
    ASSUME NEW U, IsFiniteSet(U), NEW B, B \subseteq SUBSET U, B # {}
    PROVE  \E s \in B : \A t \in B : t \subseteq s => t = s
  <1>1. B \subseteq FiniteSubsetsOf(U)
    BY FS_FiniteSubsetsOfFinite
  <1>2. PICK s \in B : \A t \in B : ~(<<t, s>> \in StrictSubsetOrdering(U))
    BY <1>1, FS_StrictSubsetOrderingWellFounded, WFMin
  <1>3. \A t \in B : t \subseteq s => t = s
    BY <1>2, Zenon DEF StrictSubsetOrdering
  <1> QED BY <1>3

\* The steps of the recursion.
LEMMA SumSteps ==
    ASSUME NEW f, NEW S, NEW g, IsSum(f, S, g), NEW s \in SUBSET S
    PROVE  /\ s = {} => g[s] = 0
           /\ s # {} => AnyOf(s) \in s /\ g[s] = f[AnyOf(s)] + g[s \ {AnyOf(s)}]
  <1>1. g[s] = IF s = {} THEN 0 ELSE f[AnyOf(s)] + g[s \ {AnyOf(s)}]
    BY Zenon DEF IsSum
  <1>2. s # {} => AnyOf(s) \in s
    BY Zenon DEF AnyOf
  <1> QED BY <1>1, <1>2, Zenon

TakesOne(f, g, s) == AnyOf(s) \in s /\ g[s] = f[AnyOf(s)] + g[s \ {AnyOf(s)}]

LEMMA SumTakesOne ==
    ASSUME NEW f, NEW S, NEW g, IsSum(f, S, g), NEW s \in SUBSET S, s # {}
    PROVE  TakesOne(f, g, s)
  <1>1. s # {} => AnyOf(s) \in s /\ g[s] = f[AnyOf(s)] + g[s \ {AnyOf(s)}]
    BY SumSteps
  <1> QED BY <1>1, Zenon DEF TakesOne

\* A sum depends on its own elements and on no others.
LEMMA SumsAgree ==
    ASSUME NEW U, IsFiniteSet(U), NEW S, NEW T, U \subseteq S, U \subseteq T,
           NEW f, NEW g, IsSum(f, S, g), NEW h, IsSum(f, T, h)
    PROVE  g[U] = h[U]
  <1> DEFINE B == {s \in SUBSET U : g[s] # h[s]}
  <1> SUFFICES ASSUME B # {} PROVE FALSE
    BY Zenon
  <1>1. PICK s \in B : \A t \in B : t \subseteq s => t = s
    <2>1. B \subseteq SUBSET U
      BY Zenon
    <2> HIDE DEF B
    <2> QED BY <2>1, MinimalSubset
  <1>2. s \in SUBSET S /\ s \in SUBSET T /\ s \in SUBSET U /\ g[s] # h[s]
    BY <1>1, Zenon
  <1>3. s # {}
    BY <1>2, SumSteps, Zenon
  <1> DEFINE t == s \ {AnyOf(s)}
  <1>4. AnyOf(s) \in s /\ g[s] = f[AnyOf(s)] + g[t] /\ h[s] = f[AnyOf(s)] + h[t]
    BY <1>2, <1>3, SumSteps
  <1>5. t \in SUBSET U /\ t \subseteq s /\ t # s
    BY <1>2, <1>4, Zenon
  <1>6. g[t] = h[t]
    BY <1>1, <1>5, Zenon
  <1> QED BY <1>2, <1>4, <1>6, Zenon

\* The recursion defines a function: the sums of the smaller sets give it.
LEMMA SumExists ==
    ASSUME NEW U, IsFiniteSet(U), NEW f
    PROVE  IsSum(f, U, SumOf(f, U))
  <1> DEFINE Has(s) == \E g : IsSum(f, s, g)
             B == {s \in SUBSET U : ~Has(s)}
  <1>1. SUFFICES B = {}
    <2>1. U \in SUBSET U
      BY Zenon
    <2>2. Has(U)
      BY <1>1, <2>1, Zenon
    <2> QED BY <2>2, Zenon DEF SumOf
  <1>2. SUFFICES ASSUME B # {} PROVE FALSE
    BY Zenon
  <1>3. PICK s \in B : \A t \in B : t \subseteq s => t = s
    <2>1. B \subseteq SUBSET U
      BY Zenon
    <2> HIDE DEF B
    <2> QED BY <1>2, <2>1, MinimalSubset
  <1>4. \A t \in SUBSET s : t # s => IsSum(f, t, SumOf(f, t)) /\ IsFiniteSet(t)
    <2>1. \A t \in SUBSET s : t # s => Has(t)
      BY <1>3, Zenon
    <2>2. \A t \in SUBSET s : IsFiniteSet(t)
      BY <1>3, FS_Subset, Zenon
    <2> QED BY <2>1, <2>2, Zenon DEF SumOf
  <1> DEFINE h == [t \in SUBSET s |->
                     IF t = {} THEN 0
                     ELSE f[AnyOf(t)] + SumOf(f, t \ {AnyOf(t)})[t \ {AnyOf(t)}]]
  <1>5. ASSUME NEW t \in SUBSET s, t # s PROVE h[t] = SumOf(f, t)[t]
    <2>1. IsSum(f, t, SumOf(f, t)) /\ t \in SUBSET t
      BY <1>4, <1>5, Zenon
    <2>2. CASE t = {}
      BY <2>1, <2>2, SumSteps, Zenon
    <2>3. CASE t # {}
      <3> DEFINE u == t \ {AnyOf(t)}
      <3>1. AnyOf(t) \in t /\ SumOf(f, t)[t] = f[AnyOf(t)] + SumOf(f, t)[u]
        BY <2>1, <2>3, SumSteps
      <3>2. u \in SUBSET s /\ u # s /\ u \subseteq t /\ u \subseteq u
        BY <1>5, <3>1, Zenon
      <3>3. IsSum(f, u, SumOf(f, u)) /\ IsFiniteSet(u)
        BY <1>4, <3>2, Zenon
      <3>4. SumOf(f, t)[u] = SumOf(f, u)[u]
        <4> HIDE DEF u
        <4> QED BY <2>1, <3>2, <3>3, SumsAgree
      <3>5. h[t] = f[AnyOf(t)] + SumOf(f, u)[u]
        BY <2>3, Zenon
      <3> QED BY <3>1, <3>4, <3>5, Zenon
    <2> QED BY <2>2, <2>3, Zenon
  <1>6. \A t \in SUBSET s : t # {} => /\ t \ {AnyOf(t)} \in SUBSET s
                                      /\ t \ {AnyOf(t)} # s
    BY Zenon DEF AnyOf
  <1>7. h = [t \in SUBSET s |-> IF t = {} THEN 0 ELSE f[AnyOf(t)] + h[t \ {AnyOf(t)}]]
    <2>1. \A t \in SUBSET s : t # {} =>
             h[t \ {AnyOf(t)}] = SumOf(f, t \ {AnyOf(t)})[t \ {AnyOf(t)}]
      BY <1>5, <1>6, Zenon
    <2> QED BY <2>1, Zenon
  <1>8. Has(s)
    <2> HIDE DEF h
    <2> QED BY <1>7, Zenon DEF IsSum
  <1> QED BY <1>3, <1>8, Zenon

LEMMA ProductSum ==
    ASSUME NEW a \in Int, NEW p \in Int, NEW q \in Int
    PROVE  a * (p + q) = a * p + a * q /\ a * p \in Int /\ a * q \in Int
  OBVIOUS

LEMMA AddInequalities ==
    ASSUME NEW a \in Int, NEW b \in Int, NEW p \in Int, NEW q \in Int, NEW r \in Int, NEW s \in Int,
           a * p <= b * q, a * r <= b * s
    PROVE  p + r \in Int /\ q + s \in Int /\ a * (p + r) <= b * (q + s)
  <1> DEFINE ap == a * p
             ar == a * r
             bq == b * q
             bs == b * s
  <1>1. a * (p + r) = ap + ar /\ ap \in Int /\ ar \in Int
    BY ProductSum
  <1>2. b * (q + s) = bq + bs /\ bq \in Int /\ bs \in Int
    BY ProductSum
  <1>3. ap <= bq /\ ar <= bs
    OBVIOUS
  <1> HIDE DEF ap, ar, bq, bs
  <1> QED BY <1>1, <1>2, <1>3

\* What holds between the terms of two sums holds between the sums.
LEMMA SumsCompare ==
    ASSUME NEW U, IsFiniteSet(U), NEW f, NEW g, DOMAIN f = U, DOMAIN g = U,
           NEW a \in Int, NEW b \in Int,
           \A x \in U : f[x] \in Int /\ g[x] \in Int /\ a * f[x] <= b * g[x]
    PROVE  /\ SumFunction(f) \in Int /\ SumFunction(g) \in Int
           /\ a * SumFunction(f) <= b * SumFunction(g)
  <1> DEFINE F == SumOf(f, U)
             G == SumOf(g, U)
             Good(s) == F[s] \in Int /\ G[s] \in Int /\ a * F[s] <= b * G[s]
             B == {s \in SUBSET U : ~Good(s)}
  <1>1. IsSum(f, U, F) /\ IsSum(g, U, G) /\ SumFunction(f) = F[U] /\ SumFunction(g) = G[U]
    BY SumExists, SumIsFold, Zenon
  <1> HIDE DEF F, G
  <1>2. ASSUME B # {} PROVE FALSE
    <2>1. PICK s \in B : \A t \in B : t \subseteq s => t = s
      <3>1. B \subseteq SUBSET U
        BY Zenon
      <3> HIDE DEF B
      <3> QED BY <1>2, <3>1, MinimalSubset
    <2>2. s \in SUBSET U /\ ~Good(s)
      BY <2>1, Zenon
    <2>3. \A t \in SUBSET U : t \subseteq s /\ t # s => Good(t)
      BY <2>1, Zenon
    <2> HIDE DEF B
    <2>4. CASE s = {}
      <3>1. IsSum(f, U, F) /\ s \in SUBSET U
        BY <1>1, <2>2, Zenon
      <3>2. IsSum(g, U, G)
        BY <1>1, Zenon
      <3>3. F[s] = 0
        BY <2>4, <3>1, SumSteps, ZenonT(60)
      <3>4. G[s] = 0
        BY <2>4, <3>1, <3>2, SumSteps, ZenonT(60)
      <3> QED BY <2>2, <3>3, <3>4
    <2>5. CASE s # {}
      <3> DEFINE x == AnyOf(s)
                 t == s \ {x}
      <3>1. x \in s /\ F[s] = f[x] + F[t] /\ G[s] = g[x] + G[t]
        <4>1. s \in SUBSET U
          BY <2>2, Zenon
        <4>2. IsSum(f, U, F)
          BY <1>1, Zenon
        <4>3. IsSum(g, U, G)
          BY <1>1, Zenon
        <4>4. TakesOne(f, F, s)
          BY <2>5, <4>1, <4>2, SumTakesOne, Zenon
        <4>5. TakesOne(g, G, s)
          BY <2>5, <4>1, <4>3, SumTakesOne, Zenon
        <4> QED BY <4>4, <4>5, Zenon DEF TakesOne
      <3>2. t \in SUBSET U /\ t \subseteq s /\ t # s
        BY <2>2, <3>1, Zenon
      <3>3. F[t] \in Int /\ G[t] \in Int /\ a * F[t] <= b * G[t]
        <4> HIDE DEF t
        <4> QED BY <2>3, <3>2, Zenon
      <3>4. f[x] \in Int /\ g[x] \in Int /\ a * f[x] <= b * g[x]
        BY <2>2, <3>1, Zenon
      <3> HIDE DEF x, t
      <3>5. /\ f[x] + F[t] \in Int /\ g[x] + G[t] \in Int
            /\ a * (f[x] + F[t]) <= b * (g[x] + G[t])
        BY <3>3, <3>4, AddInequalities
      <3>6. Good(s)
        BY <3>1, <3>5, Zenon
      <3> QED BY <2>2, <3>6, Zenon
    <2> QED BY <2>4, <2>5
  <1>3. Good(U)
    BY <1>2, Zenon
  <1> QED BY <1>1, <1>3, Zenon

LEMMA SumIsWhole ==
    ASSUME NEW U, IsFiniteSet(U), NEW f, DOMAIN f = U, \A x \in U : f[x] \in Int
    PROVE  SumFunction(f) \in Int
  <1>1. 0 \in Int /\ \A x \in U : f[x] \in Int /\ f[x] \in Int /\ 0 * f[x] <= 0 * f[x]
    OBVIOUS
  <1> QED BY <1>1, SumsCompare, Zenon

\* The size of a set is a sum of ones.
LEMMA SumOfOnes ==
    ASSUME NEW U, IsFiniteSet(U), NEW one, one = [x \in U |-> 1]
    PROVE  SumFunction(one) = Cardinality(U)
  <1> DEFINE size == [s \in SUBSET U |-> Cardinality(s)]
  <1>1. ASSUME NEW s \in SUBSET U, s # {}
        PROVE  Cardinality(s) = one[AnyOf(s)] + size[s \ {AnyOf(s)}]
    <2>1. AnyOf(s) \in s
      BY <1>1, Zenon DEF AnyOf
    <2>2. IsFiniteSet(s)
      BY FS_Subset, Zenon
    <2>3. Cardinality(s \ {AnyOf(s)}) = Cardinality(s) - 1 /\ Cardinality(s) \in Nat
      BY <2>1, <2>2, FS_RemoveElement, FS_CardinalityType
    <2>4. one[AnyOf(s)] = 1 /\ size[s \ {AnyOf(s)}] = Cardinality(s \ {AnyOf(s)})
      BY <2>1, Zenon
    <2> HIDE DEF size
    <2> QED BY <2>3, <2>4
  <1>2. Cardinality({}) = 0
    BY FS_EmptySet
  <1>3. size = [s \in SUBSET U |-> IF s = {} THEN 0 ELSE one[AnyOf(s)] + size[s \ {AnyOf(s)}]]
    <2>1. \A s \in SUBSET U : Cardinality(s) =
             IF s = {} THEN 0 ELSE one[AnyOf(s)] + size[s \ {AnyOf(s)}]
      BY <1>1, <1>2, Zenon
    <2> QED BY <2>1, Zenon
  <1>4. size[U] = Cardinality(U)
    BY Zenon
  <1> HIDE DEF size
  <1>5. IsSum(one, U, size)
    BY <1>3, Zenon DEF IsSum
  <1>6. SumOf(one, U)[U] = size[U]
    <2>1. IsSum(one, U, SumOf(one, U)) /\ U \subseteq U
      BY SumExists, Zenon
    <2> QED BY <1>5, <2>1, SumsAgree
  <1>7. DOMAIN one = U
    BY Zenon
  <1> QED BY <1>4, <1>6, <1>7, SumIsFold, Zenon

-----------------------------------------------------------------------------
(* The median is one of the prices, or lies between two of them.            *)

LEMMA LeastNat ==
    ASSUME NEW T, T \subseteq Nat, T # {}
    PROVE  \E x \in T : \A y \in T : x <= y
  <1> DEFINE F == {1..x : x \in T}
  <1>1. F # {} /\ F \subseteq FiniteSubsetsOf(Nat)
    <2>1. \A x \in T : x \in Int /\ IsFiniteSet(1..x) /\ 1..x \subseteq Nat
      BY FS_Interval
    <2>2. F \subseteq FiniteSubsetsOf(Nat)
      BY <2>1, Zenon DEF FiniteSubsetsOf
    <2> QED BY <2>2, Zenon
  <1>2. PICK X \in F : \A Y \in F : ~(<<Y, X>> \in StrictSubsetOrdering(Nat))
    <2> HIDE DEF F
    <2> QED BY <1>1, FS_StrictSubsetOrderingWellFounded, WFMin
  <1>3. PICK x \in T : X = 1..x
    OBVIOUS
  <1>4. ASSUME NEW y \in T, ~(x <= y) PROVE FALSE
    <2>1. 1..y \in F /\ 1..y \subseteq X /\ 1..y # X /\ X \subseteq Nat
      BY <1>3, <1>4, x \in 1..x, x \notin 1..y
    <2> QED BY <2>1, <1>2, Zenon DEF StrictSubsetOrdering
  <1> QED BY <1>4

\* Finitely many numbers have a bound.
LEMMA FinitelyManyAreBounded ==
    ASSUME NEW D, IsFiniteSet(D), NEW v, \A s \in D : v[s] \in Nat
    PROVE  \E m \in Nat : \A s \in D : v[s] <= m
  <1> DEFINE Bounded(E) == \E m \in Nat : \A s \in E : v[s] <= m
             B == {E \in SUBSET D : ~Bounded(E)}
  <1>1. ASSUME B # {} PROVE FALSE
    <2>1. PICK E \in B : \A t \in B : t \subseteq E => t = E
      <3>1. B \subseteq SUBSET D
        BY Zenon
      <3> HIDE DEF B
      <3> QED BY <1>1, <3>1, MinimalSubset
    <2>2. E \in SUBSET D /\ ~Bounded(E)
      BY <2>1, Zenon
    <2>3. 0 \in Nat
      OBVIOUS
    <2>4. E # {}
      BY <2>2, <2>3, Zenon
    <2>5. PICK s \in E : TRUE
      BY <2>4, Zenon
    <2>6. Bounded(E \ {s})
      <3>1. E \ {s} \in SUBSET D /\ E \ {s} \subseteq E /\ E \ {s} # E
        BY <2>2, <2>5, Zenon
      <3> HIDE DEF Bounded
      <3> QED BY <2>1, <3>1, Zenon
    <2>7. PICK m \in Nat : \A r \in E \ {s} : v[r] <= m
      BY <2>6, Zenon
    <2>8. v[s] \in Nat /\ \A r \in E : v[r] \in Nat
      BY <2>2, <2>5, Zenon
    <2>9. m + v[s] \in Nat /\ \A r \in E : v[r] <= m + v[s]
      BY <2>7, <2>8
    <2> QED BY <2>2, <2>9, Zenon
  <1> QED BY <1>1, Zenon

\* Of n numbers there is an i-th in order, for every i up to n.
HasIth(D, v, i) ==
    \E s \in D : /\ Cardinality({r \in D : v[r] < v[s]}) < i
                 /\ i <= Cardinality({r \in D : v[r] <= v[s]})

LEMMA IthExists ==
    ASSUME NEW D, IsFiniteSet(D), NEW v, \A s \in D : v[s] \in Nat,
           NEW i \in Nat, 1 <= i, i <= Cardinality(D)
    PROVE  HasIth(D, v, i)
  <1> DEFINE UpTo(p) == {r \in D : v[r] <= p}
             T == {p \in Nat : i <= Cardinality(UpTo(p))}
  <1>1. \A p : IsFiniteSet(UpTo(p)) /\ Cardinality(UpTo(p)) \in Nat
    <2>1. \A p : IsFiniteSet(UpTo(p))
      BY FS_Subset, Zenon
    <2> HIDE DEF UpTo
    <2> QED BY <2>1, FS_CardinalityType
  <1>2. D # {}
    <2>1. Cardinality({}) = 0
      BY FS_EmptySet
    <2> QED BY <2>1
  <1>3. T # {}
    <2>1. PICK m \in Nat : \A s \in D : v[s] <= m
      BY FinitelyManyAreBounded
    <2>2. UpTo(m) = D
      BY <2>1, Zenon
    <2> QED BY <2>2, Zenon
  <1>4. PICK p \in T : \A q \in T : p <= q
    <2>1. T \subseteq Nat
      BY Zenon
    <2> HIDE DEF T
    <2> QED BY <1>3, <2>1, LeastNat, Zenon
  <1>5. p \in Nat /\ i <= Cardinality(UpTo(p))
    BY <1>4, Zenon
  <1>6. ASSUME NEW q \in Nat, q < p PROVE Cardinality(UpTo(q)) < i
    <2>1. q \notin T
      BY <1>4, <1>5, <1>6
    <2>2. ~(i <= Cardinality(UpTo(q)))
      BY <2>1, Zenon
    <2> HIDE DEF UpTo, T
    <2> QED BY <1>1, <2>2
  <1> DEFINE Below == {r \in D : v[r] < p}
  <1>7. Cardinality(Below) < i
    <2>1. CASE p = 0
      <3>1. Below = {}
        BY <2>1
      <3> QED BY <3>1, FS_EmptySet
    <2>2. CASE p # 0
      <3>1. p - 1 \in Nat /\ p - 1 < p
        BY <1>5, <2>2
      <3>2. \A r \in D : v[r] < p <=> v[r] <= p - 1
        BY <1>5
      <3>3. Below = UpTo(p - 1)
        BY <3>2, Zenon
      <3> HIDE DEF UpTo, T
      <3> QED BY <1>6, <3>1, <3>3
    <2> QED BY <2>1, <2>2
  <1>8. PICK s \in D : v[s] = p
    <2>1. ASSUME \A s \in D : v[s] # p PROVE FALSE
      <3>1. \A r \in D : v[r] <= p <=> v[r] < p
        BY <1>5, <2>1
      <3>2. UpTo(p) = Below
        BY <3>1, Zenon
      <3>3. Cardinality(Below) \in Nat
        BY <1>1, <3>2
      <3> HIDE DEF UpTo, Below, T
      <3> QED BY <1>5, <1>7, <3>2, <3>3
    <2> QED BY <2>1, Zenon
  <1> QED BY <1>5, <1>7, <1>8, Zenon DEF HasIth

LEMMA MedianIsWhole ==
    ASSUME NEW sample, IsFiniteSet(DOMAIN sample), DOMAIN sample # {},
           \A s \in DOMAIN sample : sample[s].price \in Nat
    PROVE  TwiceMedian(sample) \in Nat
  <1> DEFINE D == DOMAIN sample
             n == Cardinality(D)
             P == {sample[s].price : s \in D}
             At(i) == CHOOSE p \in P :
                        /\ Cardinality({s \in D : sample[s].price < p}) < i
                        /\ i <= Cardinality({s \in D : sample[s].price <= p})
             v == [s \in D |-> sample[s].price]
  <1>1. n \in Nat /\ n # 0
    BY FS_CardinalityType, FS_EmptySet
  <1>2. ASSUME NEW i \in Nat, 1 <= i, i <= n PROVE At(i) \in Nat
    <2>1. \A s \in D : v[s] = sample[s].price /\ v[s] \in Nat
      OBVIOUS
    <2>2. PICK s \in D : /\ Cardinality({r \in D : v[r] < v[s]}) < i
                         /\ i <= Cardinality({r \in D : v[r] <= v[s]})
      <3>1. i <= Cardinality(D) /\ IsFiniteSet(D) /\ \A s \in D : v[s] \in Nat
        BY <1>2, <2>1, Zenon
      <3> HIDE DEF v, D, P, At, n
      <3>2. HasIth(D, v, i)
        BY <1>2, <3>1, IthExists
      <3> QED BY <3>2, Zenon DEF HasIth
    <2> DEFINE p == sample[s].price
    <2>3. /\ {r \in D : v[r] < v[s]} = {r \in D : sample[r].price < p}
          /\ {r \in D : v[r] <= v[s]} = {r \in D : sample[r].price <= p}
      BY <2>1, Zenon
    <2>4. \E q \in P : /\ Cardinality({r \in D : sample[r].price < q}) < i
                       /\ i <= Cardinality({r \in D : sample[r].price <= q})
      BY <2>2, <2>3, Zenon
    <2>5. At(i) \in P
      BY <2>4, Zenon
    <2> HIDE DEF At
    <2> QED BY <2>5, Zenon
  <1>3. TwiceMedian(sample) =
          IF n % 2 = 1 THEN 2 * At((n + 1) \div 2) ELSE At(n \div 2) + At(n \div 2 + 1)
    BY Zenon DEF TwiceMedian
  <1> HIDE DEF n, P, At, v
  <1>4. CASE n % 2 = 1
    <2>1. (n + 1) \div 2 \in Nat /\ 1 <= (n + 1) \div 2 /\ (n + 1) \div 2 <= n
      BY <1>1, <1>4
    <2>2. At((n + 1) \div 2) \in Nat
      BY <1>2, <2>1
    <2> QED BY <1>3, <1>4, <2>2
  <1>5. CASE n % 2 # 1
    <2>1. /\ n \div 2 \in Nat /\ 1 <= n \div 2 /\ n \div 2 <= n
          /\ n \div 2 + 1 \in Nat /\ 1 <= n \div 2 + 1 /\ n \div 2 + 1 <= n
      BY <1>1, <1>5
    <2>2. At(n \div 2) \in Nat /\ At(n \div 2 + 1) \in Nat
      BY <1>2, <2>1
    <2> QED BY <1>3, <1>5, <2>2
  <1> QED BY <1>4, <1>5

-----------------------------------------------------------------------------
(* What the oracle aggregates: a robust price is near what one source that  *)
(* is not faulty has reported.                                              *)

LEMMA Cancel ==
    ASSUME NEW a \in Int, NEW b \in Int, NEW t \in Nat \ {0}
    PROVE  /\ a * t <= b * t => a <= b
           /\ a * t < b * t => a < b
  <1>1. ASSUME b < a PROVE b * t < a * t
    <2>1. PICK d \in Nat \ {0} : a = b + d
      <3>1. a - b \in Nat \ {0} /\ a = b + (a - b)
        BY <1>1
      <3> QED BY <3>1
    <2>2. a * t = b * t + d * t /\ d * t > 0 /\ b * t \in Int /\ d * t \in Int
      BY <2>1
    <2> QED BY <2>2
  <1>2. a * t \in Int /\ b * t \in Int
    OBVIOUS
  <1> QED BY <1>1, <1>2

\* The rounded mean of what is near is near.
LEMMA MeanIsNear ==
    ASSUME NEW sum \in Int, NEW t \in Nat \ {0}, NEW h \in Int,
           9 * sum <= (11 * h) * t, (9 * h) * t <= 11 * sum
    PROVE  Near(sum \div t, h)
  <1> DEFINE q == sum \div t
  <1>1. q \in Int /\ q * t <= sum /\ sum < q * t + t /\ q * t \in Int
    OBVIOUS
  <1> HIDE DEF q
  <1>2. (9 * q) * t <= (11 * h) * t
    <2>1. (9 * q) * t = 9 * (q * t) /\ (11 * h) * t \in Int
      BY <1>1
    <2> QED BY <1>1, <2>1
  <1>3. (9 * h) * t < (11 * (q + 1)) * t
    <2>1. (11 * (q + 1)) * t = 11 * (q * t + t) /\ (9 * h) * t \in Int
      BY <1>1
    <2> QED BY <1>1, <2>1
  <1>4. 9 * q \in Int /\ 11 * h \in Int /\ 9 * h \in Int /\ 11 * (q + 1) \in Int
    BY <1>1
  <1>5. 9 * q <= 11 * h
    BY <1>2, <1>4, Cancel
  <1>6. 9 * h < 11 * (q + 1)
    BY <1>3, <1>4, Cancel
  <1> QED BY <1>1, <1>4, <1>5, <1>6 DEF q, Near

LEMMA ProductOrder ==
    ASSUME NEW a \in Int, NEW b \in Int, NEW v \in Nat, a <= b
    PROVE  a * v <= b * v /\ a * v \in Int /\ b * v \in Int
  <1>1. PICK d \in Nat : b = a + d
    <2>1. b - a \in Nat /\ b = a + (b - a)
      OBVIOUS
    <2> QED BY <2>1
  <1>2. b * v = a * v + d * v /\ d * v \in Nat /\ a * v \in Int
    BY <1>1
  <1> QED BY <1>2

\* A weighted mean of what is near is near.
LEMMA WeightedMean ==
    ASSUME NEW U, IsFiniteSet(U), NEW f, NEW w, DOMAIN f = U, DOMAIN w = U, NEW h \in Int,
           \A x \in U : /\ f[x] \in Int /\ w[x] \in Int
                        /\ 9 * f[x] <= (11 * h) * w[x] /\ (9 * h) * w[x] <= 11 * f[x],
           SumFunction(w) > 0
    PROVE  Near(SumFunction(f) \div SumFunction(w), h)
  <1>1. 11 * h \in Int /\ 9 * h \in Int /\ 11 \in Int /\ 9 \in Int
    OBVIOUS
  <1>2. /\ SumFunction(f) \in Int /\ SumFunction(w) \in Int
        /\ 9 * SumFunction(f) <= (11 * h) * SumFunction(w)
    BY <1>1, SumsCompare, Zenon
  <1>3. (9 * h) * SumFunction(w) <= 11 * SumFunction(f)
    BY <1>1, SumsCompare, Zenon
  <1>4. SumFunction(w) \in Nat \ {0}
    BY <1>2
  <1> QED BY <1>2, <1>3, <1>4, MeanIsNear, Zenon

\* weighted_price, whether volumes are known or not.
LEMMA WeightedIsNear ==
    ASSUME NEW K, IsFiniteSet(K), K # {}, NEW sample, DOMAIN sample = K,
           \A s \in K : sample[s].price \in Nat /\ sample[s].volume \in Nat,
           NEW h \in Nat,
           \A s \in K : 9 * sample[s].price <= 11 * h /\ 9 * h <= 11 * sample[s].price
    PROVE  Near(weighted_price(sample), h)
  <1> DEFINE vol == [s \in K |-> sample[s].volume]
             val == [s \in K |-> sample[s].price * sample[s].volume]
             price == [s \in K |-> sample[s].price]
             one == [s \in K |-> 1]
             n == Cardinality(K)
  <1>1. weighted_price(sample) =
          IF SumFunction(vol) > 0 THEN SumFunction(val) \div SumFunction(vol)
                                  ELSE SumFunction(price) \div n
    BY Zenon DEF weighted_price
  <1>2. DOMAIN vol = K /\ DOMAIN val = K /\ DOMAIN price = K /\ DOMAIN one = K
    BY Zenon
  <1>3. SumFunction(one) = n /\ n \in Nat /\ n # 0
    <2>1. SumFunction(one) = n
      BY SumOfOnes, Zenon
    <2> QED BY <2>1, FS_CardinalityType, FS_EmptySet
  <1>4. ASSUME NEW s \in K
        PROVE  /\ val[s] \in Int /\ vol[s] \in Int
               /\ 9 * val[s] <= (11 * h) * vol[s] /\ (9 * h) * vol[s] <= 11 * val[s]
               /\ price[s] \in Int /\ one[s] \in Int
               /\ 9 * price[s] <= (11 * h) * one[s] /\ (9 * h) * one[s] <= 11 * price[s]
    <2> DEFINE p == sample[s].price
               v == sample[s].volume
    <2>1. p \in Nat /\ v \in Nat /\ 9 * p <= 11 * h /\ 9 * h <= 11 * p
      OBVIOUS
    <2>2. vol[s] = v /\ val[s] = p * v /\ price[s] = p /\ one[s] = 1
      OBVIOUS
    <2> HIDE DEF p, v, vol, val, price, one
    <2>3. (9 * p) * v <= (11 * h) * v /\ (9 * h) * v <= (11 * p) * v
      BY <2>1, ProductOrder
    <2>4. (9 * p) * v = 9 * (p * v) /\ (11 * p) * v = 11 * (p * v) /\ p * v \in Int
      BY <2>1
    <2> QED BY <2>1, <2>2, <2>3, <2>4
  <1>5. h \in Int
    OBVIOUS
  <1> HIDE DEF vol, val, price, one, n
  <1>6. CASE SumFunction(vol) > 0
    <2>1. Near(SumFunction(val) \div SumFunction(vol), h)
      BY <1>2, <1>4, <1>5, <1>6, WeightedMean, Zenon
    <2> QED BY <1>1, <1>6, <2>1, Zenon
  <1>7. CASE ~(SumFunction(vol) > 0)
    <2>1. SumFunction(one) > 0
      BY <1>3
    <2>2. Near(SumFunction(price) \div SumFunction(one), h)
      BY <1>2, <1>4, <1>5, <2>1, WeightedMean, ZenonT(60)
    <2> QED BY <1>1, <1>3, <1>7, <2>2, Zenon
  <1> QED BY <1>6, <1>7, Zenon

\* The mean of integers, rounded down, is one.
LEMMA WeightedIsWhole ==
    ASSUME NEW K, IsFiniteSet(K), K # {}, NEW sample, DOMAIN sample = K,
           \A s \in K : sample[s].price \in Int /\ sample[s].volume \in Int
    PROVE  weighted_price(sample) \in Int
  <1> DEFINE vol == [s \in K |-> sample[s].volume]
             val == [s \in K |-> sample[s].price * sample[s].volume]
             price == [s \in K |-> sample[s].price]
  <1>1. weighted_price(sample) =
          IF SumFunction(vol) > 0 THEN SumFunction(val) \div SumFunction(vol)
                                  ELSE SumFunction(price) \div Cardinality(K)
    BY Zenon DEF weighted_price
  <1>2. /\ DOMAIN vol = K /\ \A s \in K : vol[s] \in Int
        /\ DOMAIN val = K /\ \A s \in K : val[s] \in Int
        /\ DOMAIN price = K /\ \A s \in K : price[s] \in Int
    OBVIOUS
  <1> HIDE DEF vol, val, price
  <1>3. SumFunction(vol) \in Int /\ SumFunction(val) \in Int /\ SumFunction(price) \in Int
    BY <1>2, SumIsWhole, Zenon
  <1>4. Cardinality(K) \in Nat \ {0}
    BY FS_CardinalityType, FS_EmptySet
  <1> QED BY <1>1, <1>3, <1>4

\* Two prices that agree with the median differ by 11/9 at most.
LEMMA AgreeingPrices ==
    ASSUME NEW p \in Nat, NEW h \in Nat, NEW med \in Nat, Agrees(p, med), Agrees(h, med)
    PROVE  9 * p <= 11 * h
  BY DEF Agrees, AbsDiff

\* Of two sources one at least is not faulty.
LEMMA OneIsRight ==
    ASSUME NEW K, IsFiniteSet(K), Cardinality(K) >= MIN_SOURCES
    PROVE  K # {} /\ K \ Faulty # {}
  <1>1. Cardinality(K) > 1
    BY FaultAssumption, SampleAssumption, FS_CardinalityType
  <1>2. ASSUME NEW x, K \subseteq {x} PROVE FALSE
    <2>1. K = {} \/ K = {x}
      BY <1>2, Zenon
    <2>2. Cardinality({}) = 0
      BY FS_EmptySet, Zenon
    <2>3. Cardinality({x}) = 1
      BY FS_Singleton, Zenon
    <2> QED BY <1>1, <2>1, <2>2, <2>3
  <1>3. \A s, t \in Faulty : s = t
    BY FaultAssumption, Zenon
  <1>4. PICK x \in K : TRUE
    BY <1>2, Zenon
  <1>5. K \subseteq Faulty => K \subseteq {x}
    BY <1>3, Zenon
  <1> QED BY <1>2, <1>4, <1>5, Zenon

LEMMA SourcesAreFinite == IsFiniteSet(Sources)
  <1>1. IsFiniteSet({"mexc"} \cup {"bybit"} \cup {"gateio"})
    BY FS_Singleton, FS_Union, Zenon
  <1>2. Sources = {"mexc"} \cup {"bybit"} \cup {"gateio"}
    BY Zenon DEF Sources
  <1> QED BY <1>1, <1>2, Zenon

\* The samples robust_price keeps, and what it makes of them.
Kept(sample) ==
    LET valid == Restrict(sample, ValidSamples(sample))
    IN  {s \in ValidSamples(sample) : Agrees(valid[s].price, TwiceMedian(valid))}

LEMMA RobustPrice ==
    ASSUME NEW D \in SUBSET Sources, NEW sample, DOMAIN sample = D,
           \A s \in D : sample[s].price \in Int /\ sample[s].volume \in Int
    PROVE  \/ robust_price(sample) = 0
           \/ /\ robust_price(sample) = weighted_price(Restrict(sample, Kept(sample)))
              /\ IsFiniteSet(Kept(sample)) /\ Cardinality(Kept(sample)) >= MIN_SOURCES
              /\ Kept(sample) # {} /\ Kept(sample) \subseteq D
              /\ \A s \in Kept(sample) : sample[s].price \in Nat /\ sample[s].volume \in Nat
              /\ \E med \in Nat : \A s \in Kept(sample) : Agrees(sample[s].price, med)
  <1> DEFINE V == ValidSamples(sample)
             valid == Restrict(sample, V)
             med == TwiceMedian(valid)
             K == Kept(sample)
  <1>1. /\ K = {s \in V : Agrees(valid[s].price, med)}
        /\ DOMAIN valid = V /\ \A s \in V : valid[s] = sample[s]
    BY Zenon DEF Kept, Restrict
  <1>2. K \subseteq V /\ \A s \in K : Agrees(sample[s].price, med)
    BY <1>1, Zenon
  <1>3. Restrict(valid, K) = Restrict(sample, K)
    BY <1>1, <1>2, Zenon DEF Restrict
  <1>4. robust_price(sample) = IF Cardinality(V) < MIN_SOURCES \/ Cardinality(K) < MIN_SOURCES
                               THEN 0 ELSE weighted_price(Restrict(sample, K))
    <2>1. robust_price(sample) =
            IF Cardinality(DOMAIN valid) < MIN_SOURCES \/ Cardinality(K) < MIN_SOURCES
            THEN 0 ELSE weighted_price(Restrict(valid, K))
      BY <1>1, Zenon DEF robust_price
    <2> QED BY <1>1, <1>3, <2>1, Zenon
  <1>5. V \subseteq D /\ \A s \in V : sample[s].price \in Nat /\ sample[s].volume \in Nat
    BY DEF ValidSamples
  <1>6. IsFiniteSet(V) /\ IsFiniteSet(K)
    BY <1>2, <1>5, SourcesAreFinite, FS_Subset, ZenonT(60)
  <1> HIDE DEF V, valid, med, K
  <1>7. CASE ~(Cardinality(V) < MIN_SOURCES \/ Cardinality(K) < MIN_SOURCES)
    <2>1. Cardinality(K) >= MIN_SOURCES /\ Cardinality(K) # 0
      BY <1>6, <1>7, FS_CardinalityType, SampleAssumption
    <2>2. K # {} /\ V # {}
      BY <1>2, <2>1, FS_EmptySet
    <2>3. med \in Nat
      <3>1. \A r \in V : valid[r].price \in Nat
        BY <1>1, <1>5, Zenon
      <3> QED BY <1>1, <1>6, <2>2, <3>1, MedianIsWhole, Zenon DEF med
    <2> QED BY <1>2, <1>4, <1>5, <1>6, <1>7, <2>1, <2>2, <2>3, SMTT(30) DEF K
  <1> QED BY <1>4, <1>7, Zenon

LEMMA RobustIsWhole ==
    ASSUME NEW D \in SUBSET Sources, NEW sample, DOMAIN sample = D,
           \A s \in D : sample[s].price \in Int /\ sample[s].volume \in Int
    PROVE  robust_price(sample) \in Int
  <1> DEFINE K == Kept(sample)
             kept == Restrict(sample, K)
  <1>1. SUFFICES ASSUME robust_price(sample) # 0 PROVE robust_price(sample) \in Int
    OBVIOUS
  <1>2. /\ robust_price(sample) = weighted_price(kept) /\ IsFiniteSet(K) /\ K # {}
        /\ \A s \in K : sample[s].price \in Nat /\ sample[s].volume \in Nat
    BY <1>1, RobustPrice
  <1>3. DOMAIN kept = K /\ \A s \in K : kept[s] = sample[s]
    BY Zenon DEF Restrict
  <1> HIDE DEF K, kept
  <1>4. \A s \in K : kept[s].price \in Int /\ kept[s].volume \in Int
    BY <1>2, <1>3
  <1> QED BY <1>2, <1>3, <1>4, WeightedIsWhole

\* A robust price is near one that a source which is not faulty reported.
LEMMA RobustIsNear ==
    ASSUME NEW D \in SUBSET Sources, NEW sample, DOMAIN sample = D,
           \A s \in D : sample[s].price \in Int /\ sample[s].volume \in Int,
           robust_price(sample) > 0
    PROVE  \E s \in D \ Faulty : Near(robust_price(sample), sample[s].price)
  <1> DEFINE K == Kept(sample)
             kept == Restrict(sample, K)
  <1>1. robust_price(sample) # 0
    <2>1. ~(0 > 0)
      OBVIOUS
    <2> QED BY <2>1, Zenon
  <1>2. /\ robust_price(sample) = weighted_price(kept) /\ IsFiniteSet(K) /\ K # {}
        /\ Cardinality(K) >= MIN_SOURCES /\ K \subseteq D
        /\ \A s \in K : sample[s].price \in Nat /\ sample[s].volume \in Nat
        /\ \E med \in Nat : \A s \in K : Agrees(sample[s].price, med)
    BY <1>1, RobustPrice
  <1>3. DOMAIN kept = K /\ \A s \in K : kept[s] = sample[s]
    BY Zenon DEF Restrict
  <1> HIDE DEF K, kept
  <1>4. PICK s \in K : s \notin Faulty
    BY <1>2, OneIsRight, Zenon
  <1>5. PICK med \in Nat : \A r \in K : Agrees(sample[r].price, med)
    BY <1>2, Zenon
  <1> DEFINE h == sample[s].price
  <1>6. h \in Nat /\ Agrees(h, med)
    BY <1>2, <1>5
  <1>7. ASSUME NEW r \in K
        PROVE  /\ kept[r].price \in Nat /\ kept[r].volume \in Nat
               /\ 9 * kept[r].price <= 11 * h /\ 9 * h <= 11 * kept[r].price
    <2>1. kept[r].price \in Nat /\ kept[r].volume \in Nat /\ Agrees(kept[r].price, med)
      BY <1>2, <1>3, <1>5
    <2> HIDE DEF h
    <2> QED BY <1>6, <2>1, AgreeingPrices, SMTT(30)
  <1> HIDE DEF h
  <1>8. Near(weighted_price(kept), h)
    BY <1>2, <1>3, <1>6, <1>7, WeightedIsNear
  <1> QED BY <1>2, <1>4, <1>8, Zenon DEF h

\* What a source's answer is worth.
LEMMA SampleOf ==
    ASSUME NEW asked \in SUBSET Market, NEW s \in Sources, NEW x \in Samples(s, asked), x # None
    PROVE  x.price \in Int /\ x.volume \in Int /\ (s \notin Faulty => x.price \in asked)
  <1> DEFINE tickers == [last : asked, volume : {NaN} \cup {v \in Volumes : v >= 0}]
                        \cup IF s \in Faulty THEN [last : FaultyPrices, volume : Volumes] ELSE {}
             lists == {<<>>} \cup {<<t>> : t \in tickers}
  <1>1. x \in {mexc_single(t) : t \in tickers} \cup {gateio_single(l) : l \in lists}
              \cup {bybit_single(b) : b \in [ret_code : {0, 1}, list : lists]}
    BY DEF Samples, Sources
  <1>2. \A t \in tickers : t.last \in Int /\ t.volume \in Int /\ (s \notin Faulty => t.last \in asked)
    <2> DEFINE W == {NaN} \cup {v \in Volumes : v >= 0}
    <2>1. \A t \in [last : asked, volume : W] :
             t.last \in asked /\ t.last \in Int /\ t.volume \in Int
      <3>1. NaN \in Int
        BY DEF NaN
      <3>2. W \subseteq Int /\ asked \subseteq Int
        BY <3>1, SampleAssumption, Zenon
      <3> HIDE DEF W
      <3> QED BY <3>2, Zenon
    <2>2. \A t \in [last : FaultyPrices, volume : Volumes] : t.last \in Int /\ t.volume \in Int
      BY SampleAssumption, Zenon
    <2> QED BY <2>1, <2>2, Zenon
  <1>3. \E t \in tickers : x = parse(t)
    <2> HIDE DEF tickers
    <2>1. ASSUME NEW l \in lists, l # <<>> PROVE l[1] \in tickers
      BY <2>1
    <2> HIDE DEF lists
    <2>2. CASE \E t \in tickers : x = mexc_single(t)
      BY <2>2, Zenon DEF mexc_single
    <2>3. CASE \E l \in lists : x = gateio_single(l)
      BY <2>1, <2>3, Zenon DEF gateio_single
    <2>4. CASE \E b \in [ret_code : {0, 1}, list : lists] : x = bybit_single(b)
      <3>1. PICK b \in [ret_code : {0, 1}, list : lists] : x = bybit_single(b)
        BY <2>4, Zenon
      <3>2. b.list \in lists
        BY <3>1
      <3> QED BY <2>1, <3>1, <3>2, Zenon DEF bybit_single
    <2> QED BY <1>1, <2>2, <2>3, <2>4, Zenon
  <1> HIDE DEF tickers, lists
  <1>4. PICK t \in tickers : x = parse(t)
    BY <1>3, Zenon
  <1>5. x = [price |-> t.last, volume |-> IF t.volume = NaN THEN 0 ELSE t.volume]
    BY <1>4, Zenon DEF parse
  <1> QED BY <1>2, <1>5

\* What the oracle may aggregate comes from the samples of some sources.
LEMMA AggregatedFrom ==
    ASSUME NEW asked, NEW p, <<asked, p>> \in RobustPrices
    PROVE  \E D \in SUBSET Sources : \E sample :
             /\ p = robust_price(sample) /\ DOMAIN sample = D
             /\ \A s \in D : /\ sample[s].price \in Int /\ sample[s].volume \in Int
                             /\ s \notin Faulty => sample[s].price \in asked
  <1>1. PICK A \in SUBSET Market :
          \E f \in [Sources -> UNION {Samples(s, A) : s \in Sources}] :
            /\ \A s \in Sources : f[s] \in Samples(s, A)
            /\ <<asked, p>> = <<A, robust_price([s \in {r \in Sources : f[r] # None} |-> f[s]])>>
    BY Zenon DEF RobustPrices
  <1>2. PICK f \in [Sources -> UNION {Samples(s, A) : s \in Sources}] :
            /\ \A s \in Sources : f[s] \in Samples(s, A)
            /\ <<asked, p>> = <<A, robust_price([s \in {r \in Sources : f[r] # None} |-> f[s]])>>
    BY <1>1, Zenon
  <1> DEFINE D == {r \in Sources : f[r] # None}
             sample == [s \in D |-> f[s]]
  <1>3. asked = A /\ p = robust_price(sample)
    BY <1>2
  <1>4. DOMAIN sample = D /\ D \in SUBSET Sources /\ \A s \in D : sample[s] = f[s]
    BY Zenon
  <1>5. ASSUME NEW s \in D
        PROVE  /\ sample[s].price \in Int /\ sample[s].volume \in Int
               /\ s \notin Faulty => sample[s].price \in asked
    <2>1. s \in Sources /\ f[s] \in Samples(s, A) /\ f[s] # None /\ sample[s] = f[s]
      BY <1>2, <1>4, Zenon
    <2> HIDE DEF D, sample
    <2> QED BY <1>3, <2>1, SampleOf
  <1> HIDE DEF D, sample
  <1> QED BY <1>3, <1>4, <1>5, Zenon

LEMMA MeansAreWhole == AggregatesWhole
  <1> SUFFICES ASSUME NEW asked, NEW p, <<asked, p>> \in RobustPrices PROVE p \in Int
    BY Zenon DEF AggregatesWhole
  <1>1. PICK D \in SUBSET Sources : \E sample :
             /\ p = robust_price(sample) /\ DOMAIN sample = D
             /\ \A s \in D : /\ sample[s].price \in Int /\ sample[s].volume \in Int
                             /\ s \notin Faulty => sample[s].price \in asked
    BY AggregatedFrom, Zenon
  <1>2. PICK sample :
             /\ p = robust_price(sample) /\ DOMAIN sample = D
             /\ \A s \in D : /\ sample[s].price \in Int /\ sample[s].volume \in Int
                             /\ s \notin Faulty => sample[s].price \in asked
    BY <1>1, Zenon
  <1>3. robust_price(sample) \in Int
    BY <1>2, RobustIsWhole
  <1> QED BY <1>2, <1>3, Zenon

LEMMA MeansAreNear == AggregatesNear
  <1> SUFFICES ASSUME NEW asked, NEW p, <<asked, p>> \in RobustPrices, p > 0
               PROVE  \E m \in asked : Near(p, m)
    BY Zenon DEF AggregatesNear
  <1>1. PICK D \in SUBSET Sources : \E sample :
             /\ p = robust_price(sample) /\ DOMAIN sample = D
             /\ \A s \in D : /\ sample[s].price \in Int /\ sample[s].volume \in Int
                             /\ s \notin Faulty => sample[s].price \in asked
    BY AggregatedFrom, Zenon
  <1>2. PICK sample :
             /\ p = robust_price(sample) /\ DOMAIN sample = D
             /\ \A s \in D : /\ sample[s].price \in Int /\ sample[s].volume \in Int
                             /\ s \notin Faulty => sample[s].price \in asked
    BY <1>1, Zenon
  <1>3. PICK s \in D \ Faulty : Near(robust_price(sample), sample[s].price)
    BY <1>2, RobustIsNear, Zenon
  <1> QED BY <1>2, <1>3, Zenon

-----------------------------------------------------------------------------
(* The two theorems about prices.                                           *)

\* No quote and no counter commitment pays out more than the deposit is worth
\* less the configured spread but for one basis point, for any tokens, prices
\* and spread, and whichever way the cast of the spread is cut (create_proposal,
\* build_counter_commitment, amount_out, rescale).
THEOREM SpreadIsKept == Spec => []LpKeepsItsSpread
  <1>1. SpreadInv => LpKeepsItsSpread
    BY Zenon DEF SpreadInv, Priced, LpKeepsItsSpread
  <1>2. WholePrices /\ [Next]_vars => WholePrices'
    BY WholePricesStep, MeansAreWhole
  <1>3. Spec => []WholePrices
    BY <1>2, WholePricesInit, PTL DEF Spec
  <1> QED BY <1>1, <1>3, SpreadInit, SpreadNext, PTL DEF Spec

\* With one faulty source at most, a price the storage hands out is within
\* the factor 11/9 of what the market asked not longer ago than the maximum
\* age and the longest fetch together, whatever the market, the volumes and
\* the faulty source do (robust_price, PriceStorage::get and set, with_retry).
THEOREM PricesAreNear == Spec => []PricedNearMarket
  <1>1. MarketInv /\ [Next]_vars => MarketInv'
    BY MarketStep, MeansAreNear
  <1> QED BY <1>1, MarketInit, MarketImpliesNear, PTL DEF Spec

=============================================================================
