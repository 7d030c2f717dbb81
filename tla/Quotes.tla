------------------------------- MODULE Quotes -------------------------------
(***************************************************************************)
(* From exchange tickers to money: the oracle polls its sources, keeps a   *)
(* robust price per channel in the price storage, the LP's coordinator     *)
(* quotes from that storage, the taker checks the signed quote and         *)
(* deposits, and the LP's driver prices the deposit AGAIN when it builds   *)
(* the counter commitment.  The oracle writes the channels one by one and  *)
(* both readers take the two prices of a pair one after the other, so each *)
(* read and each write is a step of its own.                               *)
(*                                                                         *)
(* Prices are integers in units of 10^-PRICE_DECIMALS dollars: the         *)
(* rounding amount_out does on use is done when the price is stored.       *)
(* Amounts are far from 64 bits, so the checked operations of amount_out   *)
(* do not fail and either kind of chain parses them.  A signature is known *)
(* by the key and the digest it was made with.  Time is the node's clock.  *)
(* One request, one deposit.                                               *)
(***************************************************************************)
EXTENDS Integers, FiniteSets, Functions, Chains

CONSTANTS
    Symbols,         \* ticker symbols
    Symbol,          \* [Channels -> Symbols]: KaspaTn10 and IgraGalleon share one
    Unit,            \* [Channels -> Nat]: 10^decimals of the native token
    Confirmations,   \* [Channels -> Nat]: minimum_block_confirmations
    Faulty,          \* sources that may answer anything
    Market,          \* prices the market may take
    FaultyPrices,    \* what a faulty source may report
    Volumes,         \* 24 h volumes a source may report; a faulty one, negative ones
    MAX_AGE,         \* DEFAULT_MAX_AGE_SECS
    FETCH_TIME,      \* longest with_retry: 3 attempts of 30 s and 2 pauses
    MIN_SOURCES,
    SpreadPercent,   \* spread_percent in hundredths of a basis point
    spread_bps,      \* what (spread_percent * 100.0) as u32 makes of it
    MIN_USD, MAX_USD, COMMIT_BUFFER,
    Requests,        \* what a taker may ask: [origin, destination, amount in base units]
    Balances,        \* balances the LP's EVM account may show
    Utxos,           \* unspent outputs its Kaspa address may show: id -> amount
    MaxTime          \* bound on the clock

ASSUME ChannelsAssumption ==
    /\ Symbol \in [Channels -> Symbols]
    /\ Unit \in [Channels -> Nat \ {0}]
    /\ \A c, d \in Channels : Unit[c] <= Unit[d] => Unit[d] % Unit[c] = 0
\* The product is one of doubles, cut to a whole number: 0.29 gives 28.
ASSUME SpreadAssumption ==
    /\ SpreadPercent \in Nat /\ SpreadPercent < 1000000
    /\ spread_bps \in Nat
    /\ 100 * spread_bps <= SpreadPercent /\ SpreadPercent <= 100 * spread_bps + 100
ASSUME LockAssumption == LockTime \in [Channels -> Nat] /\ COMMIT_BUFFER \in Nat
ASSUME SampleAssumption ==
    /\ Market \subseteq Int /\ FaultyPrices \subseteq Int /\ Volumes \subseteq Int
    /\ MIN_SOURCES \in Nat \ {0} /\ MAX_AGE \in Nat /\ FETCH_TIME \in Nat
\* A node, unlike a browser, asks for two sources that agree; one is not faulty.
ASSUME FaultAssumption == MIN_SOURCES > 1 /\ \A s, t \in Faulty : s = t
ASSUME RequestsAssumption ==
    \A r \in Requests : r.origin \in Channels /\ r.destination \in Channels /\ r.amount \in Nat

VARIABLES
    now,
    market,      \* symbol -> its price on the market
    lastSeen,    \* symbol -> price -> when the market last had it (-1: never)
    prices,      \* PriceStorage: channel -> [price, ts], on the channels set so far
    oracle,      \* the update in progress
    lp,          \* the proposal the coordinator works on
    quote,       \* the response the LP sent
    checked,     \* the CheckedQuote the taker got
    deposit,     \* the taker's commitment
    driver       \* the counter commitment the driver works on

quoteVars == <<lp, quote, checked, deposit, driver>>
vars == <<now, market, lastSeen, prices, oracle, lp, quote, checked, deposit, driver>>

None == [is |-> "none"]
Empty == [x \in {} |-> 0]
OracleIdle(t) == [is |-> "idle", at |-> t, todo |-> Empty]

-----------------------------------------------------------------------------
(* The robust price of a symbol from the samples [price, volume] of the     *)
(* sources, a function on the sources that answered.                        *)

AbsDiff(a, b) == IF a > b THEN a - b ELSE b - a

\* Twice the median, so that the mean of the two middle prices is an integer.
TwiceMedian(sample) ==
    LET n == Cardinality(DOMAIN sample)
        Below(p) == Cardinality({s \in DOMAIN sample : sample[s].price < p})
        UpTo(p) == Cardinality({s \in DOMAIN sample : sample[s].price <= p})
        At(i) == CHOOSE p \in {sample[s].price : s \in DOMAIN sample} :
                    Below(p) < i /\ i <= UpTo(p)
    IN  IF n % 2 = 1 THEN 2 * At((n + 1) \div 2) ELSE At(n \div 2) + At(n \div 2 + 1)

weighted_price(sample) ==
    LET total == SumFunction([s \in DOMAIN sample |-> sample[s].volume])
    IN  IF total > 0
        THEN SumFunction([s \in DOMAIN sample |-> sample[s].price * sample[s].volume]) \div total
        ELSE SumFunction([s \in DOMAIN sample |-> sample[s].price])
               \div Cardinality(DOMAIN sample)

\* MAX_DEVIATION is a tenth of the median.
Agrees(p, twiceMed) == AbsDiff(2 * p, twiceMed) * 10 <= twiceMed

ValidSamples(sample) == {s \in DOMAIN sample : sample[s].price > 0 /\ sample[s].volume >= 0}

\* Mutant: samples far from the median are weighed in.
robust_price_of_all(sample) ==
    LET valid == Restrict(sample, ValidSamples(sample))
    IN  IF Cardinality(DOMAIN valid) < MIN_SOURCES THEN 0 ELSE weighted_price(valid)

\* Zero stands for no price.
robust_price(sample) ==
    LET valid == Restrict(sample, ValidSamples(sample))
        kept == {s \in DOMAIN valid : Agrees(valid[s].price, TwiceMedian(valid))}
    IN  IF Cardinality(DOMAIN valid) < MIN_SOURCES \/ Cardinality(kept) < MIN_SOURCES
        THEN 0
        ELSE weighted_price(Restrict(valid, kept))

-----------------------------------------------------------------------------
(* PriceStorage.                                                            *)

\* Zero stands for None: never set, or older than the maximum age.
get(c) == IF c \in DOMAIN prices /\ now - prices[c].ts <= MAX_AGE THEN prices[c].price ELSE 0

\* A jump of more than half the last price is refused while that one is fresh.
JumpsTooFar(c, p) == get(c) > 0 /\ AbsDiff(p, get(c)) * 2 > get(c)

set(c, p) ==
    prices' = IF p <= 0 \/ JumpsTooFar(c, p) THEN prices
              ELSE [d \in DOMAIN prices \cup {c} |->
                       IF d = c THEN [price |-> p, ts |-> now] ELSE prices[d]]

-----------------------------------------------------------------------------
(* Amounts.                                                                 *)

rescale(amount, from, to) ==
    IF Unit[to] > Unit[from] THEN amount * (Unit[to] \div Unit[from])
                             ELSE amount \div (Unit[from] \div Unit[to])

Multiplier == 10000 - spread_bps

\* Mutant: the division by the price rounds up.
amount_out_rounds_up(amount, sp, from, dp, to) ==
    rescale((((amount * sp + dp - 1) \div dp) * Multiplier) \div 10000, from, to)

amount_out(amount, sp, from, dp, to) ==
    rescale((((amount * sp) \div dp) * Multiplier) \div 10000, from, to)

\* The dollar value of an amount against the LP's limits.
TooSmall(amount, c, price) == amount * price < MIN_USD * Unit[c]
TooLarge(amount, c, price) == amount * price > MAX_USD * Unit[c]

\* Mutant: the buffer is asked for when the deposit is checked, not when it is quoted.
required_init_lock_secs_late(c, withBuffer) ==
    LockTime[c] * 2 + (IF withBuffer THEN 0 ELSE COMMIT_BUFFER)

required_init_lock_secs(c, withBuffer) ==
    LockTime[c] * 2 + (IF withBuffer THEN COMMIT_BUFFER ELSE 0)

-----------------------------------------------------------------------------
Init ==
    /\ now = 0
    /\ market \in [Symbols -> Market]
    /\ lastSeen = [y \in Symbols |-> [p \in Market |-> IF p = market[y] THEN 0 ELSE -1]]
    /\ prices = Empty
    /\ oracle = OracleIdle(-1)
    /\ lp = None /\ quote = None /\ checked = None /\ deposit = None /\ driver = None

\* A source that has not answered by the end of its retries counts as failed, so
\* a round does not outlast them.
with_retry == oracle.is = "fetching" => now - oracle.at < FETCH_TIME

\* A second passes and the markets move.
Tick ==
    /\ now < MaxTime
    /\ with_retry
    /\ oracle.is # "setting"
    /\ now' = now + 1
    /\ market' \in [Symbols -> Market]
    /\ lastSeen' = [y \in Symbols |-> [p \in Market |->
                       IF p \in {market[y], market'[y]} THEN now + 1 ELSE lastSeen[y][p]]]
    /\ UNCHANGED <<prices, oracle, quoteVars>>

-----------------------------------------------------------------------------
(* The oracle.                                                              *)

\* The loop sleeps at least a second between two rounds.
StartRound ==
    /\ oracle.is = "idle" /\ oracle.at < now
    /\ oracle' = [is |-> "fetching", at |-> now, todo |-> Empty]
    /\ UNCHANGED <<now, market, lastSeen, prices, quoteVars>>

\* A source's text is a price and a volume; what is not a number is NaN.  A price
\* that is none or not positive is an error, a volume that is none counts as zero.
NaN == -1
parse(ticker) ==
    IF ticker.last <= 0 THEN None
    ELSE [price |-> ticker.last, volume |-> IF ticker.volume = NaN THEN 0 ELSE ticker.volume]

mexc_single(ticker) == parse(ticker)
gateio_single(tickers) == IF tickers = <<>> THEN None ELSE parse(tickers[1])
bybit_single(body) ==
    IF body.ret_code # 0 \/ body.list = <<>> THEN None ELSE parse(body.list[1])

\* The sample of each source for a symbol whose market asked these prices during
\* the round; a faulty one says anything, and None stands for a failed fetch.
Sources == {"mexc", "bybit", "gateio"}
Samples(s, asked) ==
    LET tickers == [last : asked, volume : {NaN} \cup {v \in Volumes : v >= 0}]
                   \cup IF s \in Faulty THEN [last : FaultyPrices, volume : Volumes] ELSE {}
        lists == {<<>>} \cup {<<t>> : t \in tickers}
    IN  {None} \cup
        CASE s = "mexc" -> {mexc_single(t) : t \in tickers}
          [] s = "gateio" -> {gateio_single(l) : l \in lists}
          [] s = "bybit" -> {bybit_single(b) : b \in [ret_code : {0, 1}, list : lists]}

\* The robust prices, zero for none, the joined answers of the sources may
\* give for a symbol: the pairs of what the market asked and the price.
RobustPrices ==
    UNION {{<<asked, robust_price([s \in {r \in Sources : sample[r] # None} |-> sample[s]])>> :
               sample \in {f \in [Sources -> UNION {Samples(s, asked) : s \in Sources}] :
                             \A s \in Sources : f[s] \in Samples(s, asked)}} :
           asked \in SUBSET Market}

\* A channel without a robust price is left out; when all are, the last prices stay.
aggregate ==
    /\ oracle.is = "fetching"
    /\ \E price \in [Symbols -> {r[2] : r \in RobustPrices}] :
         /\ \A y \in Symbols :
               <<{p \in Market : lastSeen[y][p] >= oracle.at}, price[y]>> \in RobustPrices
         /\ LET priced == {c \in Channels : price[Symbol[c]] > 0}
            IN  oracle' = IF priced = {} THEN OracleIdle(now)
                          ELSE [is |-> "setting", at |-> now,
                                todo |-> [c \in priced |-> price[Symbol[c]]]]
    /\ UNCHANGED <<now, market, lastSeen, prices, quoteVars>>

update_all_prices(c) ==
    /\ oracle.is = "setting" /\ c \in DOMAIN oracle.todo
    /\ set(c, oracle.todo[c])
    /\ oracle' = IF DOMAIN oracle.todo = {c} THEN OracleIdle(now)
                 ELSE [oracle EXCEPT !.todo = Restrict(@, DOMAIN @ \ {c})]
    /\ UNCHANGED <<now, market, lastSeen, quoteVars>>

-----------------------------------------------------------------------------
(* Signing a proposal and checking it.  An answer is what the chain knows   *)
(* of the address asked for, None when the calls failed; None is also an    *)
(* error returned.                                                          *)

PrivateKey == "lp"

evm_address(key) == [chain |-> "evm", version |-> "account", key |-> key]
kaspa_address(key) == [chain |-> "kaspa", version |-> "PubKey", key |-> key]
lp_address(c) == IF c \in Evm THEN evm_address(PrivateKey) ELSE kaspa_address(PrivateKey)

Answers(c) ==
    {None} \cup IF c \in Evm THEN [is : {"account"}, balance : Balances]
                             ELSE [is : {"outputs"}, utxos : Utxos]

evm_query_balance(answer) == answer.balance
kaspa_query_balance(answer) == SumFunction(answer.utxos)

\* What the signature covers: everything in the response but the swap's id, of
\* which there is one.
proposal_digest(p, sender, confirmations) ==
    <<p.origin, p.destination, p.amount_in, p.amount_out, p.sender_destination, sender,
      p.offset, confirmations>>

\* Neither chain signs for more than the key's own balance.
evm_sign(key, digest, required, answer) ==
    IF answer = None \/ evm_query_balance(answer) < required THEN None
    ELSE [is |-> "signature", key |-> key, over |-> digest]
kaspa_sign(key, digest, required, answer) ==
    IF answer = None \/ kaspa_query_balance(answer) < required THEN None
    ELSE [is |-> "signature", key |-> key, over |-> digest]

evm_sign_message(key, digest, required, answer) ==
    IF key = "none" THEN None ELSE evm_sign(key, digest, required, answer)
kaspa_sign_message(key, digest, required, answer) ==
    IF key = "none" THEN None ELSE kaspa_sign(key, digest, required, answer)
sign_message(c, key, digest, required, answer) ==
    IF c \in Evm THEN evm_sign_message(key, digest, required, answer)
                 ELSE kaspa_sign_message(key, digest, required, answer)

\* On an EVM chain the signer is recovered from the signature and compared; on
\* Kaspa the key is in the address, if that pays to a public key.
evm_verify_lp_signature(digest, claimed, signature) ==
    claimed = IF signature.over = digest THEN evm_address(signature.key) ELSE None
kaspa_verify_lp_signature(digest, claimed, signature) ==
    signature.key = claimed.key /\ signature.over = digest

Verification(matches, sufficient) == [address_matches |-> matches, balance_sufficient |-> sufficient]
evm_verify(digest, claimed, signature, required, answer) ==
    IF answer = None THEN Verification(FALSE, FALSE)
    ELSE Verification(evm_verify_lp_signature(digest, claimed, signature),
                      evm_query_balance(answer) >= required)
kaspa_verify(digest, claimed, signature, required, answer) ==
    IF claimed.version # "PubKey" \/ answer = None THEN Verification(FALSE, FALSE)
    ELSE Verification(kaspa_verify_lp_signature(digest, claimed, signature),
                      kaspa_query_balance(answer) >= required)
verify_message(c, digest, claimed, signature, required, answer) ==
    IF c \in Evm THEN evm_verify(digest, claimed, signature, required, answer)
                 ELSE kaspa_verify(digest, claimed, signature, required, answer)

-----------------------------------------------------------------------------
(* The LP's coordinator answers a request.                                  *)

Rejected == [is |-> "rejected"]

\* create_proposal up to the price of the origin.
ReadOrigin(req) ==
    /\ lp = None
    /\ lp' = IF get(req.origin) = 0 THEN Rejected
             ELSE [is |-> "priced", origin |-> req.origin, destination |-> req.destination,
                   amount |-> req.amount, sp |-> get(req.origin)]
    /\ UNCHANGED <<now, market, lastSeen, prices, oracle, quote, checked, deposit, driver>>

\* The rest of it: the proposal is the LP's side of the swap, so origin and
\* destination, and the amounts, change places.
create_proposal ==
    /\ lp.is = "priced"
    /\ LET dp == get(lp.destination)
       IN  lp' = IF \/ dp = 0
                    \/ TooSmall(lp.amount, lp.origin, lp.sp)
                    \/ TooLarge(lp.amount, lp.origin, lp.sp)
                 THEN Rejected
                 ELSE [is |-> "proposal", sp |-> lp.sp, dp |-> dp,
                       origin |-> lp.destination, destination |-> lp.origin,
                       amount_out |-> lp.amount,
                       amount_in |-> amount_out(lp.amount, lp.sp, lp.origin,
                                                dp, lp.destination),
                       sender_destination |-> lp_address(lp.origin),
                       offset |-> required_init_lock_secs(lp.destination, TRUE)]
    /\ UNCHANGED <<now, market, lastSeen, prices, oracle, quote, checked, deposit, driver>>

\* The digest is signed on the chain the LP pays on; without a signature the
\* request goes unanswered.
handle_proposal(answer) ==
    /\ lp.is = "proposal"
    /\ LET sender == lp_address(lp.origin)
           confirmations == Confirmations[lp.destination]
           signature == sign_message(lp.origin, PrivateKey,
                            proposal_digest(lp, sender, confirmations), lp.amount_in, answer)
       IN  quote' = IF signature = None THEN quote
                    ELSE [is |-> "quote", proposal |-> lp, lp_sender |-> sender,
                          lp_confirmations |-> confirmations, lp_signature |-> signature]
    /\ lp' = Rejected
    /\ UNCHANGED <<now, market, lastSeen, prices, oracle, checked, deposit, driver>>

-----------------------------------------------------------------------------
(* The taker.                                                               *)

knows_channel(c) == c \in DOMAIN Confirmations

\* The digest is computed again from the response, and the balance read again.
\* The quote is turned back to the taker's side.
on_proposal_response(answer) ==
    /\ quote.is = "quote" /\ checked = None
    /\ LET p == quote.proposal
           verified == verify_message(p.origin,
                           proposal_digest(p, quote.lp_sender, quote.lp_confirmations),
                           quote.lp_sender, quote.lp_signature, p.amount_in, answer)
       IN  /\ knows_channel(p.origin) /\ knows_channel(p.destination)
           /\ checked' = [is |-> "checked", origin |-> p.destination,
                          destination |-> p.origin, amount_in |-> p.amount_out,
                          amount_out |-> p.amount_in, offset |-> p.offset,
                          signature_valid |-> verified.address_matches,
                          balance_sufficient |-> verified.balance_sufficient]
    /\ UNCHANGED <<now, market, lastSeen, prices, oracle, lp, quote, deposit, driver>>

\* The taker accepts: it registers the commitment, expecting the quoted amount,
\* and its deposit is on the chain at once or a while later.
Deposit ==
    /\ checked.is = "checked" /\ deposit = None
    /\ checked.signature_valid /\ checked.balance_sufficient /\ checked.amount_out > 0
    /\ deposit' = [is |-> "deposit", source |-> checked.origin,
                   destination |-> checked.destination, amount |-> checked.amount_in,
                   expected |-> checked.amount_out, at |-> now,
                   unlock_ts |-> now + checked.offset]
    /\ UNCHANGED <<now, market, lastSeen, prices, oracle, lp, quote, checked, driver>>

-----------------------------------------------------------------------------
(* The LP's driver prices the confirmed deposit.                            *)

Refused(why, sp) == [is |-> "refused", why |-> why, at |-> now, sp |-> sp]

\* build_counter_commitment up to the check of the trade's size.
ReadSource ==
    /\ deposit.is = "deposit" /\ driver = None
    /\ LET sp == get(deposit.source)
       IN  driver' = IF sp = 0 THEN Refused("price", 0)
                     ELSE IF \/ TooSmall(deposit.amount, deposit.source, sp)
                             \/ TooLarge(deposit.amount, deposit.source, sp)
                     THEN Refused("amount", sp)
                     ELSE [is |-> "priced", sp |-> sp]
    /\ UNCHANGED <<now, market, lastSeen, prices, oracle, lp, quote, checked, deposit>>

\* The rest of it; a chain may not know its time yet.
build_counter_commitment(clocked) ==
    /\ driver.is = "priced"
    /\ LET dp == get(deposit.destination)
           remaining == IF deposit.unlock_ts > now THEN deposit.unlock_ts - now ELSE 0
       IN  driver' =
             IF dp = 0 THEN Refused("price", driver.sp)
             ELSE IF ~clocked THEN Refused("clock", driver.sp)
             ELSE IF remaining < required_init_lock_secs(deposit.destination, FALSE)
             THEN Refused("lock", driver.sp)
             ELSE [is |-> "counter", sp |-> driver.sp, dp |-> dp, at |-> now,
                   amount |-> amount_out(deposit.amount, driver.sp, deposit.source,
                                         dp, deposit.destination),
                   unlock_ts |-> now + LockTime[deposit.destination]]
    /\ UNCHANGED <<now, market, lastSeen, prices, oracle, lp, quote, checked, deposit>>

-----------------------------------------------------------------------------
OracleStep ==
    \/ StartRound
    \/ aggregate
    \/ \E c \in Channels : update_all_prices(c)

LpStep ==
    \/ \E req \in Requests : ReadOrigin(req)
    \/ create_proposal
    \/ lp.is = "proposal" /\ \E a \in Answers(lp.origin) : handle_proposal(a)
    \/ ReadSource
    \/ \E clocked \in BOOLEAN : build_counter_commitment(clocked)

TakerStep ==
    \/ quote.is = "quote" /\ \E a \in Answers(quote.proposal.origin) : on_proposal_response(a)
    \/ Deposit

Next == Tick \/ OracleStep \/ LpStep \/ TakerStep

Spec == Init /\ [][Next]_vars

-----------------------------------------------------------------------------
(* Properties.                                                              *)

\* What a symbol cost at some moment of the last n seconds.
Recent(y, n) == {p \in Market : lastSeen[y][p] >= 0 /\ now - lastSeen[y][p] <= n}

(***************************************************************************)
(* With at most one faulty source, a price the storage hands out is within *)
(* the factor 11/9 of what the market asked not longer ago than the        *)
(* maximum age and the longest fetch together.  The factor is what two     *)
(* remaining sources may differ by when each is within a tenth of their    *)
(* mean; the age runs from the moment the price is STORED, so the time the *)
(* retries took comes on top.  (robust_price, PriceStorage::get and set,   *)
(* with_retry)                                                             *)
(***************************************************************************)
PricedNearMarket ==
    \A c \in Channels :
        get(c) > 0 =>
            /\ \E m \in Recent(Symbol[c], MAX_AGE + FETCH_TIME) : 9 * get(c) <= 11 * m
            /\ \E m \in Recent(Symbol[c], MAX_AGE + FETCH_TIME) : 11 * (get(c) + 1) > 9 * m

\* The configured spread in basis points, rounded up, less one.
LeastSpread == (SpreadPercent + 99) \div 100 - 1

\* What the LP pays is worth no more, at the prices used, than what it gets
\* less that spread.
PaysAtMost(paid, dp, to, got, sp, from) ==
    paid * dp * 10000 * Unit[from] <= got * sp * (10000 - LeastSpread) * Unit[to]

(***************************************************************************)
(* Neither a quote nor a counter commitment pays out more than the value   *)
(* of the deposit less the configured spread but for one basis point,      *)
(* which the cast of the spread may cost; whatever the decimals of the two *)
(* tokens, every other rounding of amount_out and rescale is in the LP's   *)
(* favour.                                                                 *)
(***************************************************************************)
LpKeepsItsSpread ==
    /\ quote.is = "quote" =>
         LET p == quote.proposal
         IN  PaysAtMost(p.amount_in, p.dp, p.origin, p.amount_out, p.sp, p.destination)
    /\ driver.is = "counter" =>
         PaysAtMost(driver.amount, driver.dp, deposit.destination,
                    deposit.amount, driver.sp, deposit.source)

(***************************************************************************)
(* A quote is honoured: a deposit made on a checked quote is refused for   *)
(* its lock time only when it is handled later than the commit buffer, for *)
(* its size only when the price moved, and a counter built from the quoted *)
(* prices pays what the taker expects; and the taker never sees an LP's    *)
(* own quote as badly signed, except when the chain did not answer it.     *)
(* The quote and the counter, like the signed and the checked digest, are  *)
(* computed by two functions, on opposite sides of the exchange of origin  *)
(* and destination.  (create_proposal, handle_proposal,                    *)
(* on_proposal_response, verify_message, build_counter_commitment)         *)
(***************************************************************************)
QuoteIsHonoured ==
    /\ driver.is = "refused" =>
         /\ driver.why = "lock" => driver.at - deposit.at > COMMIT_BUFFER
         /\ driver.why = "amount" => driver.sp # quote.proposal.sp
    /\ driver.is = "counter" /\ driver.sp = quote.proposal.sp /\ driver.dp = quote.proposal.dp =>
         driver.amount = deposit.expected
    /\ checked.is = "checked" /\ ~checked.signature_valid => ~checked.balance_sufficient

=============================================================================
