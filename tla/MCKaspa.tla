------------------------------ MODULE MCKaspa ------------------------------
(***************************************************************************)
(* Kaspa: the ledger with its scripts and the wallet, and the channel's    *)
(* tasks, each on a small instance of its own.                             *)
(***************************************************************************)
EXTENDS KaspaLedger, KaspaChannel

CONSTANTS deposit, long, counter, taker, x1, x2, x3, h1, h2, h3

\* Deposits of the taker, claimable by this node, one under a secret of 33 bytes,
\* and this node's counter leg.  The unlock times 1 s and 33 s are 1000 and 33000
\* ms: the second needs a byte for the sign.  The destinations 17 and 0 are a data
\* push and an opcode.
Deposited(id, hash) ==
    [swap_id |-> id, sender |-> taker, receiver |-> us,
     sender_destination |-> Bytes(42, taker), secret_hash |-> hash,
     unlock_ts |-> 33, destination |-> 17, amount |-> 50000000]
MCCommitments ==
    deposit :> Deposited(deposit, h1)
    @@ long :> Deposited(long, h3)
    @@ counter :> [swap_id |-> counter, sender |-> us, receiver |-> taker,
                sender_destination |-> Bytes(42, us), secret_hash |-> h2,
                unlock_ts |-> 1, destination |-> 0, amount |-> 100000000]

MCSecret == deposit :> Bytes(32, x1) @@ long :> Bytes(33, x3) @@ counter :> Bytes(32, x2)
MCSha256 == x1 :> h1 @@ x2 :> h2 @@ x3 :> h3

Coin(i, owner, n, mined, daa) ==
    [id |-> i, spk |-> owner, amount |-> n, is_coinbase |-> mined, block_daa_score |-> daa]

\* Two coins of this node, one fresh from mining, and one of another settler.
MCWallet == {Coin(1, us, 80000000, FALSE, 0), Coin(2, us, 70000000, TRUE, 1),
             Coin(3, other, 5000000, FALSE, 0)}

MCDeposits == {4000000, 50000000}
MCBudgets ==
    LET Bounded(d, l, c) ==
            [deposits |-> deposit :> d @@ long :> l @@ counter :> 0,
             foreign |-> 1, commits |-> c]
    IN  {Bounded(2, 0, 0), Bounded(1, 0, 1), Bounded(0, 1, 0)}
MCFeeRates == {2, 200000}
MCClock == <<999, 1000, 1001, 33001>>

VARIABLE part       \* which of the two is looked at

\* Announcements and reveals heard, and kills, together.
MaxDisturbances == 2

Looking(p) == part = p /\ UNCHANGED part

MCInit ==
    /\ part \in {"ledger", "channel"}
    /\ Init /\ ChannelInit
    /\ part = "ledger" => own = "no"
    /\ part = "channel" => budget.deposits[long] = 1

MCNext ==
    \/ Looking("ledger") /\ Next /\ UNCHANGED channelVars
    \/ Looking("channel") /\ ChannelNext /\ gossip' + crashes' <= MaxDisturbances /\ UNCHANGED vars

MCSpec == MCInit /\ [][MCNext]_<<part, vars, channelVars>> /\ Fairness
=============================================================================
