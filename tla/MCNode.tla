------------------------------- MODULE MCNode -------------------------------
(***************************************************************************)
(* Around the swap engine: prices and quotes (Quotes) between Kaspa and    *)
(* Igra, which share a token but not its decimals; the browser gateway     *)
(* (Gateway); and the daemon over its database (Daemon).  Each is a small  *)
(* instance of its own.                                                    *)
(***************************************************************************)
EXTENDS Quotes, Gateway, Daemon

MCChannels == {"kaspa", "igra"}
MCSymbol == [c \in MCChannels |-> "KAS"]
MCUnit == [c \in MCChannels |-> IF c = "kaspa" THEN 1 ELSE 10]
MCVolumes == {-2, 0, 3}
MCUtxos == {[u \in {} |-> 0], [u \in 1..2 |-> 60 * u]}
MCConfirmations == [c \in MCChannels |-> 1]
MCLockTime == [c \in MCChannels |-> IF c = "kaspa" THEN 3 ELSE 1]
MCRequests == {[origin |-> "kaspa", destination |-> "igra", amount |-> 7],
               [origin |-> "igra", destination |-> "kaspa", amount |-> 101]}

\* Configurations of an LP, some of them refused, and of a taker on one channel.
Full == [key |-> "good", ccr |-> TRUE, confirmations |-> 1, fields |-> TRUE]
Lp(buffer, channels) ==
    [lp |-> TRUE, buffer |-> buffer, trade |-> TRUE, peers |-> {"p0"}, channels |-> channels]
Both(ch) == [c \in MCChannels |-> ch]
MCConfigs ==
    {Lp({3}, Both(Full)), Lp({}, Both(Full)),
     Lp({3}, Both([Full EXCEPT !.ccr = FALSE])), Lp({3}, Both([Full EXCEPT !.key = "bad"])),
     [Lp({1}, [c \in {"igra"} |-> Full]) EXCEPT !.lp = FALSE]}

\* Pages: the defaults, one without Kaspa, one with a chain nobody knows.
MCPages == [observer_channels : {{}, {{"igra"}}, {{"kaspa", "doge"}}}, bootstrap_peers : {{}}]

VARIABLE part       \* which of the three is looked at

Looking(p) == part = p /\ UNCHANGED part

MCInit ==
    /\ part \in {"quotes", "gateway", "daemon"}
    /\ Init /\ GatewayInit /\ DaemonInit
    /\ part # "quotes" => \A y \in Symbols : market[y] = 100

MCNext ==
    \/ Looking("quotes") /\ Next /\ UNCHANGED <<gatewayVars, daemonVars>>
    \/ Looking("gateway") /\ GatewayNext /\ UNCHANGED <<vars, daemonVars>>
    \/ Looking("daemon") /\ DaemonNext /\ UNCHANGED <<vars, gatewayVars>>

MCSpec == MCInit /\ [][MCNext]_<<part, vars, gatewayVars, daemonVars>>

=============================================================================
