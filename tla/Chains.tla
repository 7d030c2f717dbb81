------------------------------- MODULE Chains -------------------------------
(* What the quotes and the daemon both know of the chains of this build.    *)

CONSTANTS
    Channels,    \* the channels the code knows
    Evm,         \* those of them on an EVM chain
    LockTime     \* [Channels -> Nat]: ChannelId::lock_time_secs
=============================================================================
