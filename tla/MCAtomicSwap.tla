---------------------------- MODULE MCAtomicSwap ----------------------------
(***************************************************************************)
(* AtomicSwap from Igra, an EVM chain with a synthetic clock, to Kaspa.    *)
(***************************************************************************)
EXTENDS AtomicSwap

Igra == [c \in Channels |-> c = "A"]
=============================================================================
