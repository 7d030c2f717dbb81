------------------------------- MODULE MCRfq -------------------------------
(* A taker, an LP and an observer, all linked: a relayed copy of a message  *)
(* may overtake the direct one, and one link may break.                     *)
EXTENDS Rfq

CONSTANTS t, l, o

MCNode == {t, l, o}
MCLp == {l}
MCLinks == {{t, l}, {t, o}, {l, o}}
=============================================================================
