----------------------------- MODULE MCDelivery -----------------------------
(* Delivery with two checks, and the quotients of small amounts that       *)
(* big.Float rounds.                                                       *)
EXTENDS Delivery, TLC

MCRoundedUp   == {<<3, 5>>}
MCRoundedDown == {<<53, 100>>}

Symmetry == Permutations(Check)
=============================================================================
