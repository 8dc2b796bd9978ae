----------------------------- MODULE MCBufqueue -----------------------------
(* Bufqueue with three checks.                                             *)
EXTENDS Bufqueue

CONSTANTS c1, c2, c3

MCCheck == {c1, c2, c3}
=============================================================================
