------------------------------- MODULE MCSmtp -------------------------------
(* Smtp with two probers, who make two connections between them.            *)
EXTENDS Smtp
=============================================================================
