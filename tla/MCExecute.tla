----------------------------- MODULE MCExecute -----------------------------
(* Execute with up to two handlers and three incidents.                    *)
EXTENDS Execute

=============================================================================
