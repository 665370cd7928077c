------------------------------ MODULE MCOutbox ------------------------------
(* Outbox on small instances.                                                *)
EXTENDS Outbox

CONSTANTS f1, f2

=============================================================================
