------------------------------ MODULE MCBulkMail ------------------------------
(* A finite instance of BulkMail.  Liveness is checked: no symmetry. *)
EXTENDS BulkMail
=============================================================================
