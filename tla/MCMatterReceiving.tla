--------------------------- MODULE MCMatterReceiving ---------------------------
(* A finite instance of MatterReceiving.  Liveness is checked: no symmetry. *)
EXTENDS MatterReceiving

\* "Going through the service is the whole point"
\* (ConfirmMatterReceivingForUnacceptedMail): the automatic approval of a
\* request that proposes a date gives that date to the matter.
ConfirmingAppliesTheDate ==
    [][\A r \in Requests :
          (Confirm(r) /\ row[r].proposed # None) => date' = row[r].proposed]_vars

=============================================================================
