------------------------------ MODULE MCLettings ------------------------------
(* Finite instances of Lettings, and the claims of its comments it is tested on. *)
EXTENDS Lettings

\* "whatever it had contributed reverts -- the money never actually arrived"
\* (PaymentService::markBounced): rent that counts as paid has been received.
BouncedMoneyStaysReverted ==
    \A l \in Leases :
        instalment[l] # None /\ instalment[l].status = "paid" =>
            received[l] >= instalment[l].due + instalment[l].penalty

\* "a unit only stays OCCUPIED because of the lease that just ended"
\* (LeaseService::terminate): no other lease in force covers a unit it vacates.
TerminationVacatesOwnUnits ==
    [][\A l, m \in Leases :
          l # m /\ Terminate(l) /\ lease[m].status \in {"draft", "pending_attestation", "active"}
              => lease[l].units \cap lease[m].units = {}]_vars
=============================================================================
