---------------------------- MODULE MCPayrollRaces ----------------------------
(* Finite instances of PayrollRaces, and the claim it is tested on. *)
EXTENDS PayrollRaces

\* "A disbursed run cannot be reopened." (PayrollRunService::returnToDraft)
DisbursedStaysDisbursed ==
    [][\A p \in Periods :
          run[p].status = "disbursed" => run'[p].status = "disbursed"]_raceVars
=============================================================================
