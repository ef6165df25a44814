-------------------------- MODULE MCLoanRepayment --------------------------
(* Every principal up to 40 units over every term up to 8 months. *)
EXTENDS LoanRepayment

MCPrincipals == 1..40
MCTerms == 1..8
=============================================================================
