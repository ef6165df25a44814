--------------------------- MODULE MCLeaveRequests ---------------------------
(* A month of two days, a year of two months: a first and a second service year.
   And the claim of the queue that LeaveRequests is tested on.                   *)
EXTENDS LeaveRequests, TLC

MCJoined == [e \in Employees |-> 1]
MCOpening == [e \in Employees |-> 9]
MCRanges == {<<2, 3>>, <<5, 5>>}

\* Nothing tells requests, sessions or employees apart.
Symmetry == Permutations(RequestIds) \cup Permutations(Sessions)
                \cup Permutations(Employees)

\* "A decided request is a record of a decision, not a draft.  Editing one after
\* approval would leave the leave ledger describing days the request no longer
\* claims." (EditLeaveRequest::mount, the one place that looks at the status)
DecidedRequestIsARecord ==
    [][\A r \in RequestIds :
          request[r] # None /\ request[r].status # "pending" =>
              /\ request'[r].party = request[r].party
              /\ request'[r].from = request[r].from
              /\ request'[r].to = request[r].to]_vars
=============================================================================
