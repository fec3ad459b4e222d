--------------------------- MODULE MCAccountPool ---------------------------
(* Safety: one account, two of whose slots three requests compete for, and    *)
(* whose circuit the first failure opens, so that the two others meet its    *)
(* probe.  A slot that is lost: two accounts and a Threshold of 2, so that    *)
(* a success comes between two failures.                                     *)
EXTENDS AccountPool, TLC

CONSTANTS a1, a2

Limits == [a \in Accounts |-> IF a = a1 THEN 2 ELSE 1]

Symmetry == Permutations(Requests)

(* No crash and no failing transaction; clients may go away.                 *)
ClientsLeaveSpec ==
  Init /\ [][\/ \E r \in Requests : RouteStep(r) \/ RetryAborted(r)
             \/ \E a \in Accounts : TimeStep(a)]_vars

=============================================================================
