---------------------------- MODULE MCNorthbound ----------------------------
(* Two calls and one account that can serve both, with two requests of       *)
(* quota.  The configurations send the two calls with the same request id or *)
(* with different ones, and make one, none or both a stream.                 *)
EXTENDS Northbound, TLC

CONSTANTS a1, a2, c1, c2, i1, i2

Limits == [a \in Accounts |-> 2]

SameId == [c \in Calls |-> i1]

OwnIds == (c1 :> i1) @@ (c2 :> i2)

=============================================================================
