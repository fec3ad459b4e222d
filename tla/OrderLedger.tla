---------------------------- MODULE OrderLedger ----------------------------
(***************************************************************************)
(* What the payment handlers promise of an order that tops up a wallet,      *)
(* without events, handlers or administrators: it is credited at most once,  *)
(* in the step that makes it paid; a closed order stays closed; and what was *)
(* paid is taken back at most once, in the step that makes it refunded.      *)
(***************************************************************************)
EXTENDS Naturals

CONSTANTS Orders,
          Worth         \* [Orders -> what a paid order adds to the wallet]

VARIABLES status, credits, reversals

vars == <<status, credits, reversals>>

Count(o) == IF Worth[o] > 0 THEN 1 ELSE 0

Init == /\ status = [o \in Orders |-> "pending"]
        /\ credits = [o \in Orders |-> 0]
        /\ reversals = [o \in Orders |-> 0]

Turn(o, to) == status' = [status EXCEPT ![o] = to]

Pay(o) == /\ status[o] = "pending"
          /\ Turn(o, "paid")
          /\ credits' = [credits EXCEPT ![o] = @ + Count(o)]
          /\ UNCHANGED reversals

Close(o) == /\ status[o] = "pending"
            /\ Turn(o, "failed") \/ Turn(o, "canceled")
            /\ UNCHANGED <<credits, reversals>>

Block(o) == /\ status[o] = "paid"
            /\ Turn(o, "refund_blocked")
            /\ UNCHANGED <<credits, reversals>>

Refund(o) == /\ status[o] \in {"paid", "refund_blocked"}
             /\ Turn(o, "refunded")
             /\ reversals' = [reversals EXCEPT ![o] = @ + Count(o)]
             /\ UNCHANGED credits

Next == \E o \in Orders : Pay(o) \/ Close(o) \/ Block(o) \/ Refund(o)

Spec == Init /\ [][Next]_vars

=============================================================================
