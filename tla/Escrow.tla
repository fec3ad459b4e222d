------------------------------- MODULE Escrow -------------------------------
(***************************************************************************)
(* What a user's wallet promises to the requests that spend it.  Funds lie  *)
(* in an account.  A request may set part of them aside once (Open) and     *)
(* gives them back once, paying some cost out of the account (Close).       *)
(* Nobody, neither another request nor an administrator, can take funds     *)
(* that are set aside for a request.  There is no counter here: what is     *)
(* available is what the holds leave.  Module Wallet keeps a counter in a   *)
(* database row instead, and implements this module.                        *)
(***************************************************************************)
EXTENDS Integers, FiniteSets

CONSTANTS Requests,     \* requests that may hold funds
          MaxAmount,    \* bound on one hold, one cost, one deposit
          MaxBalance    \* bound on the funds

VARIABLES funds,        \* the money of the account
          hold,         \* hold[r]: what request r has set aside
          opened        \* the requests that have ever opened a hold

vars == <<funds, hold, opened>>

Amounts == 1 .. MaxAmount

(* The units set aside: <<r, i>> is the i-th unit held for request r.  Their *)
(* number is the sum of the holds.                                           *)
Units == {u \in Requests \X Amounts : u[2] <= hold[u[1]]}

Held == Cardinality(Units)

Init == /\ funds \in 0 .. MaxBalance
        /\ hold = [r \in Requests |-> 0]
        /\ opened = {}

Open(r) == \E amount \in Amounts :
  /\ r \notin opened
  /\ Held + amount <= funds
  /\ hold' = [hold EXCEPT ![r] = amount]
  /\ opened' = opened \cup {r}
  /\ UNCHANGED funds

Close(r) == \E cost \in 0 .. MaxAmount :
  /\ hold[r] > 0
  /\ funds - cost >= Held - hold[r]
  /\ funds' = funds - cost
  /\ hold' = [hold EXCEPT ![r] = 0]
  /\ UNCHANGED opened

Deposit == \E amount \in Amounts :
  /\ funds' = funds + amount
  /\ UNCHANGED <<hold, opened>>

Withdraw == \E amount \in Amounts :
  /\ funds - amount >= Held
  /\ funds' = funds - amount
  /\ UNCHANGED <<hold, opened>>

Next == (\E r \in Requests : Open(r) \/ Close(r)) \/ Deposit \/ Withdraw

Spec == Init /\ [][Next]_vars

=============================================================================
