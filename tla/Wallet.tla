------------------------------- MODULE Wallet -------------------------------
(***************************************************************************)
(* One row of wallet_accounts and the northbound requests that reserve and  *)
(* settle against it (northbound.go), with the other writers of the row:    *)
(* administrators, redeem codes, payments and refunds.                      *)
(*                                                                         *)
(* Every operation is one database transaction that updates the row under   *)
(* its lock and appends to wallet_ledgers, so each is one action.  Between   *)
(* the transactions of one request the others run freely, a transaction can *)
(* fail (its error is dropped by every caller) and the process can crash.   *)
(***************************************************************************)
EXTENDS Integers, FiniteSets

CONSTANTS Requests,     \* northbound requests of the wallet's user
          MaxAmount,    \* bound on one reservation, cost, credit or debit
          MaxBalance    \* bound on the balance

ASSUME WalletAssumption == /\ IsFiniteSet(Requests)
                           /\ MaxAmount \in Nat
                           /\ MaxBalance \in Nat

VARIABLES balance,      \* wallet_accounts.balance
          reserved,     \* wallet_accounts.reserved_balance
          stage,        \* where the handler of each request is
          hold,         \* what each request has added to reserved and not taken back
          entries       \* wallet_ledgers, the rows of northbound requests

vars == <<balance, reserved, stage, hold, entries>>

Amounts == 1 .. MaxAmount

Larger(a, b) == IF a >= b THEN a ELSE b

(* The handler of a request has not reached reserveWallet, carries a         *)
(* reservationInfo, or has returned (or died).  While it is "open", hold[r]  *)
(* is reservationInfo.Amount; 0 stands for a reservationInfo without         *)
(* WalletID, which releasing and settling ignore.                            *)
Stages == {"new", "open", "done"}

Entry(kind, r) == [kind |-> kind, request |-> r]

EntryKinds == {"reserve", "release", "debit"}

TypeOK == /\ balance \in Nat
          /\ reserved \in Nat
          /\ stage \in [Requests -> Stages]
          /\ hold \in [Requests -> 0 .. MaxAmount]
          /\ entries \subseteq [kind : EntryKinds, request : Requests]

Init == /\ balance \in 0 .. MaxBalance
        /\ reserved = 0
        /\ stage = [r \in Requests |-> "new"]
        /\ hold = [r \in Requests |-> 0]
        /\ entries = {}

-----------------------------------------------------------------------------
(* reserveWallet *)

(* The estimate is 0 (free model, or a request on the user's own account):   *)
(* no row is touched and the reservation has no wallet.                      *)
ReserveNothing(r) ==
  /\ stage[r] = "new"
  /\ stage' = [stage EXCEPT ![r] = "open"]
  /\ UNCHANGED <<balance, reserved, hold, entries>>

(* Seeded bug: the UPDATE compares with the balance, not with what is free.  *)
AddToReserved_IgnoresReserved(r, amount) ==
  /\ balance >= amount
  /\ reserved' = reserved + amount
  /\ hold' = [hold EXCEPT ![r] = amount]
  /\ entries' = entries \cup {Entry("reserve", r)}
  /\ UNCHANGED balance

(* The conditional UPDATE and the 'reserve' ledger row, committed.           *)
AddToReserved(r, amount) ==
  /\ balance - reserved >= amount
  /\ reserved' = reserved + amount
  /\ hold' = [hold EXCEPT ![r] = amount]
  /\ entries' = entries \cup {Entry("reserve", r)}
  /\ UNCHANGED balance

ReserveWallet(r, amount) ==
  /\ stage[r] = "new"
  /\ AddToReserved(r, amount)
  /\ stage' = [stage EXCEPT ![r] = "open"]

(* The transaction commits but its acknowledgement is lost: the handler sees *)
(* an error, rejects the request and never releases.                         *)
ReserveUnacknowledged(r, amount) ==
  /\ stage[r] = "new"
  /\ AddToReserved(r, amount)
  /\ stage' = [stage EXCEPT ![r] = "done"]

(* No row matches the UPDATE: "insufficient_balance".                        *)
ReserveRefused(r, amount) ==
  /\ stage[r] = "new"
  /\ balance - reserved < amount
  /\ stage' = [stage EXCEPT ![r] = "done"]
  /\ UNCHANGED <<balance, reserved, hold, entries>>

-----------------------------------------------------------------------------
(* releaseReservation: no guard on the row, the counter is cut off at zero.  *)

(* Seeded bug: the release gives back money that was never taken.            *)
ReleaseReservation_Refunds(r) ==
  /\ stage[r] = "open"
  /\ hold[r] > 0
  /\ balance' = balance + hold[r]
  /\ reserved' = Larger(reserved - hold[r], 0)
  /\ hold' = [hold EXCEPT ![r] = 0]
  /\ entries' = entries \cup {Entry("release", r)}
  /\ stage' = [stage EXCEPT ![r] = "done"]

ReleaseReservation(r) ==
  /\ stage[r] = "open"
  /\ hold[r] > 0
  /\ reserved' = Larger(reserved - hold[r], 0)
  /\ hold' = [hold EXCEPT ![r] = 0]
  /\ entries' = entries \cup {Entry("release", r)}
  /\ stage' = [stage EXCEPT ![r] = "done"]
  /\ UNCHANGED balance

-----------------------------------------------------------------------------
(* settleReservation, with the cost computed from the answer's usage         *)

SettlementFits(r, cost) == balance - cost >= Larger(reserved - hold[r], 0)

(* Seeded bug: the UPDATE of a settlement has lost its guard.                *)
SettleReservation_Unguarded(r, cost) ==
  /\ stage[r] = "open"
  /\ hold[r] > 0
  /\ balance' = balance - cost
  /\ reserved' = Larger(reserved - hold[r], 0)
  /\ hold' = [hold EXCEPT ![r] = 0]
  /\ entries' = IF cost > 0 THEN entries \cup {Entry("debit", r)} ELSE entries
  /\ stage' = [stage EXCEPT ![r] = "done"]

(* Seeded bug: a settlement takes the cost but leaves the reservation.       *)
SettleReservation_KeepsReserved(r, cost) ==
  /\ stage[r] = "open"
  /\ hold[r] > 0
  /\ balance - cost >= reserved
  /\ balance' = balance - cost
  /\ hold' = [hold EXCEPT ![r] = 0]
  /\ entries' = IF cost > 0 THEN entries \cup {Entry("debit", r)} ELSE entries
  /\ stage' = [stage EXCEPT ![r] = "done"]
  /\ UNCHANGED reserved

(* Seeded bug: the handler still holds its reservation after settling and    *)
(* may release it too.                                                       *)
SettleReservation_StaysOpen(r, cost) ==
  /\ stage[r] = "open"
  /\ hold[r] > 0
  /\ SettlementFits(r, cost)
  /\ balance' = balance - cost
  /\ reserved' = Larger(reserved - hold[r], 0)
  /\ entries' = IF cost > 0 THEN entries \cup {Entry("debit", r)} ELSE entries
  /\ UNCHANGED <<hold, stage>>

(* A cost of 0 writes no ledger row.                                         *)
SettleReservation(r, cost) ==
  /\ stage[r] = "open"
  /\ hold[r] > 0
  /\ SettlementFits(r, cost)
  /\ balance' = balance - cost
  /\ reserved' = Larger(reserved - hold[r], 0)
  /\ hold' = [hold EXCEPT ![r] = 0]
  /\ entries' = IF cost > 0 THEN entries \cup {Entry("debit", r)} ELSE entries
  /\ stage' = [stage EXCEPT ![r] = "done"]

(* "Wallet balance became insufficient before settlement.": the transaction  *)
(* rolls back and no caller releases the reservation afterwards.             *)
SettleRefused(r, cost) ==
  /\ stage[r] = "open"
  /\ hold[r] > 0
  /\ ~ SettlementFits(r, cost)
  /\ stage' = [stage EXCEPT ![r] = "done"]
  /\ UNCHANGED <<balance, reserved, hold, entries>>

(* Releasing or settling a reservation without a wallet returns at once.     *)
CloseNothing(r) ==
  /\ stage[r] = "open"
  /\ hold[r] = 0
  /\ stage' = [stage EXCEPT ![r] = "done"]
  /\ UNCHANGED <<balance, reserved, hold, entries>>

(* The transaction of a release or of a settlement fails and rolls back: the *)
(* error is dropped or logged, and the handler returns.                      *)
CloseFails(r) ==
  /\ stage[r] = "open"
  /\ hold[r] > 0
  /\ stage' = [stage EXCEPT ![r] = "done"]
  /\ UNCHANGED <<balance, reserved, hold, entries>>

(* The gateway process stops: its handlers die with their reservationInfo,   *)
(* and nothing at startup or later repairs reserved_balance.                 *)
Crash ==
  /\ \E r \in Requests : stage[r] = "open"
  /\ stage' = [r \in Requests |-> IF stage[r] = "open" THEN "done" ELSE stage[r]]
  /\ UNCHANGED <<balance, reserved, hold, entries>>

-----------------------------------------------------------------------------
(* The other writers of the row *)

(* Administrator's credit or adjustment, redeem code, paid order,            *)
(* subscription credit: balance + amount.                                    *)
CreditWallet(amount) ==
  /\ balance + amount <= MaxBalance
  /\ balance' = balance + amount
  /\ UNCHANGED <<reserved, stage, hold, entries>>

(* Administrator's debit and the reversal of a refunded order.               *)
DebitWallet(amount) ==
  /\ balance - amount >= reserved
  /\ balance' = balance - amount
  /\ UNCHANGED <<reserved, stage, hold, entries>>

-----------------------------------------------------------------------------
RequestStep(r) ==
  \/ ReserveNothing(r)
  \/ \E amount \in Amounts : \/ ReserveWallet(r, amount)
                             \/ ReserveUnacknowledged(r, amount)
                             \/ ReserveRefused(r, amount)
  \/ ReleaseReservation(r)
  \/ \E cost \in 0 .. MaxAmount : SettleReservation(r, cost) \/ SettleRefused(r, cost)
  \/ CloseNothing(r)
  \/ CloseFails(r)

Next == \/ \E r \in Requests : RequestStep(r)
        \/ Crash
        \/ \E amount \in Amounts : CreditWallet(amount) \/ DebitWallet(amount)

Spec == Init /\ [][Next]_vars

-----------------------------------------------------------------------------
(* Properties *)

(* The units set aside: <<r, i>> is the i-th unit held for request r, so the *)
(* number of units is the sum of the holds.                                  *)
UnitsOf(h) == {u \in Requests \X Amounts : u[2] <= h[u[1]]}

HeldUnits == UnitsOf(hold)

(* reserved_balance is the sum of what the requests have set aside and not   *)
(* given back, those whose handler is gone included.  A reservation that was *)
(* released twice, or released after it was settled, would hide behind the   *)
(* GREATEST(..., 0) of the code and eat into another request's reservation.  *)
EscrowExact == reserved = Cardinality(HeldUnits)

(* The row's CHECK (reserved_balance <= balance) is never what stops a       *)
(* transaction: every path that lowers the balance leaves the reservations   *)
(* covered.                                                                  *)
Covered == reserved <= balance

(* While a request is open, a settlement within its reservation finds its    *)
(* guard true, whatever other requests, debits and refunds did meanwhile.    *)
HoldGuaranteed ==
  \A r \in Requests : stage[r] = "open" =>
    \A cost \in 0 .. hold[r] : SettlementFits(r, cost)

(* The ledger never shows a request both released and debited, nor closed    *)
(* without having been reserved; and a reservation still held has no closing *)
(* entry.                                                                    *)
ClosedOnce ==
  \A r \in Requests :
    /\ ~ (Entry("release", r) \in entries /\ Entry("debit", r) \in entries)
    /\ Entry("release", r) \in entries \/ Entry("debit", r) \in entries
         => Entry("reserve", r) \in entries /\ hold[r] = 0

(* The row implements the escrow account: the counter stands for the holds.  *)
E == INSTANCE Escrow WITH funds <- balance, hold <- hold,
       opened <- {r \in Requests : Entry("reserve", r) \in entries}

ImplementsEscrow == E!Spec

=============================================================================
