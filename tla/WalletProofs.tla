---------------------------- MODULE WalletProofs ----------------------------
(***************************************************************************)
(* Proofs about Wallet, for every finite set of requests and every bound.   *)
(* The argument: reserved_balance is the number of units held (EscrowExact), *)
(* which needs that a request with a hold is at most once reserved and not   *)
(* yet closed (HoldsRecorded); the guards of the transactions then keep the  *)
(* balance above it.                                                         *)
(***************************************************************************)
EXTENDS Wallet, FiniteSetTheorems, TLAPS

(* What the ledger and the stage of a request say of its hold.               *)
HoldsRecorded ==
  \A r \in Requests :
    /\ stage[r] = "new" =>
         hold[r] = 0 /\ \A k \in EntryKinds : Entry(k, r) \notin entries
    /\ hold[r] > 0 => /\ Entry("reserve", r) \in entries
                      /\ Entry("release", r) \notin entries
                      /\ Entry("debit", r) \notin entries

(* The inductive invariant.                                                  *)
WalletInv == TypeOK /\ EscrowExact /\ Covered /\ HoldsRecorded /\ ClosedOnce

-----------------------------------------------------------------------------
(* Counting the units that are held                                          *)

(* The units held are finitely many.                                         *)
LEMMA UnitsFinite ==
  ASSUME NEW h
  PROVE  IsFiniteSet(UnitsOf(h)) /\ Cardinality(UnitsOf(h)) \in Nat
<1>1. IsFiniteSet(Amounts)
  BY FS_Interval, WalletAssumption DEF Amounts
<1>2. IsFiniteSet(Requests \X Amounts)
  BY <1>1, FS_Product, WalletAssumption
<1>3. UnitsOf(h) \in SUBSET (Requests \X Amounts)
  BY DEF UnitsOf
<1> QED
  BY <1>2, <1>3, FS_Subset, FS_CardinalityType

(* With no holds there are no units.                                         *)
LEMMA NoUnits ==
  Cardinality(UnitsOf([r \in Requests |-> 0])) = 0
<1>1. UnitsOf([r \in Requests |-> 0]) = {}
  BY WalletAssumption DEF UnitsOf, Amounts
<1> QED
  BY <1>1, FS_EmptySet

(* A request that holds nothing and sets aside an amount adds that many      *)
(* units.                                                                    *)
LEMMA UnitsRaised ==
  ASSUME NEW h \in [Requests -> 0 .. MaxAmount], NEW r \in Requests,
         h[r] = 0, NEW amount \in Amounts
  PROVE  Cardinality(UnitsOf([h EXCEPT ![r] = amount]))
           = Cardinality(UnitsOf(h)) + amount
<1> DEFINE New == {r} \X (1 .. amount)
<1>1. amount \in Nat /\ 1 .. amount \subseteq Amounts
  BY WalletAssumption DEF Amounts
<1>2. IsFiniteSet(1 .. amount) /\ Cardinality(1 .. amount) = amount
  BY <1>1, FS_Interval
<1>3. IsFiniteSet({r}) /\ Cardinality({r}) = 1
  BY FS_Singleton
<1>4. IsFiniteSet(New) /\ Cardinality(New) = amount
  BY <1>1, <1>2, <1>3, FS_Product
<1>5. UnitsOf([h EXCEPT ![r] = amount]) = UnitsOf(h) \cup New
  BY <1>1, WalletAssumption DEF UnitsOf, Amounts
<1>6. UnitsOf(h) \cap New = {}
  BY <1>1, WalletAssumption DEF UnitsOf, Amounts
<1>7. IsFiniteSet(UnitsOf(h)) /\ Cardinality(UnitsOf(h)) \in Nat
  BY UnitsFinite
<1>8. Cardinality(UnitsOf(h) \cup New)
        = Cardinality(UnitsOf(h)) + Cardinality(New) - Cardinality(UnitsOf(h) \cap New)
  BY <1>4, <1>7, FS_Union
<1>9. Cardinality(UnitsOf(h) \cap New) = 0
  BY <1>6, FS_EmptySet, Zenon
<1>10. Cardinality(UnitsOf([h EXCEPT ![r] = amount])) = Cardinality(UnitsOf(h) \cup New)
  BY <1>5, Zenon
<1> HIDE DEF New
<1> QED
  BY <1>1, <1>4, <1>7, <1>8, <1>9, <1>10

(* A request that closes gives back exactly the units it held.               *)
LEMMA UnitsCleared ==
  ASSUME NEW h \in [Requests -> 0 .. MaxAmount], NEW r \in Requests, h[r] > 0
  PROVE  /\ Cardinality(UnitsOf([h EXCEPT ![r] = 0])) = Cardinality(UnitsOf(h)) - h[r]
         /\ Cardinality(UnitsOf(h)) >= h[r]
<1> DEFINE g == [h EXCEPT ![r] = 0]
<1>1. g \in [Requests -> 0 .. MaxAmount] /\ g[r] = 0 /\ h[r] \in Amounts
  BY WalletAssumption DEF Amounts
<1>2. [g EXCEPT ![r] = h[r]] = h
  OBVIOUS
<1>3. Cardinality(UnitsOf(h)) = Cardinality(UnitsOf(g)) + h[r]
  <2> HIDE DEF g
  <2> QED BY <1>1, <1>2, UnitsRaised
<1>4. Cardinality(UnitsOf(g)) \in Nat /\ h[r] \in Nat
  BY <1>1, UnitsFinite DEF Amounts
<1> QED
  BY <1>3, <1>4

-----------------------------------------------------------------------------
(* The invariant *)

(* The initial states satisfy the invariant.                                 *)
LEMMA WalletInitInv == Init => WalletInv
<1> SUFFICES ASSUME Init PROVE WalletInv
  OBVIOUS
<1>1. TypeOK
  BY WalletAssumption DEF Init, TypeOK, Stages
<1>2. EscrowExact
  BY NoUnits DEF Init, EscrowExact, HeldUnits
<1>3. Covered
  BY WalletAssumption DEF Init, Covered
<1>4. HoldsRecorded /\ ClosedOnce
  BY DEF Init, HoldsRecorded, ClosedOnce
<1> QED
  BY <1>1, <1>2, <1>3, <1>4 DEF WalletInv

(* Under the invariant, the GREATEST(..., 0) of releasing and settling never *)
(* cuts anything off.                                                        *)
LEMMA NothingCutOff ==
  ASSUME TypeOK, EscrowExact, NEW r \in Requests, hold[r] > 0
  PROVE  /\ Larger(reserved - hold[r], 0) = reserved - hold[r]
         /\ reserved - hold[r] \in Nat
         /\ Cardinality(UnitsOf([hold EXCEPT ![r] = 0])) = reserved - hold[r]
<1>1. hold \in [Requests -> 0 .. MaxAmount] /\ reserved \in Nat
  BY DEF TypeOK
<1>2. /\ Cardinality(UnitsOf([hold EXCEPT ![r] = 0])) = Cardinality(UnitsOf(hold)) - hold[r]
      /\ Cardinality(UnitsOf(hold)) >= hold[r]
  BY <1>1, UnitsCleared
<1>3. reserved = Cardinality(UnitsOf(hold))
  BY DEF EscrowExact, HeldUnits
<1>4. hold[r] \in Nat
  BY <1>1, WalletAssumption
<1> QED
  BY <1>1, <1>2, <1>3, <1>4 DEF Larger

(* Reserving, whether or not its acknowledgement arrives.                    *)
LEMMA ReserveStep ==
  ASSUME WalletInv, NEW r \in Requests, NEW amount \in Amounts,
         stage[r] = "new", AddToReserved(r, amount),
         NEW s \in {"open", "done"}, stage' = [stage EXCEPT ![r] = s]
  PROVE  WalletInv'
<1> USE DEF WalletInv
<1>1. amount \in Nat /\ amount \in 0 .. MaxAmount /\ amount > 0
  BY WalletAssumption DEF Amounts
<1>2. hold[r] = 0 /\ \A k \in EntryKinds : Entry(k, r) \notin entries
  BY DEF HoldsRecorded
<1>3. TypeOK'
  BY <1>1 DEF TypeOK, AddToReserved, Stages, Entry, EntryKinds
<1>4. EscrowExact'
  BY <1>2, UnitsRaised DEF TypeOK, EscrowExact, HeldUnits, AddToReserved
<1>5. Covered'
  BY <1>1 DEF TypeOK, Covered, AddToReserved
<1>6. HoldsRecorded'
  BY <1>2 DEF TypeOK, HoldsRecorded, AddToReserved, Entry, EntryKinds
<1>7. ClosedOnce'
  BY <1>2 DEF TypeOK, ClosedOnce, AddToReserved, Entry, EntryKinds
<1> QED
  BY <1>3, <1>4, <1>5, <1>6, <1>7

(* Releasing and settling take the request's units away.                     *)
LEMMA ReleaseStep ==
  ASSUME WalletInv, NEW r \in Requests, ReleaseReservation(r)
  PROVE  WalletInv'
<1> USE DEF WalletInv
<1>0. /\ hold \in [Requests -> 0 .. MaxAmount] /\ reserved \in Nat /\ hold[r] > 0
      /\ hold[r] \in Nat /\ 0 \in 0 .. MaxAmount
  BY WalletAssumption DEF ReleaseReservation, TypeOK
<1>1. /\ Larger(reserved - hold[r], 0) = reserved - hold[r]
      /\ reserved - hold[r] \in Nat
      /\ Cardinality(UnitsOf([hold EXCEPT ![r] = 0])) = reserved - hold[r]
  BY <1>0, NothingCutOff
<1>2. TypeOK'
  BY <1>0, <1>1 DEF TypeOK, ReleaseReservation, Stages, Entry, EntryKinds
<1>3. EscrowExact'
  BY <1>1 DEF EscrowExact, HeldUnits, ReleaseReservation
<1>4. Covered'
  BY <1>0, <1>1 DEF TypeOK, Covered, ReleaseReservation
<1>5. HoldsRecorded'
  <2> SUFFICES ASSUME NEW q \in Requests
               PROVE  (/\ stage[q] = "new" =>
                            hold[q] = 0 /\ \A k \in EntryKinds : Entry(k, q) \notin entries
                       /\ hold[q] > 0 => /\ Entry("reserve", q) \in entries
                                         /\ Entry("release", q) \notin entries
                                         /\ Entry("debit", q) \notin entries)'
    BY DEF HoldsRecorded
  <2>1. CASE q = r
    BY <1>0, <2>1 DEF TypeOK, ReleaseReservation
  <2>2. CASE q # r
    <3>1. hold'[q] = hold[q] /\ stage'[q] = stage[q]
      BY <2>2 DEF TypeOK, ReleaseReservation
    <3>2. \A k : Entry(k, q) \in entries' <=> Entry(k, q) \in entries
      BY <2>2 DEF ReleaseReservation, Entry
    <3> QED
      BY <3>1, <3>2 DEF HoldsRecorded
  <2> QED
    BY <2>1, <2>2
<1>6. ClosedOnce'
  BY DEF TypeOK, HoldsRecorded, ClosedOnce, ReleaseReservation, Entry, EntryKinds
<1> QED
  BY <1>2, <1>3, <1>4, <1>5, <1>6

(* A settlement takes the cost, gives back the rest and closes the hold.      *)
LEMMA SettleStep ==
  ASSUME WalletInv, NEW r \in Requests, NEW cost \in 0 .. MaxAmount,
         SettleReservation(r, cost)
  PROVE  WalletInv'
<1> USE DEF WalletInv
<1>0. /\ hold \in [Requests -> 0 .. MaxAmount] /\ reserved \in Nat /\ hold[r] > 0
      /\ hold[r] \in Nat /\ 0 \in 0 .. MaxAmount /\ cost \in Nat
  BY WalletAssumption DEF SettleReservation, TypeOK
<1>1. /\ Larger(reserved - hold[r], 0) = reserved - hold[r]
      /\ reserved - hold[r] \in Nat
      /\ Cardinality(UnitsOf([hold EXCEPT ![r] = 0])) = reserved - hold[r]
  BY <1>0, NothingCutOff
<1>2. balance - cost \in Nat /\ balance - cost >= reserved - hold[r]
  BY <1>0, <1>1 DEF SettleReservation, SettlementFits, TypeOK
<1>3. TypeOK'
  BY <1>0, <1>1, <1>2 DEF TypeOK, SettleReservation, Stages, Entry, EntryKinds
<1>4. EscrowExact'
  BY <1>1 DEF EscrowExact, HeldUnits, SettleReservation
<1>5. Covered'
  BY <1>0, <1>1, <1>2 DEF Covered, SettleReservation
<1>6. HoldsRecorded'
  <2> SUFFICES ASSUME NEW q \in Requests
               PROVE  (/\ stage[q] = "new" =>
                            hold[q] = 0 /\ \A k \in EntryKinds : Entry(k, q) \notin entries
                       /\ hold[q] > 0 => /\ Entry("reserve", q) \in entries
                                         /\ Entry("release", q) \notin entries
                                         /\ Entry("debit", q) \notin entries)'
    BY DEF HoldsRecorded
  <2>1. CASE q = r
    BY <1>0, <2>1 DEF TypeOK, SettleReservation
  <2>2. CASE q # r
    <3>1. hold'[q] = hold[q] /\ stage'[q] = stage[q]
      BY <2>2 DEF TypeOK, SettleReservation
    <3>2. \A k : Entry(k, q) \in entries' <=> Entry(k, q) \in entries
      BY <2>2 DEF SettleReservation, Entry
    <3> QED
      BY <3>1, <3>2 DEF HoldsRecorded
  <2> QED
    BY <2>1, <2>2
<1>7. ClosedOnce'
  BY DEF TypeOK, HoldsRecorded, ClosedOnce, SettleReservation, Entry, EntryKinds
<1> QED
  BY <1>3, <1>4, <1>5, <1>6, <1>7

(* The steps that only move a handler: nothing of the row changes, and no    *)
(* handler returns to "new".                                                 *)
LEMMA HandlerStep ==
  ASSUME WalletInv, stage' \in [Requests -> Stages],
         \A r \in Requests : stage'[r] = "new" => stage[r] = "new",
         UNCHANGED <<balance, reserved, hold, entries>>
  PROVE  WalletInv'
BY DEF WalletInv, TypeOK, EscrowExact, HeldUnits, UnitsOf, Covered, HoldsRecorded, ClosedOnce

(* The other writers of the row leave the reservations covered.              *)
LEMMA OtherWriterStep ==
  ASSUME WalletInv, NEW amount \in Amounts,
         CreditWallet(amount) \/ DebitWallet(amount)
  PROVE  WalletInv'
<1>1. amount \in Nat
  BY WalletAssumption DEF Amounts
<1>2. balance' \in Nat /\ reserved <= balance' /\ reserved' = reserved
  BY <1>1 DEF WalletInv, TypeOK, Covered, CreditWallet, DebitWallet
<1>3. UNCHANGED <<reserved, stage, hold, entries>>
  BY DEF CreditWallet, DebitWallet
<1> QED
  BY <1>2, <1>3 DEF WalletInv, TypeOK, EscrowExact, HeldUnits, UnitsOf, Covered,
                    HoldsRecorded, ClosedOnce

(* Every step keeps the invariant.                                           *)
LEMMA WalletNextInv == WalletInv /\ [Next]_vars => WalletInv'
<1> SUFFICES ASSUME WalletInv, [Next]_vars PROVE WalletInv'
  OBVIOUS
<1>0. stage \in [Requests -> Stages]
  BY DEF WalletInv, TypeOK
<1>1. CASE \E r \in Requests : RequestStep(r)
  <2> PICK r \in Requests : RequestStep(r)
    BY <1>1
  <2>1. CASE ReserveNothing(r) \/ CloseNothing(r) \/ CloseFails(r)
    BY <1>0, <2>1, HandlerStep DEF ReserveNothing, CloseNothing, CloseFails, Stages
  <2>2. ASSUME NEW amount \in Amounts, ReserveWallet(r, amount)
        PROVE  WalletInv'
    BY <2>2, ReserveStep DEF ReserveWallet
  <2>3. ASSUME NEW amount \in Amounts, ReserveUnacknowledged(r, amount)
        PROVE  WalletInv'
    BY <2>3, ReserveStep DEF ReserveUnacknowledged
  <2>4. ASSUME NEW amount \in Amounts, ReserveRefused(r, amount)
        PROVE  WalletInv'
    BY <1>0, <2>4, HandlerStep DEF ReserveRefused, Stages
  <2>5. CASE ReleaseReservation(r)
    BY <2>5, ReleaseStep
  <2>6. ASSUME NEW cost \in 0 .. MaxAmount, SettleReservation(r, cost)
        PROVE  WalletInv'
    BY <2>6, SettleStep
  <2>7. ASSUME NEW cost \in 0 .. MaxAmount, SettleRefused(r, cost)
        PROVE  WalletInv'
    BY <1>0, <2>7, HandlerStep DEF SettleRefused, Stages
  <2> QED
    BY <2>1, <2>2, <2>3, <2>4, <2>5, <2>6, <2>7 DEF RequestStep
<1>2. CASE Crash
  BY <1>0, <1>2, HandlerStep DEF Crash, Stages
<1>3. CASE \E amount \in Amounts : CreditWallet(amount) \/ DebitWallet(amount)
  BY <1>3, OtherWriterStep
<1>4. CASE UNCHANGED vars
  BY <1>0, <1>4, HandlerStep DEF vars
<1> QED
  BY <1>1, <1>2, <1>3, <1>4 DEF Next

(* The invariant holds throughout.                                           *)
THEOREM WalletInvariance == Spec => []WalletInv
BY WalletInitInv, WalletNextInv, PTL DEF Spec

(* Type correctness.                                                         *)
THEOREM WalletTypes == Spec => []TypeOK
<1>1. WalletInv => TypeOK
  BY DEF WalletInv
<1> QED
  BY <1>1, WalletInvariance, PTL

(* reserved_balance is always the sum of the reservations not yet given back *)
(* (reserveWallet, releaseReservation, settleReservation).                   *)
THEOREM ReservedIsTheSumOfHolds == Spec => []EscrowExact
<1>1. WalletInv => EscrowExact
  BY DEF WalletInv
<1> QED
  BY <1>1, WalletInvariance, PTL

(* The reserved part never exceeds the balance.                              *)
THEOREM ReservationsAreCovered == Spec => []Covered
<1>1. WalletInv => Covered
  BY DEF WalletInv
<1> QED
  BY <1>1, WalletInvariance, PTL

(* The ledger never closes a request twice, or without a reservation.        *)
THEOREM LedgerClosesOnce == Spec => []ClosedOnce
<1>1. WalletInv => ClosedOnce
  BY DEF WalletInv
<1> QED
  BY <1>1, WalletInvariance, PTL

(* A settlement within its reservation is never refused (settleReservation's *)
(* guard), whatever happened since the reservation.                          *)
THEOREM HoldsAreGuaranteed == Spec => []HoldGuaranteed
<1>1. WalletInv => HoldGuaranteed
  <2> SUFFICES ASSUME WalletInv, NEW r \in Requests, NEW cost \in 0 .. hold[r]
               PROVE  SettlementFits(r, cost)
    BY DEF HoldGuaranteed
  <2>1. hold[r] \in Nat /\ balance \in Nat /\ reserved \in Nat /\ reserved <= balance
    BY WalletAssumption DEF WalletInv, TypeOK, Covered
  <2>2. CASE hold[r] > 0
    <3>1. Larger(reserved - hold[r], 0) = reserved - hold[r]
      BY <2>2, NothingCutOff DEF WalletInv
    <3> QED
      BY <2>1, <3>1 DEF SettlementFits
  <2>3. CASE hold[r] = 0
    BY <2>1, <2>3 DEF SettlementFits, Larger
  <2> QED
    BY <2>1, <2>2, <2>3
<1> QED
  BY <1>1, WalletInvariance, PTL

-----------------------------------------------------------------------------
(* The row implements the escrow account *)

Opened == {r \in Requests : Entry("reserve", r) \in entries}

(* What the counter says is what the abstract account's holds add up to.     *)
LEMMA CounterIsHeld == ASSUME EscrowExact PROVE reserved = E!Held
<1>1. E!Units = HeldUnits
  BY DEF HeldUnits, UnitsOf, Amounts, E!Units, E!Amounts
<1>2. E!Cardinality(HeldUnits) = Cardinality(HeldUnits)
  BY DEF E!Cardinality, Cardinality
<1> QED
  BY <1>1, <1>2 DEF EscrowExact, E!Held

(* A step that leaves the balance, the holds and the ledger alone stutters.  *)
LEMMA Stutters == UNCHANGED <<balance, hold, entries>> => UNCHANGED E!vars
BY DEF E!vars

(* Every step of the wallet is a step of the escrow account or a stutter.    *)
LEMMA WalletStepIsEscrowStep == WalletInv /\ [Next]_vars => [E!Next]_(E!vars)
<1> SUFFICES ASSUME WalletInv, [Next]_vars PROVE [E!Next]_(E!vars)
  OBVIOUS
<1>0. /\ TypeOK /\ HoldsRecorded /\ EscrowExact /\ reserved = E!Held
      /\ balance \in Nat /\ reserved \in Nat /\ hold \in [Requests -> 0 .. MaxAmount]
  BY CounterIsHeld DEF WalletInv, TypeOK
<1>1. ASSUME NEW r \in Requests, NEW amount \in Amounts,
             stage[r] = "new", AddToReserved(r, amount)
      PROVE  E!Open(r)
  <2>1. r \notin Opened
    BY <1>0, <1>1 DEF Opened, HoldsRecorded, EntryKinds
  <2>2. amount \in E!Amounts /\ amount \in Nat
    BY WalletAssumption DEF Amounts, E!Amounts
  <2>3. E!Held + amount <= balance
    BY <1>0, <1>1, <2>2 DEF AddToReserved
  <2>4. Opened' = Opened \cup {r}
    BY <1>1 DEF Opened, AddToReserved, Entry
  <2> QED
    BY <1>1, <2>1, <2>2, <2>3, <2>4 DEF E!Open, Opened, AddToReserved
<1>2. ASSUME NEW r \in Requests, NEW cost \in 0 .. MaxAmount, hold[r] > 0,
             balance - cost >= reserved - hold[r], balance' = balance - cost,
             hold' = [hold EXCEPT ![r] = 0], Opened' = Opened
      PROVE  E!Close(r)
  BY <1>0, <1>2 DEF E!Close, Opened
<1>3. CASE \E r \in Requests : RequestStep(r)
  <2> PICK r \in Requests : RequestStep(r)
    BY <1>3
  <2>1. ASSUME NEW amount \in Amounts,
               ReserveWallet(r, amount) \/ ReserveUnacknowledged(r, amount)
        PROVE  E!Next
    BY <1>1, <2>1 DEF ReserveWallet, ReserveUnacknowledged, E!Next
  <2>2. CASE ReleaseReservation(r)
    <3>1. /\ balance - 0 >= reserved - hold[r] /\ balance' = balance - 0 /\ hold[r] > 0
          /\ hold' = [hold EXCEPT ![r] = 0] /\ 0 \in 0 .. MaxAmount
      BY <1>0, <2>2, WalletAssumption DEF ReleaseReservation, WalletInv, Covered
    <3>2. Opened' = Opened
      BY <2>2 DEF Opened, ReleaseReservation, Entry
    <3> QED
      BY <1>2, <3>1, <3>2 DEF E!Next
  <2>3. ASSUME NEW cost \in 0 .. MaxAmount, SettleReservation(r, cost)
        PROVE  E!Next
    <3>1. Larger(reserved - hold[r], 0) = reserved - hold[r] /\ hold[r] > 0
      BY <1>0, <2>3, NothingCutOff DEF SettleReservation
    <3>2. Opened' = Opened
      BY <2>3 DEF Opened, SettleReservation, Entry
    <3> QED
      BY <1>2, <2>3, <3>1, <3>2 DEF SettleReservation, SettlementFits, E!Next
  <2>4. ASSUME NEW x, \/ ReserveNothing(r) \/ CloseNothing(r) \/ CloseFails(r)
                      \/ ReserveRefused(r, x) \/ SettleRefused(r, x)
        PROVE  UNCHANGED E!vars
    BY <2>4, Stutters DEF ReserveNothing, CloseNothing, CloseFails, ReserveRefused, SettleRefused
  <2> QED
    BY <2>1, <2>2, <2>3, <2>4 DEF RequestStep
<1>4. CASE Crash
  BY <1>4, Stutters DEF Crash
<1>5. ASSUME NEW amount \in Amounts, CreditWallet(amount) \/ DebitWallet(amount)
      PROVE  E!Next
  <2>1. Opened' = Opened /\ amount \in E!Amounts
    BY <1>5 DEF Opened, CreditWallet, DebitWallet, Amounts, E!Amounts
  <2>2. CASE CreditWallet(amount)
    BY <2>1, <2>2 DEF CreditWallet, Opened, E!Deposit, E!Next
  <2>3. CASE DebitWallet(amount)
    BY <1>0, <2>1, <2>3 DEF DebitWallet, Opened, E!Withdraw, E!Next
  <2> QED
    BY <1>5, <2>2, <2>3
<1>6. CASE UNCHANGED vars
  BY <1>6, Stutters DEF vars
<1> QED
  BY <1>3, <1>4, <1>5, <1>6 DEF Next

(* The wallet implements the escrow account: what the conditional UPDATEs of  *)
(* one row promise is what an account without a counter promises.            *)
THEOREM WalletImplementsEscrow == Spec => ImplementsEscrow
<1>1. Init => E!Init
  BY DEF Init, E!Init
<1>2. WalletInv /\ [Next]_vars => [E!Next]_(E!vars)
  BY WalletStepIsEscrowStep
<1> QED
  BY <1>1, <1>2, WalletInvariance, PTL DEF Spec, ImplementsEscrow, E!Spec

=============================================================================
