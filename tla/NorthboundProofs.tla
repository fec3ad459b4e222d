--------------------------- MODULE NorthboundProofs ---------------------------
(***************************************************************************)
(* Theorems about relay calls, for any number of calls, request ids and     *)
(* accounts, with every fault and crash of Northbound.  The argument: a call *)
(* that got past its claim owns the id's row until it ends (ClaimsHeld), so  *)
(* no second one is served and nobody else completes it; a call is debited   *)
(* only in the step that also settles its result and cost (DebitsExplained,  *)
(* SuccessPaid), and what is on record is what was settled (RowsTrue).  What *)
(* is known of the wallet and of the pool comes from their own proofs: every *)
(* step of a call is one of theirs or leaves them alone.  Without faults the *)
(* books are kept as well (CalmInv): a debit is on record once its handler    *)
(* has passed its record, and what is put aside is in a handler's hand.       *)
(***************************************************************************)
EXTENDS Northbound, TLAPS

WP == INSTANCE WalletProofs WITH Requests <- Calls

PP == INSTANCE AccountPoolProofs WITH Requests <- Calls

(* A status has been chosen before it is recorded.                           *)
ResultsKnown == \A c \in Calls : step[c] \in {"drain", "record", "complete"} => result[c] \in Finals

(* A call that got past its claim owns the row of its id until it ends, and  *)
(* the row stays as it left it.                                              *)
ClaimsHeld ==
  \A c \in Calls : step[c] \notin {"new", "refused"} /\ Sent[c] \notin expired =>
    /\ claim[Sent[c]] # "none"
    /\ step[c] # "end" => claim[Sent[c]] = "processing"

(* Outside the handler's upstream part a call has not begun to route, or has *)
(* done with it.                                                             *)
RoutesBegin ==
  \A c \in Calls : step[c] \notin {"route", "drain"} =>
    phase[c] = "done" \/ (phase[c] = "select" /\ excluded[c] = {})

(* A debit comes with the success, or the relayed stream, it is for.         *)
DebitsExplained ==
  \A c \in Calls : Debited(c) =>
    /\ step[c] \in {"drain", "record", "complete", "end"}
    /\ result[c] = "success" \/ c \in relayed

(* A call that has reserved is no longer new, and as long as its handler has  *)
(* the reservation in hand there is money in it.                             *)
ReservedHold ==
  \A c \in Calls : W!Entry("reserve", c) \in entries =>
    stage[c] # "new" /\ (stage[c] = "open" => hold[c] > 0)

(* The cost of a success is what its wallet was debited for, if at all.      *)
SuccessPaid ==
  \A c \in Calls : result[c] = "success" =>
    /\ step[c] \in {"drain", "record", "complete", "end"}
    /\ c \notin Streaming /\ W!Entry("reserve", c) \in entries => (cost[c] > 0 <=> Debited(c))

(* A usage record shows what its handler had settled on, and goes on to.     *)
RowsTrue ==
  \A i \in Ids : LET u == usage[i] IN
    u # NoUsage => /\ u.call \in Calls
                   /\ step[u.call] \in {"complete", "end"}
                   /\ u.status = result[u.call]
                   /\ u.cost = cost[u.call]

(* The wallet of the relay and that of the wallet's proofs are one module.    *)
LEMMA SameWallet ==
  /\ W!Init <=> WP!Init
  /\ W!Next <=> WP!Next
  /\ W!TypeOK <=> WP!TypeOK
<1> USE DEF W!Stages, WP!Stages, W!EntryKinds, WP!EntryKinds, W!Entry, WP!Entry, W!Amounts, WP!Amounts
<1>1. W!Init <=> WP!Init
  BY DEF W!Init, WP!Init
<1>2. W!Next <=> WP!Next
  BY DEF W!Next, WP!Next, W!RequestStep, WP!RequestStep,
         W!ReserveNothing, WP!ReserveNothing, W!ReserveWallet, WP!ReserveWallet,
         W!ReserveUnacknowledged, WP!ReserveUnacknowledged, W!ReserveRefused, WP!ReserveRefused,
         W!AddToReserved, WP!AddToReserved, W!ReleaseReservation, WP!ReleaseReservation,
         W!SettleReservation, WP!SettleReservation, W!SettleRefused, WP!SettleRefused,
         W!SettlementFits, WP!SettlementFits, W!Larger, WP!Larger,
         W!CloseNothing, WP!CloseNothing, W!CloseFails, WP!CloseFails, W!Crash, WP!Crash,
         W!CreditWallet, WP!CreditWallet, W!DebitWallet, WP!DebitWallet
<1>3. W!TypeOK <=> WP!TypeOK
  BY DEF W!TypeOK, WP!TypeOK
<1> QED
  BY <1>1, <1>2, <1>3

(* Likewise the pool.                                                        *)
LEMMA SamePool ==
  /\ P!Init <=> PP!Init
  /\ P!Next <=> PP!Next
  /\ P!TypeOK <=> PP!TypeOK
<1> USE DEF P!accountVars, PP!accountVars, P!requestVars, PP!requestVars,
            P!Phases, PP!Phases, P!Circuits, PP!Circuits
<1>1. P!Init <=> PP!Init
  BY DEF P!Init, PP!Init
<1>2. ASSUME NEW r \in Calls PROVE P!RouteStep(r) <=> PP!RouteStep(r)
  <2> USE DEF P!GiveBack, PP!GiveBack, P!DropOne, PP!DropOne, P!Routable, PP!Routable,
              P!CircuitAdmits, PP!CircuitAdmits
  <2>1. ASSUME NEW a \in Accounts PROVE P!Checkout(r, a) <=> PP!Checkout(r, a)
    BY DEF P!Checkout, PP!Checkout, P!TakeSlot, PP!TakeSlot
  <2>2. P!CheckoutRefused(r) <=> PP!CheckoutRefused(r)
    BY DEF P!CheckoutRefused, PP!CheckoutRefused
  <2>3. P!StopRetrying(r) <=> PP!StopRetrying(r)
    BY DEF P!StopRetrying, PP!StopRetrying
  <2>4. P!RouteSucceeds(r) <=> PP!RouteSucceeds(r)
    BY DEF P!RouteSucceeds, PP!RouteSucceeds
  <2>5. P!RouteFails(r) <=> PP!RouteFails(r)
    BY DEF P!RouteFails, PP!RouteFails, P!FailAccount, PP!FailAccount, P!Trips, PP!Trips
  <2>6. P!LeaveRoute(r) <=> PP!LeaveRoute(r)
    BY DEF P!LeaveRoute, PP!LeaveRoute, P!AfterFailure, PP!AfterFailure, PP!Cardinality, P!Cardinality
  <2>7. P!CountRequest(r) <=> PP!CountRequest(r)
    BY <2>6 DEF P!CountRequest, PP!CountRequest
  <2>8. P!ApplyHeaderSignals(r) <=> PP!ApplyHeaderSignals(r)
    BY <2>6 DEF P!ApplyHeaderSignals, PP!ApplyHeaderSignals, P!CoolFor, PP!CoolFor
  <2>9. P!PreparationFails(r) <=> PP!PreparationFails(r)
    BY DEF P!PreparationFails, PP!PreparationFails
  <2> QED
    BY <2>1, <2>2, <2>3, <2>4, <2>5, <2>7, <2>8, <2>9 DEF P!RouteStep, PP!RouteStep
<1>3. ASSUME NEW r \in Calls PROVE P!LeakStep(r) <=> PP!LeakStep(r)
  <2>1. ASSUME NEW a \in Accounts PROVE P!CheckoutUnacknowledged(r, a) <=> PP!CheckoutUnacknowledged(r, a)
    BY DEF P!CheckoutUnacknowledged, PP!CheckoutUnacknowledged, P!TakeSlot, PP!TakeSlot,
           P!Routable, PP!Routable, P!CircuitAdmits, PP!CircuitAdmits
  <2>2. P!RetryAborted(r) <=> PP!RetryAborted(r)
    BY DEF P!RetryAborted, PP!RetryAborted, P!LoseSlot, PP!LoseSlot
  <2>3. P!CompletionFails(r) <=> PP!CompletionFails(r)
    BY DEF P!CompletionFails, PP!CompletionFails, P!LoseSlot, PP!LoseSlot,
           P!LeaveRoute, PP!LeaveRoute, P!AfterFailure, PP!AfterFailure, PP!Cardinality, P!Cardinality
  <2> QED
    BY <2>1, <2>2, <2>3 DEF P!LeakStep, PP!LeakStep
<1>4. P!Crash <=> PP!Crash
  BY DEF P!Crash, PP!Crash, P!StopHandlers, PP!StopHandlers, PP!Cardinality, P!Cardinality
<1>5. ASSUME NEW a \in Accounts
      PROVE  (P!AdminStep(a) \/ P!TimeStep(a)) <=> (PP!AdminStep(a) \/ PP!TimeStep(a))
  BY DEF P!AdminStep, PP!AdminStep, P!TimeStep, PP!TimeStep, P!Isolate, PP!Isolate,
         P!QualityCooldown, PP!QualityCooldown, P!Restore, PP!Restore, P!PatchStatus, PP!PatchStatus,
         P!CooldownPasses, PP!CooldownPasses, P!QuotaRenewed, PP!QuotaRenewed
<1>6. P!Next <=> PP!Next
  BY <1>2, <1>3, <1>4, <1>5 DEF P!Next, PP!Next
<1>7. P!TypeOK <=> PP!TypeOK
  BY DEF P!TypeOK, PP!TypeOK
<1> QED
  BY <1>1, <1>6, <1>7

-----------------------------------------------------------------------------
(* The wallet: every step of a call is one of Wallet or leaves it alone.      *)

(* What a call does to its reservation is a step of the wallet.               *)
LEMMA RequestMovesWallet ==
  ASSUME NEW c \in Calls, W!RequestStep(c)
  PROVE  [W!Next]_(W!vars)
BY DEF W!Next

(* Leaving the wallet alone is a stutter of it.                               *)
LEMMA WalletAlone == ASSUME UNCHANGED walletVars PROVE [W!Next]_(W!vars)
BY DEF walletVars, W!vars

(* So every step of a call is a step of the wallet or none.                   *)
LEMMA NorthboundMovesWallet == [Next]_vars => [W!Next]_(W!vars)
<1> SUFFICES ASSUME [Next]_vars PROVE [W!Next]_(W!vars)
  OBVIOUS
<1>1. ASSUME NEW c \in Calls, Arrive(c) PROVE [W!Next]_(W!vars)
  BY <1>1, WalletAlone DEF Arrive, Claim, ClaimRefused
<1>2. ASSUME NEW c \in Calls, Handle(c) PROVE [W!Next]_(W!vars)
  <2>1. CASE Abandon(c) \/ Reject(c) \/ Route(c) \/ Drain(c) \/ Record(c) \/ SkipRecord(c) \/ Complete(c)
    BY <2>1, WalletAlone DEF Abandon, Reject, Route, Drain, Record, SkipRecord, Complete
  <2>2. CASE Reserve(c)
    <3>1. W!RequestStep(c)
      BY <2>2 DEF Reserve, W!RequestStep
    <3> QED BY <3>1, RequestMovesWallet
  <2>3. CASE Settle(c) \/ SettleRefused(c) \/ Fail(c) \/ NoAdapter(c) \/ StreamEnds(c) \/ StreamRejected(c)
    <3>1. W!RequestStep(c)
      BY <2>3 DEF Settle, SettleRefused, Fail, NoAdapter, StreamEnds, StreamRejected, Release,
                  W!RequestStep, Costs
    <3> QED BY <3>1, RequestMovesWallet
  <2> QED BY <1>2, <2>1, <2>2, <2>3 DEF Handle
<1>3. ASSUME NEW c \in Calls, Fault(c) PROVE [W!Next]_(W!vars)
  <2>1. CASE RouteFault(c) \/ RecordFault(c)
    BY <2>1, WalletAlone DEF RouteFault, RecordFault
  <2>2. CASE WalletFault(c) \/ StreamWalletFault(c)
    <3>1. W!RequestStep(c)
      BY <2>2 DEF WalletFault, StreamWalletFault, W!RequestStep
    <3> QED BY <3>1, RequestMovesWallet
  <2> QED BY <1>3, <2>1, <2>2 DEF Fault
<1>4. ASSUME Crash PROVE [W!Next]_(W!vars)
  BY <1>4, WalletAlone DEF Crash, W!Next
<1>5. ASSUME NEW i \in Ids, Expire(i) PROVE [W!Next]_(W!vars)
  BY <1>5, WalletAlone DEF Expire
<1>6. ASSUME NEW a \in Accounts, Time(a) PROVE [W!Next]_(W!vars)
  BY <1>6, WalletAlone DEF Time
<1>7. ASSUME UNCHANGED vars PROVE [W!Next]_(W!vars)
  BY <1>7, WalletAlone DEF vars
<1> QED
  BY <1>1, <1>2, <1>3, <1>4, <1>5, <1>6, <1>7 DEF Next, UnexpiredNext, CalmNext

-----------------------------------------------------------------------------
(* The pool *)

(* What a call does to its route is a step of the pool.                       *)
LEMMA RequestMovesPool ==
  ASSUME NEW c \in Calls, P!RouteStep(c) \/ P!LeakStep(c)
  PROVE  [P!Next]_(P!vars)
BY DEF P!Next

(* Leaving the pool alone is a stutter of it.                                 *)
LEMMA PoolAlone == ASSUME UNCHANGED poolVars PROVE [P!Next]_(P!vars)
BY DEF poolVars, P!vars, P!accountVars, P!requestVars

(* The crash of the gateway is a crash of the pool: the calls it stops are    *)
(* those that have begun, and others that have nothing to lose.              *)
LEMMA CrashMovesPool ==
  ASSUME PP!RoutesHeld, P!TypeOK, RoutesBegin, Crash
  PROVE  P!Crash
<1> DEFINE dead == {c \in Calls : step[c] \notin {"new", "refused", "end"}}
           all == dead \cup {c \in Calls : phase[c] = "done"}
<1>1. P!StopHandlers(dead)
  BY DEF Crash
<1>2. {c \in Calls : phase[c] \notin {"select", "done"} \/ excluded[c] # {}} \subseteq all
  BY DEF RoutesBegin
<1>3. \A c \in Calls : phase[c] = "done" => route[c] = NoAccount
  BY DEF PP!RoutesHeld
<1>4. \A a \in Accounts : {c \in dead : phase[c] = "call" /\ route[c] = a}
                            = {c \in all : phase[c] = "call" /\ route[c] = a}
  OBVIOUS
<1>5. P!StopHandlers(all)
  <2>1. phase' = [c \in Calls |-> IF c \in all THEN "done" ELSE phase[c]]
    BY <1>1 DEF P!StopHandlers
  <2>2. route' = [c \in Calls |-> IF c \in all THEN NoAccount ELSE route[c]]
    BY <1>1, <1>3 DEF P!StopHandlers
  <2>3. lost' = [a \in Accounts |->
          lost[a] + P!Cardinality({c \in all : phase[c] = "call" /\ route[c] = a})]
    BY <1>1, <1>4 DEF P!StopHandlers
  <2> QED
    BY <1>1, <2>1, <2>2, <2>3 DEF P!StopHandlers
<1> QED
  BY <1>2, <1>5 DEF P!Crash

(* So every step of a call is a step of the pool or none.                     *)
LEMMA NorthboundMovesPool ==
  PP!RoutesHeld /\ P!TypeOK /\ RoutesBegin /\ [Next]_vars => [P!Next]_(P!vars)
<1> SUFFICES ASSUME PP!RoutesHeld, P!TypeOK, RoutesBegin, [Next]_vars PROVE [P!Next]_(P!vars)
  OBVIOUS
<1>1. ASSUME NEW c \in Calls, Arrive(c) PROVE [P!Next]_(P!vars)
  BY <1>1, PoolAlone DEF Arrive, Claim, ClaimRefused
<1>2. ASSUME NEW c \in Calls, Handle(c) PROVE [P!Next]_(P!vars)
  <2>1. CASE Route(c) \/ Drain(c)
    <3>1. P!RouteStep(c)
      BY <2>1 DEF Route, Drain, P!RouteStep
    <3> QED BY <3>1, RequestMovesPool
  <2>2. CASE ~ (Route(c) \/ Drain(c))
    BY <1>2, <2>2, PoolAlone
       DEF Handle, Abandon, Reject, Reserve, Settle, SettleRefused, Fail, NoAdapter,
           StreamEnds, StreamRejected, Record, SkipRecord, Complete
  <2> QED BY <2>1, <2>2
<1>3. ASSUME NEW c \in Calls, Fault(c) PROVE [P!Next]_(P!vars)
  <2>1. CASE RouteFault(c)
    <3>1. P!LeakStep(c)
      BY <2>1 DEF RouteFault, P!LeakStep
    <3> QED BY <3>1, RequestMovesPool
  <2>2. CASE WalletFault(c) \/ StreamWalletFault(c) \/ RecordFault(c)
    BY <2>2, PoolAlone DEF WalletFault, StreamWalletFault, RecordFault
  <2> QED BY <1>3, <2>1, <2>2 DEF Fault
<1>4. ASSUME Crash PROVE [P!Next]_(P!vars)
  BY <1>4, CrashMovesPool DEF P!Next
<1>5. ASSUME NEW i \in Ids, Expire(i) PROVE [P!Next]_(P!vars)
  BY <1>5, PoolAlone DEF Expire
<1>6. ASSUME NEW a \in Accounts, Time(a) PROVE [P!Next]_(P!vars)
  BY <1>6 DEF Time, P!Next
<1>7. ASSUME UNCHANGED vars PROVE [P!Next]_(P!vars)
  BY <1>7, PoolAlone DEF vars
<1> QED
  BY <1>1, <1>2, <1>3, <1>4, <1>5, <1>6, <1>7 DEF Next, UnexpiredNext, CalmNext

-----------------------------------------------------------------------------
(* What a step of one call leaves alone of the others *)

(* The reservations and ledger rows of the others.                           *)
OthersHold(c) ==
  \A d \in Calls \ {c} : /\ stage'[d] = stage[d] /\ hold'[d] = hold[d]
                         /\ \A k \in W!EntryKinds : W!Entry(k, d) \in entries' <=> W!Entry(k, d) \in entries

(* A call leaves the reservations of the others alone.                        *)
LEMMA WalletFrame ==
  ASSUME W!TypeOK, NEW c \in Calls, W!RequestStep(c)
  PROVE  OthersHold(c)
<1> USE DEF W!TypeOK, OthersHold, W!Entry
<1>1. ASSUME NEW n \in W!Amounts,
             W!ReserveWallet(c, n) \/ W!ReserveUnacknowledged(c, n) \/ W!ReserveRefused(c, n)
      PROVE  OthersHold(c)
  BY <1>1 DEF W!ReserveWallet, W!ReserveUnacknowledged, W!ReserveRefused, W!AddToReserved
<1>2. CASE W!ReleaseReservation(c)
  BY <1>2 DEF W!ReleaseReservation
<1>3. ASSUME NEW n \in 0 .. MaxAmount, W!SettleReservation(c, n) \/ W!SettleRefused(c, n)
      PROVE  OthersHold(c)
  BY <1>3 DEF W!SettleReservation, W!SettleRefused
<1>4. CASE W!ReserveNothing(c) \/ W!CloseNothing(c) \/ W!CloseFails(c)
  BY <1>4 DEF W!ReserveNothing, W!CloseNothing, W!CloseFails
<1> QED
  BY <1>1, <1>2, <1>3, <1>4 DEF W!RequestStep

(* The routing of the others.                                                *)
OthersRoute(c) ==
  \A d \in Calls \ {c} : phase'[d] = phase[d] /\ excluded'[d] = excluded[d]

(* A call leaves the routes of the others alone.                              *)
LEMMA PoolFrame ==
  ASSUME P!TypeOK, NEW c \in Calls, P!RouteStep(c) \/ P!LeakStep(c)
  PROVE  OthersRoute(c)
<1> USE DEF P!TypeOK, OthersRoute
<1>0. P!LeaveRoute(c) => OthersRoute(c)
  BY DEF P!LeaveRoute
<1>1. ASSUME NEW a \in Accounts, P!Checkout(c, a) \/ P!CheckoutUnacknowledged(c, a)
      PROVE  OthersRoute(c)
  BY <1>1 DEF P!Checkout, P!CheckoutUnacknowledged
<1>2. CASE P!CheckoutRefused(c) \/ P!StopRetrying(c) \/ P!RouteSucceeds(c) \/ P!RouteFails(c)
           \/ P!PreparationFails(c) \/ P!RetryAborted(c)
  BY <1>2 DEF P!CheckoutRefused, P!StopRetrying, P!RouteSucceeds, P!RouteFails,
              P!PreparationFails, P!RetryAborted
<1>3. CASE P!CountRequest(c)
  BY <1>0, <1>3 DEF P!CountRequest
<1>4. CASE P!ApplyHeaderSignals(c)
  BY <1>0, <1>4 DEF P!ApplyHeaderSignals
<1>5. CASE P!CompletionFails(c)
  BY <1>0, <1>5 DEF P!CompletionFails
<1> QED
  BY <1>1, <1>2, <1>3, <1>4, <1>5 DEF P!RouteStep, P!LeakStep

-----------------------------------------------------------------------------
(* Types *)

(* The types of Northbound's own variables.                                  *)
HandlerTypes == /\ step \in [Calls -> Steps]
                /\ result \in [Calls -> Finals \cup {"none"}]
                /\ cost \in [Calls -> Costs]
                /\ relayed \subseteq Streaming
                /\ claim \in [Ids -> Finals \cup {"none", "processing"}]
                /\ expired \subseteq Ids
                /\ usage \in [Ids -> UsageRows \cup {NoUsage}]

(* Every step keeps the types of handlers, claims and records.                *)
LEMMA HandlerTypesStep == HandlerTypes /\ ResultsKnown /\ [Next]_vars => HandlerTypes'
<1> SUFFICES ASSUME HandlerTypes, ResultsKnown, [Next]_vars PROVE HandlerTypes'
  OBVIOUS
<1> USE NorthboundAssumption DEF HandlerTypes, Steps, Finals, Goto, Outcome
<1>1. ASSUME NEW c \in Calls, Arrive(c) PROVE HandlerTypes'
  BY <1>1 DEF Arrive, Claim, ClaimRefused, recordVars
<1>2. ASSUME NEW c \in Calls, Handle(c) PROVE HandlerTypes'
  <2>1. CASE Abandon(c) \/ Reject(c) \/ Reserve(c)
    BY <2>1 DEF Abandon, Reject, Reserve, recordVars
  <2>2. CASE Route(c) \/ Drain(c)
    BY <2>2 DEF Route, Drain, handlerVars, recordVars
  <2>3. CASE Settle(c) \/ SettleRefused(c) \/ Fail(c) \/ NoAdapter(c)
    BY <2>3 DEF Settle, SettleRefused, Fail, NoAdapter, recordVars
  <2>4. CASE StreamEnds(c) \/ StreamRejected(c)
    BY <2>4 DEF StreamEnds, StreamRejected, recordVars
  <2>5. CASE Record(c)
    <3>1. [call |-> c, status |-> result[c], cost |-> cost[c]] \in UsageRows
      BY <2>5 DEF Record, Recording, ResultsKnown, UsageRows
    <3> QED
      BY <2>5, <3>1 DEF Record
  <2>6. CASE SkipRecord(c)
    BY <2>6 DEF SkipRecord, recordVars
  <2>7. CASE Complete(c)
    BY <2>7 DEF Complete
  <2> QED
    BY <1>2, <2>1, <2>2, <2>3, <2>4, <2>5, <2>6, <2>7 DEF Handle
<1>3. ASSUME NEW c \in Calls, Fault(c) PROVE HandlerTypes'
  BY <1>3 DEF Fault, WalletFault, StreamWalletFault, RouteFault, RecordFault, W!Amounts, Costs,
              handlerVars, recordVars
<1>4. ASSUME Crash PROVE HandlerTypes'
  BY <1>4 DEF Crash, recordVars
<1>5. ASSUME NEW i \in Ids, Expire(i) PROVE HandlerTypes'
  BY <1>5 DEF Expire, handlerVars
<1>6. ASSUME NEW a \in Accounts, Time(a) PROVE HandlerTypes'
  BY <1>6 DEF Time, handlerVars, recordVars
<1>7. ASSUME UNCHANGED vars PROVE HandlerTypes'
  BY <1>7 DEF vars, handlerVars, recordVars
<1> QED
  BY <1>1, <1>2, <1>3, <1>4, <1>5, <1>6, <1>7 DEF Next, UnexpiredNext, CalmNext

-----------------------------------------------------------------------------
(* Claims *)

(* What the claims' steps rest on.                                           *)
ClaimInv == HandlerTypes /\ ResultsKnown /\ ClaimsHeld /\ ServedOnce

(* A step that moves a call it does not begin, and leaves the claims alone.   *)
LEMMA ClaimsUntouched ==
  ASSUME ClaimInv, NEW c \in Calls, NEW s \in Steps \ {"new", "refused"},
         step[c] \notin {"new", "refused", "end"}, step' = [step EXCEPT ![c] = s],
         UNCHANGED <<claim, expired>>
  PROVE  ClaimsHeld' /\ ServedOnce'
BY NorthboundAssumption DEF ClaimInv, HandlerTypes, ClaimsHeld, ServedOnce

(* A claimed id stays with its call, and is served to no other.               *)
LEMMA ClaimsStep == ClaimInv /\ [Next]_vars => ClaimsHeld' /\ ServedOnce'
<1> SUFFICES ASSUME ClaimInv, [Next]_vars PROVE ClaimsHeld' /\ ServedOnce'
  OBVIOUS
<1> USE NorthboundAssumption DEF Steps, Goto
<1>1. ASSUME NEW c \in Calls, Arrive(c) PROVE ClaimsHeld' /\ ServedOnce'
  BY <1>1 DEF Arrive, Claim, ClaimRefused, recordVars, ClaimInv, HandlerTypes, ClaimsHeld, ServedOnce
<1>2. ASSUME NEW c \in Calls, Handle(c) PROVE ClaimsHeld' /\ ServedOnce'
  <2>1. CASE Abandon(c) \/ Reject(c) \/ Reserve(c)
    BY <2>1, ClaimsUntouched DEF Abandon, Reject, Reserve, recordVars
  <2>2. CASE Route(c) \/ Drain(c)
    BY <2>2 DEF Route, Drain, handlerVars, recordVars, ClaimInv, ClaimsHeld, ServedOnce
  <2>3. CASE Settle(c) \/ SettleRefused(c) \/ Fail(c) \/ NoAdapter(c)
    BY <2>3, ClaimsUntouched DEF Settle, SettleRefused, Fail, NoAdapter, recordVars
  <2>4. CASE StreamEnds(c) \/ StreamRejected(c)
    BY <2>4, ClaimsUntouched DEF StreamEnds, StreamRejected, recordVars
  <2>5. CASE Record(c) \/ SkipRecord(c)
    BY <2>5, ClaimsUntouched DEF Record, SkipRecord, Recording, recordVars
  <2>6. CASE Complete(c)
    BY <2>6 DEF Complete, ResultsKnown, Finals, ClaimInv, HandlerTypes, ClaimsHeld, ServedOnce
  <2> QED
    BY <1>2, <2>1, <2>2, <2>3, <2>4, <2>5, <2>6 DEF Handle
<1>3. ASSUME NEW c \in Calls, Fault(c) PROVE ClaimsHeld' /\ ServedOnce'
  <2>1. CASE WalletFault(c) \/ StreamWalletFault(c)
    BY <2>1, ClaimsUntouched DEF WalletFault, StreamWalletFault, recordVars
  <2>2. CASE RouteFault(c)
    BY <2>2 DEF RouteFault, handlerVars, recordVars, ClaimInv, ClaimsHeld, ServedOnce
  <2>3. CASE RecordFault(c)
    BY <2>3, ClaimsUntouched DEF RecordFault, Recording, recordVars
  <2> QED
    BY <1>3, <2>1, <2>2, <2>3 DEF Fault
<1>4. ASSUME Crash PROVE ClaimsHeld' /\ ServedOnce'
  BY <1>4 DEF Crash, recordVars, ClaimInv, HandlerTypes, ClaimsHeld, ServedOnce
<1>5. ASSUME NEW i \in Ids, Expire(i) PROVE ClaimsHeld' /\ ServedOnce'
  BY <1>5 DEF Expire, handlerVars, ClaimInv, HandlerTypes, ClaimsHeld, ServedOnce
<1>6. ASSUME NEW a \in Accounts, Time(a) PROVE ClaimsHeld' /\ ServedOnce'
  BY <1>6 DEF Time, handlerVars, recordVars, ClaimInv, ClaimsHeld, ServedOnce
<1>7. ASSUME UNCHANGED vars PROVE ClaimsHeld' /\ ServedOnce'
  BY <1>7 DEF vars, handlerVars, recordVars, ClaimInv, ClaimsHeld, ServedOnce
<1> QED
  BY <1>1, <1>2, <1>3, <1>4, <1>5, <1>6, <1>7 DEF Next, UnexpiredNext, CalmNext

(* A status is chosen before it is recorded.                                  *)
LEMMA ResultsStep == HandlerTypes /\ ResultsKnown /\ [Next]_vars => ResultsKnown'
<1> SUFFICES ASSUME HandlerTypes, ResultsKnown, [Next]_vars PROVE ResultsKnown'
  OBVIOUS
<1> USE DEF HandlerTypes, Steps, Finals, Goto, Outcome, ResultsKnown, handlerVars
<1>1. ASSUME NEW c \in Calls, Arrive(c) PROVE ResultsKnown'
  BY <1>1 DEF Arrive, Claim, ClaimRefused
<1>2. ASSUME NEW c \in Calls, Handle(c) PROVE ResultsKnown'
  <2>1. CASE Abandon(c) \/ Reject(c) \/ Reserve(c) \/ Route(c) \/ Drain(c)
    BY <2>1 DEF Abandon, Reject, Reserve, Route, Drain
  <2>2. CASE Settle(c) \/ SettleRefused(c) \/ Fail(c) \/ NoAdapter(c) \/ StreamEnds(c) \/ StreamRejected(c)
    BY <2>2 DEF Settle, SettleRefused, Fail, NoAdapter, StreamEnds, StreamRejected
  <2>3. CASE Record(c) \/ SkipRecord(c) \/ Complete(c)
    BY <2>3 DEF Record, SkipRecord, Recording, Complete
  <2> QED
    BY <1>2, <2>1, <2>2, <2>3 DEF Handle
<1>3. ASSUME NEW c \in Calls, Fault(c) PROVE ResultsKnown'
  BY <1>3 DEF Fault, WalletFault, StreamWalletFault, RouteFault, RecordFault, Recording
<1>4. ASSUME Crash PROVE ResultsKnown'
  BY <1>4 DEF Crash
<1>5. CASE \/ \E i \in Ids : Expire(i)
           \/ \E a \in Accounts : Time(a)
           \/ UNCHANGED vars
  BY <1>5 DEF Expire, Time, vars
<1> QED
  BY <1>1, <1>2, <1>3, <1>4, <1>5 DEF Next, UnexpiredNext, CalmNext

(* Every step keeps the final status of an id that the cleanup has not reached. *)
LEMMA FinalsStep ==
  ClaimInv /\ [Next]_vars =>
    \A i \in Ids : i \notin expired' /\ claim[i] \in Finals => claim'[i] = claim[i]
<1> SUFFICES ASSUME ClaimInv, [Next]_vars, NEW i \in Ids, i \notin expired', claim[i] \in Finals
             PROVE  claim'[i] = claim[i]
  OBVIOUS
<1> USE DEF ClaimInv, HandlerTypes, Finals, recordVars
<1>1. ASSUME NEW c \in Calls, Arrive(c) PROVE claim'[i] = claim[i]
  BY <1>1 DEF Arrive, Claim, ClaimRefused
<1>2. ASSUME NEW c \in Calls, Complete(c) PROVE claim'[i] = claim[i]
  BY <1>2 DEF Complete, ClaimsHeld
<1>3. ASSUME NEW c \in Calls, Handle(c), ~ Complete(c) PROVE claim'[i] = claim[i]
  BY <1>3 DEF Handle, Abandon, Reject, Reserve, Route, Drain, Settle, SettleRefused, Fail,
              NoAdapter, StreamEnds, StreamRejected, Record, SkipRecord
<1>4. ASSUME NEW c \in Calls, Fault(c) PROVE claim'[i] = claim[i]
  BY <1>4 DEF Fault, WalletFault, StreamWalletFault, RouteFault, RecordFault
<1>5. CASE Crash \/ (\E a \in Accounts : Time(a)) \/ UNCHANGED vars
  BY <1>5 DEF Crash, Time, vars
<1>6. ASSUME NEW j \in Ids, Expire(j) PROVE claim'[i] = claim[i]
  BY <1>6 DEF Expire
<1> QED
  BY <1>1, <1>2, <1>3, <1>4, <1>5, <1>6 DEF Next, UnexpiredNext, CalmNext

-----------------------------------------------------------------------------
(* Where a call stands with its route *)

(* Outside its upstream part a call has not begun to route, or has done with  *)
(* it.                                                                        *)
LEMMA RoutesBeginStep ==
  HandlerTypes /\ P!TypeOK /\ RoutesBegin /\ [Next]_vars => RoutesBegin'
<1> SUFFICES ASSUME HandlerTypes, P!TypeOK, RoutesBegin, [Next]_vars PROVE RoutesBegin'
  OBVIOUS
<1> USE DEF HandlerTypes, P!TypeOK, RoutesBegin, Goto, poolVars, handlerVars
<1>1. ASSUME NEW c \in Calls, Arrive(c) PROVE RoutesBegin'
  BY <1>1 DEF Arrive, Claim, ClaimRefused
<1>2. ASSUME NEW c \in Calls, Handle(c) PROVE RoutesBegin'
  <2>1. CASE Abandon(c) \/ Reject(c) \/ Reserve(c)
    BY <2>1 DEF Abandon, Reject, Reserve
  <2>2. CASE Route(c) \/ Drain(c)
    <3>1. P!RouteStep(c)
      BY <2>2 DEF Route, Drain, P!RouteStep
    <3>2. OthersRoute(c) /\ step' = step /\ step[c] \in {"route", "drain"}
      BY <2>2, <3>1, PoolFrame DEF Route, Drain
    <3> QED
      BY <3>2 DEF OthersRoute
  <2>3. CASE Settle(c) \/ SettleRefused(c) \/ Fail(c) \/ NoAdapter(c) \/ StreamEnds(c) \/ StreamRejected(c)
    BY <2>3 DEF Settle, SettleRefused, Fail, NoAdapter, StreamEnds, StreamRejected
  <2>4. CASE Record(c) \/ SkipRecord(c) \/ Complete(c)
    BY <2>4 DEF Record, SkipRecord, Recording, Complete
  <2> QED
    BY <1>2, <2>1, <2>2, <2>3, <2>4 DEF Handle
<1>3. ASSUME NEW c \in Calls, Fault(c) PROVE RoutesBegin'
  <2>1. CASE RouteFault(c)
    <3>1. P!LeakStep(c)
      BY <2>1 DEF RouteFault, P!LeakStep
    <3>2. OthersRoute(c) /\ step' = step /\ step[c] \in {"route", "drain"}
      BY <2>1, <3>1, PoolFrame DEF RouteFault
    <3> QED
      BY <3>2 DEF OthersRoute
  <2>2. CASE WalletFault(c) \/ StreamWalletFault(c) \/ RecordFault(c)
    BY <2>2 DEF WalletFault, StreamWalletFault, RecordFault, Recording
  <2> QED
    BY <1>3, <2>1, <2>2 DEF Fault
<1>4. ASSUME Crash PROVE RoutesBegin'
  BY <1>4 DEF Crash, P!StopHandlers
<1>5. ASSUME NEW a \in Accounts, Time(a) PROVE RoutesBegin'
  BY <1>5 DEF Time, P!TimeStep, P!CooldownPasses, P!QuotaRenewed, P!requestVars
<1>6. CASE (\E i \in Ids : Expire(i)) \/ UNCHANGED vars
  BY <1>6 DEF Expire, vars
<1> QED
  BY <1>1, <1>2, <1>3, <1>4, <1>5, <1>6 DEF Next, UnexpiredNext, CalmNext

-----------------------------------------------------------------------------
(* Money *)

(* What the steps on money and records rest on.                              *)
MoneyInv == DebitsExplained /\ ReservedHold /\ SuccessPaid /\ RowsTrue

(* A call is where it was, with its result, its cost and its money.          *)
SameMoney(d) ==
  /\ step'[d] = step[d] /\ result'[d] = result[d] /\ cost'[d] = cost[d]
  /\ d \in relayed' <=> d \in relayed
  /\ stage'[d] = stage[d] /\ hold'[d] = hold[d]
  /\ \A k \in W!EntryKinds : W!Entry(k, d) \in entries' <=> W!Entry(k, d) \in entries

(* The first three parts of MoneyInv, for one call.                          *)
MoneyOf(d) ==
  /\ Debited(d) => /\ step[d] \in {"drain", "record", "complete", "end"}
                   /\ result[d] = "success" \/ d \in relayed
  /\ W!Entry("reserve", d) \in entries => stage[d] # "new" /\ (stage[d] = "open" => hold[d] > 0)
  /\ result[d] = "success" =>
       /\ step[d] \in {"drain", "record", "complete", "end"}
       /\ d \notin Streaming /\ W!Entry("reserve", d) \in entries => (cost[d] > 0 <=> Debited(d))

(* What is said of the money of all calls is said of each.                    *)
LEMMA MoneyOfAll ==
  DebitsExplained /\ ReservedHold /\ SuccessPaid <=> \A d \in Calls : MoneyOf(d)
BY DEF DebitsExplained, ReservedHold, SuccessPaid, MoneyOf

(* A call whose money does not move keeps what is said of it.                 *)
LEMMA MoneyKept == ASSUME NEW d \in Calls, MoneyOf(d), SameMoney(d) PROVE MoneyOf(d)'
BY DEF MoneyOf, SameMoney, Debited, W!Entry, W!EntryKinds

(* A step of one call, on the wallet or beside it, is none of the others'.    *)
LEMMA OthersKeepTheirMoney ==
  ASSUME HandlerTypes, W!TypeOK, NEW c \in Calls, Arrive(c) \/ Handle(c) \/ Fault(c)
  PROVE  \A d \in Calls \ {c} : SameMoney(d)
<1> USE DEF HandlerTypes, Goto, Outcome
<1>1. /\ step' = step \/ \E s \in Steps : step' = [step EXCEPT ![c] = s]
      /\ result' = result \/ \E s \in Finals : result' = [result EXCEPT ![c] = s]
      /\ cost' = cost \/ \E n \in Costs : cost' = [cost EXCEPT ![c] = n]
      /\ relayed' = relayed \/ relayed' = relayed \cup {c}
  <2> USE DEF Steps, Finals
  <2>1. CASE Arrive(c) \/ Abandon(c) \/ Reject(c) \/ Reserve(c) \/ Route(c) \/ Drain(c)
    BY <2>1 DEF Arrive, Claim, ClaimRefused, Abandon, Reject, Reserve, Route, Drain, handlerVars
  <2>2. CASE Settle(c) \/ SettleRefused(c) \/ Fail(c) \/ NoAdapter(c)
    BY <2>2 DEF Settle, SettleRefused, Fail, NoAdapter
  <2>3. CASE StreamEnds(c) \/ StreamRejected(c)
    BY <2>3 DEF StreamEnds, StreamRejected
  <2>4. CASE Record(c) \/ SkipRecord(c) \/ Complete(c)
    BY <2>4 DEF Record, SkipRecord, Complete
  <2>5. CASE WalletFault(c) \/ RouteFault(c) \/ RecordFault(c)
    BY <2>5 DEF WalletFault, RouteFault, RecordFault, handlerVars
  <2>6. CASE StreamWalletFault(c)
    BY <2>6, NorthboundAssumption DEF StreamWalletFault, W!Amounts, Costs
  <2> QED
    BY <2>1, <2>2, <2>3, <2>4, <2>5, <2>6 DEF Handle, Fault
<1>2. OthersHold(c)
  <2>1. CASE UNCHANGED walletVars
    BY <2>1 DEF walletVars, OthersHold
  <2>2. CASE W!RequestStep(c)
    BY <2>2, WalletFrame
  <2>3. W!RequestStep(c) \/ UNCHANGED walletVars
    <3>1. CASE Reserve(c)
      BY <3>1 DEF Reserve, W!RequestStep
    <3>2. CASE Settle(c) \/ SettleRefused(c) \/ Fail(c) \/ NoAdapter(c) \/ StreamEnds(c) \/ StreamRejected(c)
      BY <3>2 DEF Settle, SettleRefused, Fail, NoAdapter, StreamEnds, StreamRejected, Release,
                  W!RequestStep, Costs
    <3>3. CASE WalletFault(c) \/ StreamWalletFault(c)
      BY <3>3 DEF WalletFault, StreamWalletFault, W!RequestStep
    <3>4. CASE \/ Arrive(c) \/ Abandon(c) \/ Reject(c) \/ Route(c) \/ Drain(c) \/ Record(c)
               \/ SkipRecord(c) \/ Complete(c) \/ RouteFault(c) \/ RecordFault(c)
      BY <3>4 DEF Arrive, Claim, ClaimRefused, Abandon, Reject, Route, Drain, Record, SkipRecord,
                  Complete, RouteFault, RecordFault
    <3> QED
      BY <3>1, <3>2, <3>3, <3>4 DEF Handle, Fault
  <2> QED
    BY <2>1, <2>2, <2>3
<1> QED
  BY <1>1, <1>2 DEF SameMoney, OthersHold

(* Whatever a call does, what is known of its own money stays true.          *)
LEMMA OwnMoney ==
  ASSUME HandlerTypes, W!TypeOK, NEW c \in Calls, MoneyOf(c), Arrive(c) \/ Handle(c) \/ Fault(c)
  PROVE  MoneyOf(c)'
<1> USE NorthboundAssumption
        DEF HandlerTypes, W!TypeOK, Goto, Outcome, MoneyOf, Debited, W!Entry, handlerVars, walletVars
<1>1. CASE Arrive(c)
  BY <1>1 DEF Arrive, Claim, ClaimRefused
<1>2. CASE Abandon(c) \/ Reject(c) \/ Route(c) \/ Drain(c)
  BY <1>2 DEF Abandon, Reject, Route, Drain
<1>3. CASE Record(c) \/ SkipRecord(c) \/ Complete(c) \/ RouteFault(c) \/ RecordFault(c)
  BY <1>3 DEF Record, SkipRecord, Recording, Complete, RouteFault, RecordFault
<1>4. CASE Reserve(c)
  BY <1>4 DEF Reserve, W!ReserveNothing, W!ReserveWallet, W!ReserveRefused, W!AddToReserved, W!Amounts
<1>5. CASE Settle(c)
  BY <1>5 DEF Settle, W!SettleReservation, W!CloseNothing, Costs
<1>6. CASE SettleRefused(c) \/ Fail(c) \/ NoAdapter(c) \/ StreamRejected(c)
  BY <1>6 DEF SettleRefused, Fail, NoAdapter, StreamRejected, Release, W!SettleRefused,
              W!ReleaseReservation, W!CloseNothing
<1>7. CASE StreamEnds(c)
  BY <1>7 DEF StreamEnds, W!SettleReservation, W!SettleRefused, W!CloseNothing, Costs
<1>8. CASE WalletFault(c)
  BY <1>8 DEF WalletFault, W!ReserveUnacknowledged, W!AddToReserved, W!Amounts, W!CloseFails
<1>9. CASE StreamWalletFault(c)
  BY <1>9 DEF StreamWalletFault, W!CloseFails
<1> QED
  BY <1>1, <1>2, <1>3, <1>4, <1>5, <1>6, <1>7, <1>8, <1>9 DEF Handle, Fault

(* What a call has settled on it does not change.                            *)
LEMMA SettledStands ==
  ASSUME HandlerTypes, [Next]_vars, NEW c \in Calls, step[c] \in {"complete", "end"}
  PROVE  step'[c] \in {"complete", "end"} /\ result'[c] = result[c] /\ cost'[c] = cost[c]
<1> USE DEF HandlerTypes, Goto, Outcome, handlerVars
<1>1. ASSUME NEW d \in Calls, Arrive(d) \/ Handle(d) \/ Fault(d)
      PROVE  step'[c] \in {"complete", "end"} /\ result'[c] = result[c] /\ cost'[c] = cost[c]
  <2>1. CASE Arrive(d) \/ Abandon(d) \/ Reject(d) \/ Reserve(d) \/ Route(d) \/ Drain(d)
    BY <2>1 DEF Arrive, Claim, ClaimRefused, Abandon, Reject, Reserve, Route, Drain
  <2>2. CASE Settle(d) \/ SettleRefused(d) \/ Fail(d) \/ NoAdapter(d)
    BY <2>2 DEF Settle, SettleRefused, Fail, NoAdapter
  <2>3. CASE StreamEnds(d) \/ StreamRejected(d)
    BY <2>3 DEF StreamEnds, StreamRejected
  <2>4. CASE Record(d) \/ SkipRecord(d) \/ Complete(d)
    BY <2>4 DEF Record, SkipRecord, Recording, Complete
  <2>5. CASE Fault(d)
    BY <2>5 DEF Fault, WalletFault, StreamWalletFault, RouteFault, RecordFault, Recording
  <2> QED
    BY <1>1, <2>1, <2>2, <2>3, <2>4, <2>5 DEF Handle
<1>2. CASE Crash
  BY <1>2 DEF Crash
<1>3. CASE \/ \E i \in Ids : Expire(i)
           \/ \E a \in Accounts : Time(a)
           \/ UNCHANGED vars
  BY <1>3 DEF Expire, Time, vars
<1> QED
  BY <1>1, <1>2, <1>3 DEF Next, UnexpiredNext, CalmNext

(* The records stay true: only Record writes one.                            *)
LEMMA RowsStep == HandlerTypes /\ RowsTrue /\ [Next]_vars => RowsTrue'
<1> SUFFICES ASSUME HandlerTypes, RowsTrue, [Next]_vars PROVE RowsTrue'
  OBVIOUS
<1>1. ASSUME NEW c \in Calls, Record(c) PROVE RowsTrue'
  <2>1. /\ step'[c] = "complete" /\ result' = result /\ cost' = cost
        /\ usage' = [usage EXCEPT ![Sent[c]] =
                        IF @ = NoUsage
                        THEN [call |-> c, status |-> result[c], cost |-> cost[c]]
                        ELSE @]
    BY <1>1 DEF Record, Goto, HandlerTypes
  <2> SUFFICES ASSUME NEW i \in Ids, usage'[i] # NoUsage
               PROVE  /\ usage'[i].call \in Calls
                      /\ step'[usage'[i].call] \in {"complete", "end"}
                      /\ usage'[i].status = result'[usage'[i].call]
                      /\ usage'[i].cost = cost'[usage'[i].call]
    BY DEF RowsTrue
  <2>2. CASE i = Sent[c] /\ usage[i] = NoUsage
    BY <2>1, <2>2 DEF HandlerTypes
  <2>3. CASE ~ (i = Sent[c] /\ usage[i] = NoUsage)
    <3>1. usage'[i] = usage[i]
      BY <2>1, <2>3 DEF HandlerTypes
    <3> QED
      BY <3>1, SettledStands DEF RowsTrue
  <2> QED
    BY <2>2, <2>3
<1>2. CASE UNCHANGED usage
  BY <1>2, SettledStands DEF RowsTrue
<1>3. (\E c \in Calls : Record(c)) \/ UNCHANGED usage
  <2> USE DEF recordVars
  <2>1. ASSUME NEW c \in Calls, Arrive(c) \/ Handle(c) PROVE Record(c) \/ UNCHANGED usage
    BY <2>1 DEF Arrive, Claim, ClaimRefused, Handle, Abandon, Reject, Reserve, Route, Drain, Settle,
                SettleRefused, Fail, NoAdapter, StreamEnds, StreamRejected, SkipRecord, Complete
  <2>2. ASSUME NEW c \in Calls, Fault(c) PROVE UNCHANGED usage
    BY <2>2 DEF Fault, WalletFault, StreamWalletFault, RouteFault, RecordFault
  <2>3. CASE \/ Crash
             \/ \E i \in Ids : Expire(i)
             \/ \E a \in Accounts : Time(a)
             \/ UNCHANGED vars
    BY <2>3 DEF Crash, Expire, Time, vars
  <2> QED
    BY <2>1, <2>2, <2>3 DEF Next, UnexpiredNext, CalmNext
<1> QED
  BY <1>1, <1>2, <1>3

(* Every step keeps what is said of the money of a call.                      *)
LEMMA MoneyStep == HandlerTypes /\ W!TypeOK /\ MoneyInv /\ [Next]_vars => MoneyInv'
<1> SUFFICES ASSUME HandlerTypes, W!TypeOK, MoneyInv, [Next]_vars PROVE MoneyInv'
  OBVIOUS
<1>0. \A d \in Calls : MoneyOf(d)
  BY MoneyOfAll DEF MoneyInv
<1>1. ASSUME NEW d \in Calls PROVE MoneyOf(d)'
  <2>1. ASSUME NEW c \in Calls, Arrive(c) \/ Handle(c) \/ Fault(c) PROVE MoneyOf(d)'
    <3>1. CASE c = d
      BY <1>0, <2>1, <3>1, OwnMoney
    <3>2. CASE c # d
      <4>1. SameMoney(d)
        BY <2>1, <3>2, OthersKeepTheirMoney
      <4> QED
        BY <1>0, <4>1, MoneyKept
    <3> QED
      BY <3>1, <3>2
  <2>2. CASE Crash
    BY <1>0, <2>2 DEF Crash, MoneyOf, Debited, W!Crash, walletVars, HandlerTypes, W!TypeOK
  <2>3. CASE \/ \E i \in Ids : Expire(i)
             \/ \E a \in Accounts : Time(a)
             \/ UNCHANGED vars
    BY <1>0, <2>3 DEF Expire, Time, vars, handlerVars, walletVars, MoneyOf, Debited
  <2> QED
    BY <2>1, <2>2, <2>3 DEF Next, UnexpiredNext, CalmNext
<1>2. RowsTrue'
  BY RowsStep DEF MoneyInv
<1>3. (DebitsExplained /\ ReservedHold /\ SuccessPaid)'
  BY <1>1 DEF DebitsExplained, ReservedHold, SuccessPaid, MoneyOf, Debited
<1> QED
  BY <1>2, <1>3 DEF MoneyInv

-----------------------------------------------------------------------------
(* The invariant and what follows from it *)

(* The inductive invariant.                                                  *)
CallInv == /\ HandlerTypes /\ ResultsKnown /\ ClaimsHeld /\ ServedOnce
           /\ RoutesBegin /\ MoneyInv
           /\ WP!WalletInv /\ PP!TypeOK /\ PP!RoutesHeld

(* The constants are what the wallet's and the pool's proofs ask for.        *)
LEMMA ConstantsFit == WP!WalletAssumption /\ PP!PoolAssumption
BY NorthboundAssumption DEF WP!WalletAssumption, PP!PoolAssumption, WP!IsFiniteSet, PP!IsFiniteSet, IsFiniteSet

(* No call has begun at first.                                                *)
LEMMA CallsInitially == Init => CallInv
<1> SUFFICES ASSUME Init PROVE CallInv
  OBVIOUS
<1>1. WP!WalletInv
  BY SameWallet, ConstantsFit, WP!WalletInitInv DEF Init
<1>2. PP!TypeOK /\ PP!RoutesHeld
  BY SamePool, ConstantsFit, PP!PoolInitially DEF Init, PP!PoolInv
<1>3. HandlerTypes
  BY NorthboundAssumption DEF Init, HandlerTypes, Steps, Finals, Costs
<1>4. ResultsKnown /\ ClaimsHeld /\ ServedOnce
  BY DEF Init, ResultsKnown, ClaimsHeld, ServedOnce
<1>5. RoutesBegin
  BY DEF Init, RoutesBegin, P!Init
<1>6. MoneyInv
  BY DEF Init, W!Init, MoneyInv, DebitsExplained, ReservedHold, SuccessPaid, RowsTrue, Debited
<1> QED
  BY <1>1, <1>2, <1>3, <1>4, <1>5, <1>6 DEF CallInv

(* Every step keeps all of it.                                                *)
LEMMA CallsStep == CallInv /\ [Next]_vars => CallInv'
<1> SUFFICES ASSUME CallInv, [Next]_vars PROVE CallInv'
  OBVIOUS
<1> USE DEF CallInv
<1>1. W!TypeOK /\ P!TypeOK
  BY SameWallet, SamePool DEF WP!WalletInv
<1>2. WP!WalletInv'
  <2>1. [WP!Next]_(WP!vars)
    BY NorthboundMovesWallet, SameWallet DEF W!vars, WP!vars
  <2> QED
    BY <2>1, ConstantsFit, WP!WalletNextInv
<1>3. PP!TypeOK' /\ PP!RoutesHeld'
  <2>1. [PP!Next]_(PP!vars)
    BY <1>1, NorthboundMovesPool, SamePool DEF P!vars, PP!vars, P!accountVars, PP!accountVars,
                                               P!requestVars, PP!requestVars
  <2> QED
    BY <2>1, ConstantsFit, PP!TypeStep, PP!RoutesStep
<1>4. HandlerTypes' /\ ResultsKnown'
  BY HandlerTypesStep, ResultsStep
<1>5. ClaimsHeld' /\ ServedOnce'
  BY ClaimsStep DEF ClaimInv
<1>6. RoutesBegin'
  BY <1>1, RoutesBeginStep
<1>7. MoneyInv'
  BY <1>1, MoneyStep
<1> QED
  BY <1>2, <1>3, <1>4, <1>5, <1>6, <1>7

(* The inductive invariant of the relay.                                     *)
THEOREM CallInvariance == Spec => []CallInv
BY CallsInitially, CallsStep, PTL DEF Spec

(* The handlers, the claims and the records keep their types, with those of   *)
(* the wallet and of the pool.                                               *)
THEOREM CallTypes == Spec => []TypeOK
<1>1. CallInv => TypeOK
  BY SameWallet, SamePool DEF CallInv, HandlerTypes, TypeOK, WP!WalletInv
<1> QED
  BY <1>1, CallInvariance, PTL

(* Two calls with one id are never both served while the row of the id is     *)
(* there (claimIdempotency's INSERT), faults and crashes included.           *)
THEOREM IdsAreServedOnce == Spec => []ServedOnce
<1>1. CallInv => ServedOnce
  BY DEF CallInv
<1> QED
  BY <1>1, CallInvariance, PTL

(* No call overwrites the final status of an id (completeIdempotency): its    *)
(* UPDATE does not look at the status, but a second call never gets there.   *)
THEOREM FinalStatusesStand == Spec => FinalStatusStands
<1>1. CallInv /\ [Next]_vars =>
        [\A i \in Ids : i \notin expired' /\ claim[i] \in Finals => claim'[i] = claim[i]]_<<claim, expired>>
  BY FinalsStep DEF CallInv, ClaimInv
<1> QED
  BY <1>1, CallInvariance, PTL DEF Spec, FinalStatusStands

(* What a handler records of a call is true of its money and of its route,    *)
(* whatever fails between its transactions: nobody pays for a failure, a cost *)
(* on record was debited, and the route is closed.                           *)
THEOREM RecordsAreTrue == Spec => []OutcomesAreTrue
<1>1. CallInv => OutcomesAreTrue
  <2> SUFFICES ASSUME CallInv PROVE OutcomesAreTrue
    OBVIOUS
  <2>1. FailuresAreFree
    BY DEF CallInv, MoneyInv, DebitsExplained, FailuresAreFree
  <2>2. UsageIsPaid
    BY DEF CallInv, MoneyInv, SuccessPaid, RowsTrue, UsageIsPaid
  <2>3. RouteClosed
    BY DEF CallInv, RoutesBegin, RouteClosed
  <2> QED
    BY <2>1, <2>2, <2>3 DEF OutcomesAreTrue
<1> QED
  BY <1>1, CallInvariance, PTL

(* The calls are a behaviour of the wallet: they touch the row by the         *)
(* transactions of Wallet alone.                                             *)
THEOREM CallsMoveTheWallet == Spec => W!Spec
<1>1. Init => W!Init
  BY DEF Init
<1> QED
  BY <1>1, NorthboundMovesWallet, PTL DEF Spec, W!Spec

(* The calls are a behaviour of the pool: a handler takes, holds and gives    *)
(* back its slot only as AccountPool says, and the gateway's crash is one of  *)
(* the pool's.                                                               *)
THEOREM CallsMoveThePool == Spec => P!Spec
<1>1. Init => P!Init
  BY DEF Init
<1>2. CallInv /\ [Next]_vars => [P!Next]_(P!vars)
  BY NorthboundMovesPool, SamePool DEF CallInv
<1> QED
  BY <1>1, <1>2, CallInvariance, PTL DEF Spec, P!Spec

-----------------------------------------------------------------------------
(* Without faults *)

(* What a call has put aside it has in hand, or it waits for a route that is  *)
(* going to be answered, or was.                                             *)
HoldAccounted(c) ==
  /\ step[c] \in {"new", "refused", "admit"} => hold[c] = 0
  /\ step[c] = "drain" /\ hold[c] > 0 => c \in relayed /\ (phase[c] = "call" \/ c \in answered)
  /\ step[c] \in {"record", "complete", "end"} /\ hold[c] > 0 => c \in answered

(* A debit is on record as soon as its handler has passed its record.        *)
DebitOnRecord(c) ==
  Debited(c) /\ step[c] \in {"complete", "end"} =>
    usage[Sent[c]] # NoUsage /\ usage[Sent[c]].call = c

(* A record is of a call that sent its id.                                   *)
RowsNamed == \A i \in Ids : usage[i] # NoUsage => Sent[usage[i].call] = i

(* What holds besides CallInv when nothing fails and no claim expires.        *)
CalmInv == /\ expired = {} /\ RowsNamed
           /\ \A c \in Calls : HoldAccounted(c) /\ DebitOnRecord(c)

(* No route of one call takes back another's answer.                         *)
LEMMA AnswersStand ==
  ASSUME NEW c \in Calls, P!RouteStep(c)
  PROVE  answered \subseteq answered'
BY DEF P!RouteStep, P!Checkout, P!CheckoutRefused, P!StopRetrying, P!RouteSucceeds, P!RouteFails,
       P!CountRequest, P!ApplyHeaderSignals, P!PreparationFails, P!LeaveRoute

(* Nobody else's step takes away a call's answer.                            *)
LEMMA OthersKeepTheirRoute ==
  ASSUME P!TypeOK, NEW c \in Calls, Arrive(c) \/ Handle(c)
  PROVE  OthersRoute(c) /\ answered \subseteq answered'
<1>1. CASE Route(c) \/ Drain(c)
  <2>1. P!RouteStep(c)
    BY <1>1 DEF Route, Drain, P!RouteStep
  <2> QED
    BY <2>1, AnswersStand, PoolFrame
<1>2. CASE ~ (Route(c) \/ Drain(c))
  <2>1. UNCHANGED poolVars
    BY <1>2 DEF Arrive, Claim, ClaimRefused, Handle, Abandon, Reject, Reserve, Settle, SettleRefused,
                Fail, NoAdapter, StreamEnds, StreamRejected, Record, SkipRecord, Complete
  <2> QED
    BY <2>1 DEF poolVars, OthersRoute
<1> QED
  BY <1>1, <1>2

(* What a call's own step does to its hold.                                  *)
LEMMA OwnHold ==
  ASSUME HandlerTypes, W!TypeOK, P!TypeOK, NEW c \in Calls, HoldAccounted(c), Arrive(c) \/ Handle(c)
  PROVE  HoldAccounted(c)'
<1> USE DEF HandlerTypes, W!TypeOK, P!TypeOK, Goto, HoldAccounted, handlerVars, walletVars, poolVars
<1>1. CASE Arrive(c)
  BY <1>1 DEF Arrive, Claim, ClaimRefused
<1>2. CASE Abandon(c) \/ Reject(c)
  BY <1>2 DEF Abandon, Reject
<1>3. CASE Route(c)
  BY <1>3 DEF Route
<1>4. CASE Drain(c)
  <2>1. \/ P!RouteSucceeds(c) \/ P!CountRequest(c) \/ P!ApplyHeaderSignals(c) \/ P!StopRetrying(c)
        \/ c \notin relayed
    BY <1>4 DEF Drain
  <2>2. P!RouteSucceeds(c) => c \in answered'
    BY DEF P!RouteSucceeds
  <2>3. P!CountRequest(c) \/ P!ApplyHeaderSignals(c) \/ P!StopRetrying(c) =>
          phase[c] # "call" /\ answered' = answered
    BY DEF P!CountRequest, P!ApplyHeaderSignals, P!StopRetrying, P!LeaveRoute
  <2>4. step' = step /\ hold' = hold /\ relayed' = relayed /\ step[c] = "drain"
    BY <1>4 DEF Drain
  <2> QED
    BY <2>1, <2>2, <2>3, <2>4
<1>5. CASE Record(c) \/ SkipRecord(c) \/ Complete(c)
  BY <1>5 DEF Record, SkipRecord, Recording, Complete
<1>6. CASE Reserve(c)
  BY <1>6 DEF Reserve, W!ReserveRefused
<1>7. CASE Settle(c)
  BY <1>7 DEF Settle
<1>8. CASE SettleRefused(c) \/ NoAdapter(c)
  BY <1>8 DEF SettleRefused, NoAdapter
<1>9. CASE Fail(c) \/ StreamRejected(c)
  BY <1>9 DEF Fail, StreamRejected, Release, W!ReleaseReservation, W!CloseNothing
<1>10. CASE StreamEnds(c)
  BY <1>10 DEF StreamEnds
<1> QED
  BY <1>1, <1>2, <1>3, <1>4, <1>5, <1>6, <1>7, <1>8, <1>9, <1>10 DEF Handle

(* Two handlers of one id never write its record, so a handler that comes to  *)
(* its record finds none.                                                    *)
LEMMA OwnRecord ==
  ASSUME CallInv, CalmInv, NEW c \in Calls, Record(c)
  PROVE  usage' = [usage EXCEPT ![Sent[c]] = [call |-> c, status |-> result[c], cost |-> cost[c]]]
<1> DEFINE i == Sent[c]
<1>1. i \in Ids /\ step[c] \in {"record", "drain"}
  BY NorthboundAssumption DEF Record, Recording
<1>2. usage[i] = NoUsage
  <2> SUFFICES ASSUME usage[i] # NoUsage PROVE FALSE
    OBVIOUS
  <2>1. PICK d : d = usage[i].call
    OBVIOUS
  <2>2. d \in Calls /\ step[d] \in {"complete", "end"} /\ Sent[d] = i
    BY <1>1, <2>1 DEF CallInv, MoneyInv, RowsTrue, CalmInv, RowsNamed
  <2>3. c # d /\ Sent[c] = Sent[d] /\ Sent[c] \notin expired
    BY <1>1, <2>2 DEF CalmInv
  <2> QED
    BY <1>1, <2>2, <2>3 DEF CallInv, ServedOnce
<1> QED
  BY <1>2 DEF Record

(* A debit that is on record stays there, and one that is not there yet is    *)
(* recorded before its handler goes on.                                      *)
LEMMA DebitsStep ==
  ASSUME CallInv, CalmInv, W!TypeOK, NEW c \in Calls, Arrive(c) \/ Handle(c)
  PROVE  RowsNamed' /\ \A d \in Calls : DebitOnRecord(d)'
<1>0. /\ usage \in [Ids -> UsageRows \cup {NoUsage}] /\ step \in [Calls -> Steps]
      /\ \A d \in Calls : Sent[d] \in Ids
  BY NorthboundAssumption DEF CallInv, HandlerTypes
<1>d. \A d \in Calls : DebitOnRecord(d)
  BY DEF CalmInv
<1>o. \A d \in Calls \ {c} : step'[d] = step[d] /\ (Debited(d)' <=> Debited(d))
  BY OthersKeepTheirMoney DEF CallInv, SameMoney, Debited, W!EntryKinds
<1>1. CASE Record(c)
  <2>1. /\ usage' = [usage EXCEPT ![Sent[c]] = [call |-> c, status |-> result[c], cost |-> cost[c]]]
        /\ step' = [step EXCEPT ![c] = "complete"] /\ entries' = entries
    BY <1>1, OwnRecord DEF Record, Goto, walletVars
  <2>2. step[c] \in {"record", "drain"}
    BY <1>1 DEF Record, Recording
  <2>3. ASSUME NEW d \in Calls \ {c}, Debited(d), step[d] \in {"complete", "end"}
        PROVE  Sent[d] # Sent[c]
    BY <2>2, <2>3 DEF CallInv, ServedOnce, CalmInv
  <2>4. RowsNamed'
    BY <1>0, <2>1 DEF CalmInv, RowsNamed
  <2>5. [call |-> c, status |-> result[c], cost |-> cost[c]] # NoUsage
    <3>1. [call |-> c, status |-> result[c], cost |-> cost[c]] \in UsageRows
      BY <2>2 DEF CallInv, HandlerTypes, ResultsKnown, UsageRows
    <3> QED
      BY <3>1, NorthboundAssumption
  <2> QED
    BY <1>0, <1>d, <1>o, <2>1, <2>3, <2>4, <2>5 DEF DebitOnRecord
<1>2. CASE ~ Record(c)
  <2>1. usage' = usage
    BY <1>2 DEF Arrive, Claim, ClaimRefused, Handle, Abandon, Reject, Reserve, Route, Drain, Settle,
                SettleRefused, Fail, NoAdapter, StreamEnds, StreamRejected, SkipRecord, Complete, recordVars
  <2>2. RowsNamed'
    BY <2>1 DEF CalmInv, RowsNamed
  <2>3. DebitOnRecord(c)'
    <3>1. Debited(c)' /\ step'[c] \in {"complete", "end"} => Debited(c) /\ step[c] = "complete"
      <4> USE DEF Goto, Outcome
      <4>e. Debited(c) => /\ step[c] \in {"drain", "record", "complete", "end"}
                          /\ result[c] = "success" \/ c \in relayed
        BY DEF CallInv, MoneyInv, DebitsExplained
      <4>1. CASE Arrive(c) \/ Reject(c) \/ Reserve(c) \/ Settle(c) \/ Fail(c) \/ StreamEnds(c) \/ StreamRejected(c)
        BY <1>0, <4>1 DEF Arrive, Claim, ClaimRefused, Reject, Reserve, Settle, Fail, StreamEnds, StreamRejected
      <4>2. CASE Route(c) \/ Drain(c)
        BY <4>2 DEF Route, Drain, handlerVars
      <4>3. CASE Abandon(c) \/ SkipRecord(c) \/ Complete(c)
        BY <1>0, <4>e, <4>3 DEF Abandon, SkipRecord, Complete, Debited, walletVars
      <4>4. CASE SettleRefused(c) \/ NoAdapter(c)
        BY <4>e, <4>4 DEF SettleRefused, NoAdapter, Release, W!SettleRefused, W!ReleaseReservation,
                          W!CloseNothing, W!Entry, Debited
      <4> QED
        BY <1>2, <4>1, <4>2, <4>3, <4>4 DEF Handle
    <3> QED BY <1>d, <2>1, <3>1 DEF DebitOnRecord
  <2> QED
    BY <1>d, <1>o, <2>1, <2>2, <2>3 DEF DebitOnRecord
<1> QED
  BY <1>1, <1>2

(* When nothing fails the books are kept at every step.                      *)
LEMMA CalmStep == CallInv /\ CalmInv /\ [CalmNext]_vars => CalmInv'
<1> SUFFICES ASSUME CallInv, CalmInv, [CalmNext]_vars PROVE CalmInv'
  OBVIOUS
<1>t. HandlerTypes /\ W!TypeOK /\ P!TypeOK
  BY SameWallet, SamePool DEF CallInv, WP!WalletInv
<1>1. ASSUME NEW c \in Calls, Arrive(c) \/ Handle(c) PROVE CalmInv'
  <2>1. expired' = {}
    BY <1>1 DEF CalmInv, Arrive, Claim, ClaimRefused, Handle, Abandon, Reject, Reserve, Route, Drain, Settle,
                SettleRefused, Fail, NoAdapter, StreamEnds, StreamRejected, Record, SkipRecord, Complete,
                recordVars
  <2>2. RowsNamed' /\ \A d \in Calls : DebitOnRecord(d)'
    BY <1>1, <1>t, DebitsStep
  <2>3. HoldAccounted(c)'
    BY <1>1, <1>t, OwnHold DEF CalmInv
  <2>4. ASSUME NEW d \in Calls \ {c} PROVE HoldAccounted(d)'
    <3>1. SameMoney(d) /\ phase'[d] = phase[d] /\ answered \subseteq answered'
      BY <1>1, <1>t, OthersKeepTheirMoney, OthersKeepTheirRoute DEF OthersRoute
    <3> QED
      BY <3>1 DEF CalmInv, HoldAccounted, SameMoney
  <2> QED
    BY <2>1, <2>2, <2>3, <2>4 DEF CalmInv
<1>2. CASE (\E a \in Accounts : Time(a)) \/ UNCHANGED vars
  <2>1. /\ UNCHANGED <<handlerVars, recordVars, walletVars>>
        /\ UNCHANGED <<phase, answered>>
    BY <1>2 DEF Time, P!TimeStep, P!CooldownPasses, P!QuotaRenewed, P!requestVars, vars, poolVars
  <2> QED
    BY <2>1 DEF CalmInv, RowsNamed, HoldAccounted, DebitOnRecord, Debited, handlerVars, recordVars, walletVars
<1> QED
  BY <1>1, <1>2 DEF CalmNext

(* When nothing fails, every debit of a call that has ended is in the usage   *)
(* records, and no call leaves a reservation behind but one whose upstream    *)
(* answered and whose settlement was refused: for any number of calls that    *)
(* compete for one wallet and for the accounts (northboundProxy,              *)
(* streamUpstream).                                                          *)
THEOREM CalmCallsAgree == CalmSpec => []BooksAgree
<1>1. Init => CallInv /\ CalmInv
  <2>1. Init => CalmInv
    BY DEF Init, W!Init, CalmInv, RowsNamed, HoldAccounted, DebitOnRecord
  <2> QED
    BY <2>1, CallsInitially
<1>2. CallInv /\ CalmInv /\ [CalmNext]_vars => (CallInv /\ CalmInv)'
  <2>1. [CalmNext]_vars => [Next]_vars
    BY DEF Next, UnexpiredNext
  <2> QED
    BY <2>1, CallsStep, CalmStep
<1>3. CallInv /\ CalmInv => BooksAgree
  BY DEF CalmInv, HoldAccounted, DebitOnRecord, BooksAgree, DebitsAreRecorded, ReservationsReturned
<1> QED
  BY <1>1, <1>2, <1>3, PTL DEF CalmSpec

=============================================================================
