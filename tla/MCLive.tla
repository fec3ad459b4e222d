------------------------------- MODULE MCLive -------------------------------
(* What comes to its end when nothing fails: retries between two accounts,    *)
(* two calls that compete for a wallet and an account, and an order paid at   *)
(* a provider that is asked.  A behaviour belongs to the part that is drawn   *)
(* when it begins; the other parts stand still.  The pool's part has the      *)
(* calls' pool to itself, with two accounts.                                  *)
EXTENDS Northbound, TLC

VARIABLE part

(* Of Payments.                                                               *)
VARIABLES status, funds, credits, reversals, sub, member, session, refunded, renewed, ended,
          event, handler, admin, overdue, asked

callVars    == <<handlerVars, recordVars, walletVars>>
paymentVars == <<status, funds, credits, reversals, sub, member, session, refunded, renewed,
                 ended, event, handler, admin, overdue, asked>>
liveVars    == <<part, vars, paymentVars>>

CONSTANTS a1, a2, r1, r2, i1, i2, o1, h1, h2, m1, Nobody

(* Two calls with their own ids, one of them a stream.                        *)
MCSent == (r1 :> i1) @@ (r2 :> i2)
MCLimit == [a \in {a1} |-> 2]

A == INSTANCE AccountPool WITH
       Accounts <- {a1, a2}, Requests <- Calls, MaxConcurrency <- (a1 :> 2) @@ (a2 :> 1),
       Threshold <- 2, MaxQuota <- 2

Y == INSTANCE Payments WITH
       Orders <- {o1}, Subscriptions <- {}, Unified <- {o1}, Worth <- (o1 :> 1),
       Handlers <- {h1, h2}, Admins <- {m1}, MaxSessions <- 2, MaxFunds <- 1

-----------------------------------------------------------------------------
Off == "off"

CallOff == /\ step = [c \in Calls |-> Off] /\ result = Off /\ cost = Off /\ relayed = Off
           /\ claim = Off /\ expired = Off /\ usage = Off /\ balance = Off /\ reserved = Off /\ stage = Off
           /\ hold = Off /\ entries = Off

LiveInit == /\ part \in {"pool", "calls", "payments"}
            /\ IF part = "calls" THEN Init ELSE A!Init /\ CallOff
            /\ Y!Init

Pool(Step)     == part = "pool" /\ Step /\ UNCHANGED <<part, callVars, paymentVars>>
Call(Step)     == part = "calls" /\ Step /\ UNCHANGED <<part, paymentVars>>
Payment(Step)  == part = "payments" /\ Step /\ UNCHANGED <<part, vars>>

LiveNext == Pool(A!LeakFreeNext) \/ Call(CalmNext) \/ Payment(Y!Next)

(* LeakFreeSpec, CalmSpec and ReconcilerSpec.                                 *)
LiveSpec ==
  /\ LiveInit /\ [][LiveNext]_liveVars
  /\ \A c \in Calls : WF_liveVars(Pool(A!RouteStep(c))) /\ WF_liveVars(Call(Handle(c)))
  /\ \A a \in {a1, a2} : /\ WF_liveVars(Pool(A!CooldownPasses(a)))
                         /\ WF_liveVars(Pool(A!QuotaRenewed(a)))
  /\ WF_liveVars(Payment(Y!Lapse(o1))) /\ SF_liveVars(Payment(Y!Ask(o1)))
  /\ WF_liveVars(Payment(Y!CancelExpired(o1)))

-----------------------------------------------------------------------------
(* The state of the part that runs has its type.                              *)
LiveTypeOK == CASE part = "pool"     -> A!TypeOK
                [] part = "calls"    -> TypeOK
                [] part = "payments" -> Y!TypeOK

(* When no slot is lost, no cooldown, circuit or quota keeps an account out   *)
(* of routing for ever (completeRoute, checkoutAnyRoute), and                 *)
(* without faults every claimed call comes to its end (northboundProxy).      *)
(* A retry goes to the other account.                                         *)
NobodyIsLeft == /\ \A a \in {a1, a2} : <>[](part = "pool" => A!Routable(a))
                /\ [](part = "pool" => A!RetriesMoveOn)
                /\ HandlersEnd

(* An order checked out at Alipay, WeChat or EasyPay does not stay pending,   *)
(* and what closed it stands: an answer of the provider that has grown stale  *)
(* changes nothing (reconcilePendingPayments).  Its status agrees with the    *)
(* ledger, whichever of webhook and reconciler comes first (markOrderPaid).   *)
OrdersEnd == /\ Y!PendingIsResolved /\ Y!ClosedOrdersStay
             /\ [](part = "payments" => Y!StatusMatchesLedger)
=============================================================================
