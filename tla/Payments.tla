------------------------------ MODULE Payments ------------------------------
(***************************************************************************)
(* Orders and what pays for them (billing.go, payments.go): checkout         *)
(* sessions at a payment provider, the webhook events it sends, their        *)
(* handling and replay, the reconciler that asks providers about pending     *)
(* orders, refunds by administrators, and subscriptions with their group.    *)
(*                                                                         *)
(* The provider is the environment: a customer opens sessions, pays or does  *)
(* not, and events about that arrive in any order, late, and repeatedly.     *)
(* Each handler is a sequence of transactions; between two of them the       *)
(* others run, and the process can stop.  All orders are one user's.         *)
(***************************************************************************)
EXTENDS Integers, FiniteSets

CONSTANTS Orders,
          Subscriptions,    \* the orders of a subscription plan
          Unified,          \* the orders paid at Alipay, WeChat or EasyPay, not Stripe
          Worth,            \* [Orders -> what a paid order adds to the wallet]
          Handlers,         \* goroutines that may handle events
          Admins,           \* goroutines of adminRefundOrder
          Nobody,           \* no order
          MaxSessions,      \* bound on the checkout sessions of an order
          MaxFunds          \* bound on the wallet's unreserved funds

ASSUME PaymentsAssumption == /\ Subscriptions \subseteq Orders
                             /\ Unified \subseteq Orders
                             /\ Worth \in [Orders -> Nat]
                             /\ Nobody \notin Orders
                             /\ MaxSessions \in Nat \ {0}
                             /\ MaxFunds \in Nat

VARIABLES status,       \* orders.status
          funds,        \* balance - reserved_balance of the user's wallet
          credits,      \* wallet_ledgers: credits of the order, cut off at 2
          reversals,    \* wallet_ledgers: refund_reversal rows, cut off at 2
          sub,          \* user_subscriptions.status of the order's row
          member        \* the order whose subscription the group membership names

VARIABLES session,      \* the provider's checkout sessions, per order
          refunded,     \* the orders about which the provider has refund events
          renewed,      \* subscriptions the provider has charged again
          ended         \* subscriptions that have ended at the provider

VARIABLES event,        \* payment_events: the status of each row there is
          handler,      \* what each event handler is doing
          admin,        \* what each refunding administrator's handler is doing
          overdue,      \* orders whose expires_at has passed
          asked         \* the reconciler: the order it was just told is unpaid

orderVars == <<status, funds, credits, reversals, sub, member>>

providerVars == <<session, refunded, renewed, ended>>

handlerVars == <<event, handler, admin, overdue, asked>>

vars == <<orderVars, providerVars, handlerVars>>

Sessions == 1 .. MaxSessions

Statuses == {"pending", "paid", "failed", "canceled", "refunded", "refund_blocked"}

StripeKinds == {"completed", "succeeded", "failed", "expired"}

Events == [kind : StripeKinds, order : Orders \ Unified, n : Sessions]
            \cup [kind : {"refund"}, order : Orders \ Unified, n : Sessions]
            \cup [kind : {"renewal", "deleted"}, order : Subscriptions \ Unified, n : {1}]
            \cup [kind : {"paid"}, order : Unified, n : Sessions]

Idle == [stage |-> "idle"]

Free == [stage |-> "free"]

(* "known": the order of the event was found when the event came in.          *)
Working == [stage : {"inserted", "handle", "succeeded", "failed"},
            event : Events, known : BOOLEAN]

Refunding == [stage : {"read", "block", "send", "book"}, order : Orders]

TypeOK == /\ status \in [Orders -> Statuses]
          /\ funds \in 0 .. MaxFunds
          /\ credits \in [Orders -> 0 .. 2]
          /\ reversals \in [Orders -> 0 .. 2]
          /\ sub \in [Orders -> {"none", "active", "canceled"}]
          /\ member \in Subscriptions \cup {Nobody}
          /\ session \in [Orders -> [Sessions -> {"none", "open", "waiting", "paid", "failed", "expired"}]]
          /\ refunded \subseteq Orders
          /\ renewed \subseteq Subscriptions
          /\ ended \subseteq Subscriptions
          /\ DOMAIN event \subseteq Events
          /\ \A e \in DOMAIN event : event[e] \in {"pending", "processing", "processed", "failed"}
          /\ handler \in [Handlers -> Working \cup {Idle}]
          /\ admin \in [Admins -> Refunding \cup {Free}]
          /\ overdue \subseteq Unified
          /\ asked \in Unified \cup {Nobody}

Init == /\ status = [o \in Orders |-> "pending"]
        /\ funds = 0
        /\ credits = [o \in Orders |-> 0]
        /\ reversals = [o \in Orders |-> 0]
        /\ sub = [o \in Orders |-> "none"]
        /\ member = Nobody
        /\ session = [o \in Orders |-> [n \in Sessions |-> "none"]]
        /\ refunded = {}
        /\ renewed = {}
        /\ ended = {}
        /\ event = [e \in {} |-> "pending"]
        /\ handler = [h \in Handlers |-> Idle]
        /\ admin = [a \in Admins |-> Free]
        /\ overdue = {}
        /\ asked = Nobody

-----------------------------------------------------------------------------
(* The customer and the provider                                             *)

Move(o, n, from, to) ==
  /\ session[o][n] = from
  /\ session' = [session EXCEPT ![o][n] = to]
  /\ UNCHANGED <<orderVars, refunded, renewed, ended>>

(* portalOrderCheckout of a pending order: a new session with a new          *)
(* expires_at; the earlier sessions stay open at the provider.               *)
OpenSession(o, n) ==
  /\ status[o] = "pending"
  /\ n > 1 => session[o][n - 1] # "none"
  /\ Move(o, n, "none", "open")
  /\ overdue' = overdue \ {o}
  /\ UNCHANGED <<event, handler, admin, asked>>

CustomerStep(o, n) ==
  /\ \/ Move(o, n, "open", "paid")
     \/ o \notin Unified /\ Move(o, n, "open", "waiting")    \* a delayed method
     \/ Move(o, n, "waiting", "paid")
     \/ Move(o, n, "waiting", "failed")
     \/ Move(o, n, "open", "expired")
  /\ UNCHANGED handlerVars

Charged(o) == \E n \in Sessions : session[o][n] = "paid"

(* The operator refunds at the provider's dashboard: all of a payment, a part *)
(* of it, or with a refund that is pending or fails later.                   *)
ProviderRefunds(o) ==
  /\ Charged(o) /\ o \notin refunded
  /\ refunded' = refunded \cup {o}
  /\ UNCHANGED <<orderVars, session, renewed, ended, handlerVars>>

ProviderRenews(o) ==
  /\ Charged(o) /\ o \notin renewed \cup ended
  /\ renewed' = renewed \cup {o}
  /\ UNCHANGED <<orderVars, session, refunded, ended, handlerVars>>

ProviderEnds(o) ==
  /\ Charged(o) /\ o \notin ended
  /\ ended' = ended \cup {o}
  /\ UNCHANGED <<orderVars, session, refunded, renewed, handlerVars>>

(* What the provider has an event for.  A completed session may still wait   *)
(* for its money, and a refund event is about any of the refunds above.      *)
Happened(e) ==
  LET s == session[e.order][e.n] IN
  \/ e.kind = "completed" /\ s \in {"waiting", "paid", "failed"}
  \/ e.kind \in {"succeeded", "paid"} /\ s = "paid"
  \/ e.kind = "failed" /\ s = "failed"
  \/ e.kind = "expired" /\ s = "expired"
  \/ e.kind = "refund" /\ e.order \in refunded
  \/ e.kind = "renewal" /\ e.order \in renewed
  \/ e.kind = "deleted" /\ e.order \in ended

-----------------------------------------------------------------------------
(* The transactions on an order.  Each is the effect of a handler and leaves  *)
(* what the provider and the handlers do alone.                              *)

AtMost(n, bound) == IF n > bound THEN bound ELSE n

NoEffect == UNCHANGED orderVars

Credit(o) ==
  /\ funds' = AtMost(funds + Worth[o], MaxFunds)
  /\ credits' = [credits EXCEPT ![o] = IF Worth[o] > 0 THEN AtMost(@ + 1, 2) ELSE @]

(* grantSubscriptionBenefits: the row and the group membership.              *)
Grant(o) ==
  IF o \in Subscriptions
  THEN /\ sub' = [sub EXCEPT ![o] = "active"]
       /\ member' = o
  ELSE UNCHANGED <<sub, member>>

(* Seeded bug: an order that is already paid is credited again.              *)
MarkOrderPaid_Again(o) ==
  IF status[o] \in {"pending", "paid"}
  THEN /\ status' = [status EXCEPT ![o] = "paid"]
       /\ Credit(o)
       /\ Grant(o)
       /\ UNCHANGED reversals
  ELSE NoEffect

(* Seeded bug: a late payment reopens an order that was closed.              *)
MarkOrderPaid_Reopens(o) ==
  IF status[o] \notin {"paid", "refunded", "refund_blocked"}
  THEN /\ status' = [status EXCEPT ![o] = "paid"]
       /\ Credit(o)
       /\ Grant(o)
       /\ UNCHANGED reversals
  ELSE NoEffect

(* An order that is no longer pending is left alone, without an error.       *)
MarkOrderPaid(o) ==
  IF status[o] = "pending"
  THEN /\ status' = [status EXCEPT ![o] = "paid"]
       /\ Credit(o)
       /\ Grant(o)
       /\ UNCHANGED reversals
  ELSE NoEffect

(* Seeded bug: the close does not look whether the order was paid meanwhile.  *)
CloseIfPending_OrPaid(o, to) ==
  /\ status' = [status EXCEPT ![o] = IF @ \in {"pending", "paid"} THEN to ELSE @]
  /\ UNCHANGED <<funds, credits, reversals, sub, member>>

(* async_payment_failed, expired, and the reconciler's cancellation.         *)
CloseIfPending(o, to) ==
  /\ status' = [status EXCEPT ![o] = IF @ = "pending" THEN to ELSE @]
  /\ UNCHANGED <<funds, credits, reversals, sub, member>>

(* Seeded bug: a renewal makes the user a member again.                      *)
Renew_Regrants(o) ==
  IF sub[o] # "none"
  THEN /\ Credit(o)
       /\ Grant(o)
       /\ UNCHANGED <<status, reversals>>
  ELSE NoEffect

(* grantSubscriptionRenewal, whatever became of the order and its row.       *)
Renew(o) ==
  IF sub[o] # "none"
  THEN /\ Credit(o)
       /\ sub' = [sub EXCEPT ![o] = "active"]
       /\ UNCHANGED <<status, reversals, member>>
  ELSE NoEffect

EndSubscription(o) ==
  /\ sub' = [sub EXCEPT ![o] = IF @ = "active" THEN "canceled" ELSE @]
  /\ member' = IF member = o THEN Nobody ELSE member

(* cancelSubscriptionByID.                                                   *)
CancelSubscription(o) ==
  /\ EndSubscription(o)
  /\ UNCHANGED <<status, funds, credits, reversals>>

Refundable(o) == status[o] \in {"paid", "refund_blocked"}

Covers(o) == Worth[o] <= funds

(* markOrderRefunded.                                                        *)
MarkOrderRefunded(o) ==
  \/ ~ Refundable(o) /\ NoEffect
  \/ /\ Refundable(o) /\ ~ Covers(o)
     /\ status' = [status EXCEPT ![o] = "refund_blocked"]
     /\ UNCHANGED <<funds, credits, reversals, sub, member>>
  \/ /\ Refundable(o) /\ Covers(o)
     /\ status' = [status EXCEPT ![o] = "refunded"]
     /\ funds' = funds - Worth[o]
     /\ reversals' = [reversals EXCEPT ![o] = IF Worth[o] > 0 THEN AtMost(@ + 1, 2) ELSE @]
     /\ EndSubscription(o)
     /\ UNCHANGED credits

-----------------------------------------------------------------------------
(* stripeWebhook, stripeProviderWebhook, paymentWebhook, the replay          *)

WasPaid(o) == status[o] \in {"paid", "refunded", "refund_blocked"}

Enter(h, e) ==
  /\ handler[h] = Idle
  /\ LET known == e.kind = "refund" => WasPaid(e.order) /\ e.order \notin Subscriptions
     IN handler' = [handler EXCEPT ![h] = [stage |-> "inserted", event |-> e, known |-> known]]
  /\ UNCHANGED <<orderVars, providerVars, admin, overdue, asked>>

(* insertPaymentEvent: ON CONFLICT DO NOTHING, so a second delivery ends.    *)
(* A charge's refund carries no order id: the order is found by its payment  *)
(* intent, stored when the order was paid (not for subscriptions).           *)
Deliver(h, e) ==
  /\ Enter(h, e)
  /\ e \notin DOMAIN event
  /\ Happened(e)
  /\ event' = [f \in DOMAIN event \cup {e} |-> IF f = e THEN "pending" ELSE event[f]]

(* adminReplayPaymentEvent, for Stripe's events only.                        *)
Replay(h, e) ==
  /\ e.order \notin Unified
  /\ event[e] \in {"pending", "failed"}
  /\ Enter(h, e)
  /\ UNCHANGED event

Advance(h, stage) ==
  handler' = [handler EXCEPT ![h] = [@ EXCEPT !.stage = stage]]

At(h, stage) == /\ handler[h].stage = stage
                /\ UNCHANGED <<providerVars, admin, overdue, asked>>

(* markPaymentEventProcessing; its conflict ends the handler.                *)
StartProcessing(h) ==
  /\ At(h, "inserted")
  /\ UNCHANGED orderVars
  /\ IF event[handler[h].event] \in {"pending", "failed"}
     THEN /\ event' = [event EXCEPT ![handler[h].event] = "processing"]
          /\ Advance(h, "handle")
     ELSE /\ handler' = [handler EXCEPT ![h] = Idle]
          /\ UNCHANGED event

(* handleStripeEvent, handleUnifiedPaymentEvent.                             *)
Effect(e, known) ==
  CASE e.kind \in {"completed", "succeeded", "paid"} -> MarkOrderPaid(e.order)
    [] e.kind = "failed"  -> CloseIfPending(e.order, "failed")
    [] e.kind = "expired" -> CloseIfPending(e.order, "canceled")
    [] e.kind = "refund"  -> IF known THEN MarkOrderRefunded(e.order) ELSE NoEffect
    [] e.kind = "renewal" -> Renew(e.order)
    [] e.kind = "deleted" -> CancelSubscription(e.order)

Handle(h) ==
  /\ At(h, "handle")
  /\ Effect(handler[h].event, handler[h].known)
  /\ Advance(h, "succeeded")
  /\ UNCHANGED event

(* An error (of the database, or the amount of a unified payment differs     *)
(* from the order's); the transaction may nevertheless have committed.       *)
HandleFails(h) ==
  /\ At(h, "handle")
  /\ Effect(handler[h].event, handler[h].known) \/ NoEffect
  /\ Advance(h, "failed")
  /\ UNCHANGED event

(* Seeded bug: what failed is marked as done.                                *)
Outcome_AlwaysProcessed(h) == "processed"

Outcome(h) == IF handler[h].stage = "succeeded" THEN "processed" ELSE "failed"

(* markPaymentEventSucceeded ("replayed" is not told apart),                 *)
(* markPaymentEventFailed.                                                   *)
Finish(h) ==
  /\ handler[h].stage \in {"succeeded", "failed"}
  /\ event' = [event EXCEPT ![handler[h].event] = Outcome(h)]
  /\ handler' = [handler EXCEPT ![h] = Idle]
  /\ UNCHANGED <<orderVars, providerVars, admin, overdue, asked>>

(* The request's context ends, a statement fails, or the process stops.      *)
Abandon(h) ==
  /\ handler[h] # Idle
  /\ handler' = [handler EXCEPT ![h] = Idle]
  /\ UNCHANGED <<orderVars, providerVars, event, admin, overdue, asked>>

-----------------------------------------------------------------------------
(* adminRefundOrder, adminCancelSubscription                                 *)

Go(a, from, to) ==
  /\ admin[a].stage = from
  /\ admin' = [admin EXCEPT ![a] = IF to = "free" THEN Free ELSE [@ EXCEPT !.stage = to]]
  /\ UNCHANGED <<session, renewed, ended, event, handler, overdue, asked>>

ReadOrder(a, o) ==
  /\ admin[a] = Free
  /\ Refundable(o)
  /\ admin' = [admin EXCEPT ![a] = [stage |-> "read", order |-> o]]
  /\ UNCHANGED <<orderVars, providerVars, event, handler, overdue, asked>>

(* refundBlockReason.                                                        *)
ReadWallet(a) ==
  /\ Go(a, "read", IF Covers(admin[a].order) THEN "send" ELSE "block")
  /\ UNCHANGED <<orderVars, refunded>>

BlockRefund(a) ==
  LET o == admin[a].order IN
  /\ Go(a, "block", "free")
  /\ status' = [status EXCEPT ![o] = IF Refundable(o) THEN "refund_blocked" ELSE @]
  /\ UNCHANGED <<funds, credits, reversals, sub, member, refunded>>

(* A paid top-up has Stripe's payment intent.  Stripe takes the refund (also  *)
(* what is left of a partial one), and its answer may get lost; or refuses   *)
(* it.  Nothing is sent where the intent is missing (a subscription) or no   *)
(* secret is configured: the refund is booked all the same.                  *)
SendRefund(a) ==
  LET o == admin[a].order IN
  /\ admin[a].stage = "send"
  /\ UNCHANGED orderVars
  /\ \/ /\ o \notin Unified \cup Subscriptions
        /\ refunded' = refunded \cup {o}
        /\ Go(a, "send", "book") \/ Go(a, "send", "free")
     \/ /\ Go(a, "send", "book") \/ Go(a, "send", "free")
        /\ UNCHANGED refunded

BookRefund(a) ==
  /\ Go(a, "book", "free")
  /\ MarkOrderRefunded(admin[a].order)
  /\ UNCHANGED refunded

AdminDies(a) ==
  /\ admin[a] # Free
  /\ Go(a, admin[a].stage, "free")
  /\ UNCHANGED <<orderVars, refunded>>

AdminCancels(o) ==
  /\ sub[o] = "active"
  /\ CancelSubscription(o)
  /\ UNCHANGED <<providerVars, handlerVars>>

-----------------------------------------------------------------------------
(* reconcilePendingPayments, one order at a time                             *)

Lapse(o) ==
  /\ session[o][1] # "none" /\ o \notin overdue
  /\ overdue' = overdue \cup {o}
  /\ UNCHANGED <<orderVars, providerVars, event, handler, admin, asked>>

Latest(o, n) == session[o][n] # "none" /\ \A m \in Sessions : m > n => session[o][m] = "none"

Asking(o) == asked = Nobody /\ status[o] = "pending" /\ UNCHANGED providerVars

(* The provider of the latest session is asked.  All sessions have the       *)
(* order's id as trade number, so it may know an earlier one too.            *)
AskPaid(o) ==
  /\ Asking(o)
  /\ Charged(o)
  /\ MarkOrderPaid(o)
  /\ UNCHANGED handlerVars

(* Seeded bug: an unpaid order is never given up.                            *)
AskUnpaid_Forgets(o) ==
  /\ Asking(o)
  /\ o \in overdue
  /\ \E n \in Sessions : Latest(o, n) /\ session[o][n] # "paid"
  /\ UNCHANGED <<orderVars, event, handler, admin, overdue, asked>>

AskUnpaid(o) ==
  /\ Asking(o)
  /\ o \in overdue
  /\ \E n \in Sessions : Latest(o, n) /\ session[o][n] # "paid"
  /\ asked' = o
  /\ UNCHANGED <<orderVars, event, handler, admin, overdue>>

CancelExpired(o) ==
  /\ asked = o
  /\ CloseIfPending(o, "canceled")
  /\ asked' = Nobody
  /\ UNCHANGED <<providerVars, event, handler, admin, overdue>>

(* The wallet's other writers (module Wallet).                               *)
OtherWriters ==
  /\ funds' \in (0 .. MaxFunds) \ {funds}
  /\ UNCHANGED <<status, credits, reversals, sub, member, providerVars, handlerVars>>

-----------------------------------------------------------------------------
ProviderStep ==
  \/ \E o \in Orders, n \in Sessions : OpenSession(o, n) \/ CustomerStep(o, n)
  \/ \E o \in Orders \ Unified : ProviderRefunds(o)
  \/ \E o \in Subscriptions \ Unified : ProviderRenews(o) \/ ProviderEnds(o)

HandlerStep(h) ==
  \/ \E e \in Events : Deliver(h, e)
  \/ \E e \in DOMAIN event : Replay(h, e)
  \/ StartProcessing(h)
  \/ Handle(h)
  \/ HandleFails(h)
  \/ Finish(h)
  \/ Abandon(h)

AdminStep(a) ==
  \/ \E o \in Orders : ReadOrder(a, o)
  \/ ReadWallet(a)
  \/ BlockRefund(a)
  \/ SendRefund(a)
  \/ BookRefund(a)
  \/ AdminDies(a)

Ask(o) == AskPaid(o) \/ AskUnpaid(o)

Next == \/ ProviderStep
        \/ \E h \in Handlers : HandlerStep(h)
        \/ \E a \in Admins : AdminStep(a)
        \/ \E o \in Subscriptions : AdminCancels(o)
        \/ \E o \in Unified : Lapse(o) \/ Ask(o) \/ CancelExpired(o)
        \/ OtherWriters

Spec == Init /\ [][Next]_vars

(* Fairness of the reconciler: its ticker fires, the clock advances, and a    *)
(* provider that is asked again and again answers.                           *)
ReconcilerSpec ==
  /\ Spec
  /\ \A o \in Unified : WF_vars(Lapse(o)) /\ SF_vars(Ask(o)) /\ WF_vars(CancelExpired(o))

-----------------------------------------------------------------------------
(* Properties *)

(* A top-up is in the wallet's ledger exactly when its status says that it   *)
(* was paid, and reversed exactly when its status says refunded, whatever    *)
(* the order, repetition and interleaving of webhooks, replays, reconciler   *)
(* and administrators.                                                       *)
StatusMatchesLedger ==
  \A o \in Orders \ Subscriptions : Worth[o] > 0 =>
    /\ credits[o] = IF WasPaid(o) THEN 1 ELSE 0
    /\ reversals[o] = IF status[o] = "refunded" THEN 1 ELSE 0

(* An event recorded as processed has closed its order: a retry that could   *)
(* still pay, fail or cancel it is never thrown away.                        *)
ProcessedIsSettled ==
  \A e \in DOMAIN event :
    event[e] = "processed" /\ e.kind \in StripeKinds \cup {"paid"} => status[e.order] # "pending"

(* Final states are final: a late, replayed or reordered event never pays an *)
(* order that failed or was canceled, nor undoes a refund.                   *)
ClosedOrdersStay ==
  [][\A o \in Orders : status[o] \in {"failed", "canceled", "refunded"}
                         => status'[o] = status[o]]_vars

(* A group membership belongs to an active subscription whose order is paid   *)
(* and not refunded: no late, replayed or unacknowledged event brings it     *)
(* back, also where two subscriptions grant the same group.                  *)
MembersAreSubscribed ==
  member # Nobody => sub[member] = "active" /\ Refundable(member)

(* The top-ups are a ledger of orders, each credited and reversed at most     *)
(* once and in the step that changes its status, whatever the handlers do.    *)
TopUps == Orders \ Subscriptions

L == INSTANCE OrderLedger WITH Orders <- TopUps,
       status <- [o \in TopUps |-> status[o]],
       credits <- [o \in TopUps |-> credits[o]],
       reversals <- [o \in TopUps |-> reversals[o]]

ImplementsOrderLedger == L!Spec

(* An order checked out at Alipay, WeChat or EasyPay does not stay pending.  *)
PendingIsResolved ==
  \A o \in Unified : session[o][1] # "none" ~> status[o] # "pending"

=============================================================================
