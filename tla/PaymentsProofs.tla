--------------------------- MODULE PaymentsProofs ---------------------------
(***************************************************************************)
(* Theorems about orders, for any orders, sessions, events, handlers and     *)
(* administrators.  The argument: whichever of them takes a step, what the   *)
(* orders, the wallet and the membership see of it is one of the few steps   *)
(* of OrderStep (NextIsOrderStep).  What concerns only those is then shown   *)
(* once for each OrderStep (LedgerStep, MembersStep, ClosedStays, StepMaps); *)
(* what relates them to the events and the handlers is shown along Next      *)
(* (SettledStep).                                                            *)
(***************************************************************************)
EXTENDS Payments, TLAPS

(* payment_events is a table of the events that have come in.                *)
EventRows == event \in [DOMAIN event -> {"pending", "processing", "processed", "failed"}]

(* A handler works on an event whose row is there.                           *)
HandledRows == \A h \in Handlers : handler[h] # Idle => handler[h].event \in DOMAIN event

Settles(e) == e.kind \in StripeKinds \cup {"paid"}

(* A handler that has succeeded has closed the order of its event.           *)
SucceededIsSettled ==
  \A h \in Handlers : handler[h].stage = "succeeded" /\ Settles(handler[h].event)
                        => status[handler[h].event.order] # "pending"

PaymentTypes == TypeOK /\ EventRows /\ HandledRows

-----------------------------------------------------------------------------
(* What a step does to the orders *)

BlockOrder(o) ==
  /\ status' = [status EXCEPT ![o] = IF Refundable(o) THEN "refund_blocked" ELSE @]
  /\ UNCHANGED <<funds, credits, reversals, sub, member>>

OthersWrite == funds' \in 0 .. MaxFunds /\ UNCHANGED <<status, credits, reversals, sub, member>>

OrderStep ==
  \/ UNCHANGED orderVars
  \/ OthersWrite
  \/ \E o \in Orders : \/ MarkOrderPaid(o)
                       \/ CloseIfPending(o, "failed") \/ CloseIfPending(o, "canceled")
                       \/ MarkOrderRefunded(o)
                       \/ BlockOrder(o)
  \/ \E o \in Subscriptions : Renew(o) \/ CancelSubscription(o)

(* What an event is of, by its kind.                                          *)
LEMMA EventFields ==
  ASSUME NEW e \in Events
  PROVE  /\ e.order \in Orders
         /\ e.kind \in StripeKinds \cup {"refund", "renewal", "deleted", "paid"}
         /\ e.kind \in {"renewal", "deleted"} => e.order \in Subscriptions
BY PaymentsAssumption DEF Events, StripeKinds

(* What handling an event does is one of the transitions of its order.        *)
LEMMA EffectIsOrderStep ==
  ASSUME NEW e \in Events, NEW known \in BOOLEAN, Effect(e, known)
  PROVE  OrderStep
<1>1. CASE e.kind \in {"completed", "succeeded", "paid"}
  BY <1>1, EventFields DEF Effect, OrderStep
<1>2. CASE e.kind = "failed"
  BY <1>2, EventFields DEF Effect, OrderStep
<1>3. CASE e.kind = "expired"
  BY <1>3, EventFields DEF Effect, OrderStep
<1>4. CASE e.kind = "refund"
  BY <1>4, EventFields DEF Effect, OrderStep, NoEffect
<1>5. CASE e.kind = "renewal"
  BY <1>5, EventFields DEF Effect, OrderStep
<1>6. CASE e.kind = "deleted"
  BY <1>6, EventFields DEF Effect, OrderStep
<1> QED
  BY <1>1, <1>2, <1>3, <1>4, <1>5, <1>6, EventFields DEF StripeKinds

(* So is every step of anybody, or it leaves the orders alone.                *)
LEMMA NextIsOrderStep == PaymentTypes /\ [Next]_vars => OrderStep
<1> SUFFICES ASSUME PaymentTypes, [Next]_vars PROVE OrderStep
  OBVIOUS
<1>1. CASE ProviderStep
  BY <1>1 DEF ProviderStep, OpenSession, CustomerStep, Move, ProviderRefunds, ProviderRenews,
              ProviderEnds, OrderStep
<1>2. ASSUME NEW h \in Handlers, HandlerStep(h) PROVE OrderStep
  <2>1. CASE \/ \E e \in Events : Deliver(h, e)
             \/ \E e \in DOMAIN event : Replay(h, e)
             \/ StartProcessing(h) \/ Finish(h) \/ Abandon(h)
    BY <2>1 DEF Deliver, Replay, Enter, StartProcessing, Finish, Abandon, OrderStep
  <2>2. CASE Handle(h) \/ HandleFails(h)
    <3>1. handler[h] \in Working /\ handler[h] # Idle
      BY <2>2 DEF Handle, HandleFails, At, PaymentTypes, TypeOK, Idle
    <3>2. handler[h].event \in Events /\ handler[h].known \in BOOLEAN
      BY <3>1 DEF Working
    <3>3. Effect(handler[h].event, handler[h].known) \/ UNCHANGED orderVars
      BY <2>2 DEF Handle, HandleFails, NoEffect
    <3> QED
      BY <3>2, <3>3, EffectIsOrderStep DEF OrderStep
  <2> QED
    BY <1>2, <2>1, <2>2 DEF HandlerStep
<1>3. ASSUME NEW a \in Admins, AdminStep(a) PROVE OrderStep
  <2>1. CASE (\E o \in Orders : ReadOrder(a, o)) \/ ReadWallet(a) \/ SendRefund(a) \/ AdminDies(a)
    BY <2>1 DEF ReadOrder, ReadWallet, SendRefund, AdminDies, OrderStep
  <2>2. CASE BlockRefund(a)
    <3>1. admin[a].order \in Orders
      BY <2>2 DEF BlockRefund, Go, PaymentTypes, TypeOK, Refunding, Free
    <3> QED
      BY <2>2, <3>1 DEF BlockRefund, BlockOrder, OrderStep
  <2>3. CASE BookRefund(a)
    <3>1. admin[a].order \in Orders
      BY <2>3 DEF BookRefund, Go, PaymentTypes, TypeOK, Refunding, Free
    <3> QED
      BY <2>3, <3>1 DEF BookRefund, OrderStep
  <2> QED
    BY <1>3, <2>1, <2>2, <2>3 DEF AdminStep
<1>4. ASSUME NEW o \in Subscriptions, AdminCancels(o) PROVE OrderStep
  BY <1>4 DEF AdminCancels, OrderStep
<1>5. ASSUME NEW o \in Unified, Lapse(o) \/ Ask(o) \/ CancelExpired(o) PROVE OrderStep
  BY <1>5, PaymentsAssumption DEF Lapse, Ask, AskPaid, AskUnpaid, CancelExpired, OrderStep
<1>6. CASE OtherWriters
  BY <1>6 DEF OtherWriters, OthersWrite, OrderStep
<1>7. CASE UNCHANGED vars
  BY <1>7 DEF vars, OrderStep
<1> QED
  BY <1>1, <1>2, <1>3, <1>4, <1>5, <1>6, <1>7 DEF Next

(* What the steps on the orders keep.                                        *)
OrderTypes == /\ status \in [Orders -> Statuses]
              /\ funds \in 0 .. MaxFunds
              /\ credits \in [Orders -> 0 .. 2]
              /\ reversals \in [Orders -> 0 .. 2]
              /\ sub \in [Orders -> {"none", "active", "canceled"}]
              /\ member \in Subscriptions \cup {Nobody}

(* Transitions keep the types of orders, wallet and membership.               *)
LEMMA OrderStepTypes == OrderTypes /\ OrderStep => OrderTypes'
<1> SUFFICES ASSUME OrderTypes, OrderStep PROVE OrderTypes'
  OBVIOUS
<1> USE PaymentsAssumption DEF OrderTypes, Statuses, AtMost, Credit
<1>1. ASSUME NEW o \in Orders PROVE Worth[o] \in Nat
  OBVIOUS
<1>2. ASSUME NEW o \in Orders, MarkOrderPaid(o) PROVE OrderTypes'
  BY <1>1, <1>2 DEF MarkOrderPaid, Grant, NoEffect, orderVars
<1>3. ASSUME NEW o \in Orders,
             CloseIfPending(o, "failed") \/ CloseIfPending(o, "canceled") \/ BlockOrder(o)
      PROVE  OrderTypes'
  BY <1>3 DEF CloseIfPending, BlockOrder
<1>4. ASSUME NEW o \in Orders, MarkOrderRefunded(o) PROVE OrderTypes'
  BY <1>1, <1>4 DEF MarkOrderRefunded, EndSubscription, Covers, NoEffect, orderVars
<1>5. ASSUME NEW o \in Subscriptions, Renew(o) \/ CancelSubscription(o) PROVE OrderTypes'
  BY <1>1, <1>5 DEF Renew, CancelSubscription, EndSubscription, NoEffect, orderVars
<1>6. CASE UNCHANGED orderVars \/ OthersWrite
  BY <1>6 DEF orderVars, OthersWrite
<1> QED
  BY <1>2, <1>3, <1>4, <1>5, <1>6 DEF OrderStep

(* No order becomes pending again.                                           *)
LEMMA PendingIsFirst ==
  ASSUME OrderTypes, OrderStep, NEW o \in Orders, status'[o] = "pending"
  PROVE  status[o] = "pending"
BY PaymentsAssumption
   DEF OrderTypes, OrderStep, orderVars, OthersWrite, MarkOrderPaid, CloseIfPending,
       MarkOrderRefunded, BlockOrder, Renew, CancelSubscription, NoEffect

(* A closed order stays as it is.                                            *)
LEMMA ClosedStays ==
  ASSUME OrderTypes, OrderStep, NEW o \in Orders, status[o] \in {"failed", "canceled", "refunded"}
  PROVE  status'[o] = status[o]
BY PaymentsAssumption
   DEF OrderTypes, OrderStep, orderVars, OthersWrite, MarkOrderPaid, CloseIfPending, Refundable,
       MarkOrderRefunded, BlockOrder, Renew, CancelSubscription, NoEffect

(* They keep statuses and ledger together.                                    *)
LEMMA LedgerStep == OrderTypes /\ StatusMatchesLedger /\ OrderStep => StatusMatchesLedger'
<1> SUFFICES ASSUME OrderTypes, StatusMatchesLedger, OrderStep PROVE StatusMatchesLedger'
  OBVIOUS
<1> USE PaymentsAssumption DEF OrderTypes, StatusMatchesLedger, WasPaid, AtMost, Credit
<1>2. ASSUME NEW o \in Orders, MarkOrderPaid(o) PROVE StatusMatchesLedger'
  BY <1>2 DEF MarkOrderPaid, NoEffect, orderVars
<1>3. ASSUME NEW o \in Orders,
             CloseIfPending(o, "failed") \/ CloseIfPending(o, "canceled") \/ BlockOrder(o)
      PROVE  StatusMatchesLedger'
  BY <1>3 DEF CloseIfPending, BlockOrder, Refundable
<1>4. ASSUME NEW o \in Orders, MarkOrderRefunded(o) PROVE StatusMatchesLedger'
  BY <1>4 DEF MarkOrderRefunded, Refundable, NoEffect, orderVars
<1>5. ASSUME NEW o \in Subscriptions, Renew(o) \/ CancelSubscription(o) PROVE StatusMatchesLedger'
  BY <1>5 DEF Renew, CancelSubscription, NoEffect, orderVars
<1>6. CASE UNCHANGED orderVars \/ OthersWrite
  BY <1>6 DEF orderVars, OthersWrite
<1> QED
  BY <1>2, <1>3, <1>4, <1>5, <1>6 DEF OrderStep

(* Memberships end with their subscription and with its refund.               *)
LEMMA MembersStep ==
  ASSUME OrderTypes, MembersAreSubscribed, OrderStep
  PROVE  MembersAreSubscribed'
<1> USE PaymentsAssumption DEF OrderTypes, MembersAreSubscribed, Refundable
<1>1. ASSUME NEW o \in Orders, MarkOrderPaid(o) PROVE MembersAreSubscribed'
  BY <1>1 DEF MarkOrderPaid, Grant, NoEffect, orderVars
<1>2. ASSUME NEW o \in Orders,
             CloseIfPending(o, "failed") \/ CloseIfPending(o, "canceled") \/ BlockOrder(o)
      PROVE  MembersAreSubscribed'
  BY <1>2 DEF CloseIfPending, BlockOrder
<1>3. ASSUME NEW o \in Orders, MarkOrderRefunded(o) PROVE MembersAreSubscribed'
  BY <1>3 DEF MarkOrderRefunded, EndSubscription, NoEffect, orderVars
<1>4. ASSUME NEW o \in Subscriptions, Renew(o) \/ CancelSubscription(o) PROVE MembersAreSubscribed'
  BY <1>4 DEF Renew, CancelSubscription, EndSubscription, NoEffect, orderVars
<1>5. CASE UNCHANGED orderVars \/ OthersWrite
  BY <1>5 DEF orderVars, OthersWrite
<1> QED
  BY <1>1, <1>2, <1>3, <1>4, <1>5 DEF OrderStep

-----------------------------------------------------------------------------
(* The provider, the handlers and the administrators                         *)

SessionStates == {"none", "open", "waiting", "paid", "failed", "expired"}

OtherTypes == /\ session \in [Orders -> [Sessions -> SessionStates]]
              /\ refunded \subseteq Orders
              /\ renewed \subseteq Subscriptions
              /\ ended \subseteq Subscriptions
              /\ DOMAIN event \subseteq Events
              /\ EventRows
              /\ handler \in [Handlers -> Working \cup {Idle}]
              /\ HandledRows
              /\ admin \in [Admins -> Refunding \cup {Free}]
              /\ overdue \subseteq Unified
              /\ asked \in Unified \cup {Nobody}

(* The types are those of orders and those of who handles them.               *)
LEMMA TypesSplit == PaymentTypes <=> OrderTypes /\ OtherTypes
BY DEF PaymentTypes, TypeOK, OrderTypes, OtherTypes, SessionStates, EventRows

(* Where a handler or an administrator is says what it works on.              *)
LEMMA StagesTell ==
  ASSUME OtherTypes
  PROVE  /\ \A h \in Handlers : handler[h].stage \in {"inserted", "handle", "succeeded", "failed"}
                                => handler[h] # Idle /\ handler[h] \in Working
         /\ \A h \in Handlers : handler[h] # Idle
                                => handler[h] \in Working /\ handler[h].event \in DOMAIN event
         /\ \A a \in Admins : admin[a].stage \in {"read", "block", "send", "book"}
                                => admin[a] # Free /\ admin[a] \in Refunding
BY DEF OtherTypes, HandledRows, Working, Idle, Refunding, Free

(* Every step keeps the types of who handles the orders.                      *)
LEMMA OtherTypesStep == OrderTypes /\ OtherTypes /\ [Next]_vars => OtherTypes'
<1> SUFFICES ASSUME OrderTypes, OtherTypes, [Next]_vars PROVE OtherTypes'
  OBVIOUS
<1> USE PaymentsAssumption DEF OtherTypes
<1>1. CASE ProviderStep
  <2>1. ASSUME NEW o \in Orders, NEW n \in Sessions, OpenSession(o, n) \/ CustomerStep(o, n)
        PROVE  OtherTypes'
    <3>1. session' \in [Orders -> [Sessions -> SessionStates]]
      BY <2>1 DEF OpenSession, CustomerStep, Move, SessionStates
    <3> QED
      BY <2>1, <3>1 DEF OpenSession, CustomerStep, Move, handlerVars, EventRows, HandledRows
  <2>2. ASSUME NEW o \in Orders \ Unified, ProviderRefunds(o) PROVE OtherTypes'
    BY <2>2 DEF ProviderRefunds, handlerVars, EventRows, HandledRows
  <2>3. ASSUME NEW o \in Subscriptions \ Unified, ProviderRenews(o) \/ ProviderEnds(o)
        PROVE  OtherTypes'
    BY <2>3 DEF ProviderRenews, ProviderEnds, handlerVars, EventRows, HandledRows
  <2> QED
    BY <1>1, <2>1, <2>2, <2>3 DEF ProviderStep
<1>2. ASSUME NEW h \in Handlers, HandlerStep(h) PROVE OtherTypes'
  <2>1. ASSUME NEW e \in Events, Enter(h, e)
        PROVE  handler' \in [Handlers -> Working \cup {Idle}]
    BY <2>1 DEF Enter, Working
  <2>2. ASSUME NEW e \in Events, Deliver(h, e) PROVE OtherTypes'
    <3>1. DOMAIN event' = DOMAIN event \cup {e} /\ EventRows'
      BY <2>2 DEF Deliver, EventRows
    <3>2. HandledRows'
      BY <2>2, <3>1 DEF Deliver, Enter, HandledRows, Idle
    <3> QED
      BY <2>1, <2>2, <3>1, <3>2 DEF Deliver, Enter, providerVars
  <2>3. ASSUME NEW e \in DOMAIN event, Replay(h, e) PROVE OtherTypes'
    <3>1. EventRows' /\ HandledRows'
      BY <2>3 DEF Replay, Enter, EventRows, HandledRows, Idle
    <3> QED
      BY <2>1, <2>3, <3>1 DEF Replay, Enter, providerVars
  <2>4. CASE StartProcessing(h) \/ Handle(h) \/ HandleFails(h) \/ Finish(h)
    <3>0. handler[h] # Idle /\ handler[h] \in Working /\ handler[h].event \in DOMAIN event
      BY <2>4, StagesTell DEF StartProcessing, Handle, HandleFails, Finish, At
    <3>1. event' = event \/ \E s \in {"processing", "processed", "failed"} :
                              event' = [event EXCEPT ![handler[h].event] = s]
      BY <2>4 DEF StartProcessing, Handle, HandleFails, Finish, Outcome
    <3>2. \/ handler' = [handler EXCEPT ![h] = Idle]
          \/ \E s \in {"handle", "succeeded", "failed"} :
               handler' = [handler EXCEPT ![h] = [handler[h] EXCEPT !.stage = s]]
      BY <2>4 DEF StartProcessing, Handle, HandleFails, Finish, Advance
    <3>3. DOMAIN event' = DOMAIN event /\ EventRows'
      BY <3>0, <3>1 DEF EventRows
    <3>4. \A s \in {"handle", "succeeded", "failed"} :
            /\ [handler[h] EXCEPT !.stage = s] \in Working
            /\ [handler[h] EXCEPT !.stage = s].event = handler[h].event
      BY <3>0 DEF Working
    <3>5. handler' \in [Handlers -> Working \cup {Idle}] /\ HandledRows'
      BY <3>0, <3>2, <3>3, <3>4 DEF HandledRows
    <3> QED
      BY <2>4, <3>3, <3>5 DEF StartProcessing, Handle, HandleFails, Finish, At, providerVars
  <2>5. CASE Abandon(h)
    BY <2>5 DEF Abandon, providerVars, EventRows, HandledRows
  <2> QED
    BY <1>2, <2>2, <2>3, <2>4, <2>5 DEF HandlerStep
<1>3. ASSUME NEW a \in Admins, AdminStep(a) PROVE OtherTypes'
  <2> USE DEF EventRows, HandledRows, providerVars
  <2>1. ASSUME NEW o \in Orders, ReadOrder(a, o) PROVE OtherTypes'
    BY <2>1 DEF ReadOrder, Refunding
  <2>2. ASSUME NEW from \in {"read", "block", "send", "book"}, NEW to \in {"send", "block", "book", "free"},
               Go(a, from, to)
        PROVE  admin' \in [Admins -> Refunding \cup {Free}]
    <3>1. admin[a] \in Refunding
      BY <2>2, StagesTell DEF Go
    <3>2. \A s \in {"send", "block", "book"} : [admin[a] EXCEPT !.stage = s] \in Refunding
      BY <3>1 DEF Refunding
    <3> QED
      BY <2>2, <3>2 DEF Go
  <2>3. CASE ReadWallet(a) \/ BlockRefund(a) \/ BookRefund(a)
    BY <2>2, <2>3 DEF ReadWallet, BlockRefund, BookRefund, Go
  <2>4. CASE SendRefund(a)
    <3>1. admin' \in [Admins -> Refunding \cup {Free}]
      BY <2>2, <2>4 DEF SendRefund
    <3>2. admin[a].order \in Orders
      BY <2>4, StagesTell DEF SendRefund, Refunding
    <3> QED
      BY <2>4, <3>1, <3>2 DEF SendRefund, Go
  <2>5. CASE AdminDies(a)
    BY <2>5 DEF AdminDies, Go
  <2> QED
    BY <1>3, <2>1, <2>3, <2>4, <2>5 DEF AdminStep
<1>4. ASSUME NEW o \in Subscriptions, AdminCancels(o) PROVE OtherTypes'
  BY <1>4 DEF AdminCancels, providerVars, handlerVars, EventRows, HandledRows
<1>5. ASSUME NEW o \in Unified, Lapse(o) \/ Ask(o) \/ CancelExpired(o) PROVE OtherTypes'
  BY <1>5 DEF Lapse, Ask, AskPaid, AskUnpaid, Asking, CancelExpired, providerVars, handlerVars,
              EventRows, HandledRows
<1>6. CASE OtherWriters \/ UNCHANGED vars
  BY <1>6 DEF OtherWriters, vars, providerVars, handlerVars, EventRows, HandledRows
<1> QED
  BY <1>1, <1>2, <1>3, <1>4, <1>5, <1>6 DEF Next

-----------------------------------------------------------------------------
(* Events that count as processed *)

(* An event that settles its order leaves it pending no more.                 *)
LEMMA SettlingCloses ==
  ASSUME OrderTypes, NEW e \in Events, NEW known \in BOOLEAN, Settles(e), Effect(e, known)
  PROVE  status'[e.order] # "pending"
<1>0. e.order \in Orders
  BY EventFields
<1>1. CASE e.kind \in {"completed", "succeeded", "paid"}
  BY <1>0, <1>1 DEF Effect, MarkOrderPaid, NoEffect, orderVars, OrderTypes
<1>2. CASE e.kind = "failed"
  BY <1>0, <1>2 DEF Effect, CloseIfPending, OrderTypes
<1>3. CASE e.kind = "expired"
  BY <1>0, <1>3 DEF Effect, CloseIfPending, OrderTypes
<1> QED
  BY <1>1, <1>2, <1>3 DEF Settles, StripeKinds

(* Once an event is processed its order stays settled.                        *)
LEMMA SettledStep ==
  ASSUME OrderTypes, OtherTypes, OrderStep, ProcessedIsSettled, SucceededIsSettled, [Next]_vars
  PROVE  ProcessedIsSettled' /\ SucceededIsSettled'
<1>0. \A o \in Orders : status[o] # "pending" => status'[o] # "pending"
  BY PendingIsFirst
<1>1. \A e \in DOMAIN event : e \in Events /\ e.order \in Orders
  BY EventFields DEF OtherTypes
<1>2. \A h \in Handlers : handler[h] # Idle => handler[h].event \in DOMAIN event
  BY DEF OtherTypes, HandledRows
<1>3. ASSUME UNCHANGED <<event, handler>> PROVE ProcessedIsSettled' /\ SucceededIsSettled'
  BY <1>0, <1>1, <1>2, <1>3, StagesTell DEF ProcessedIsSettled, SucceededIsSettled, Settles
<1>4. CASE ProviderStep
  BY <1>3, <1>4 DEF ProviderStep, OpenSession, CustomerStep, ProviderRefunds, ProviderRenews,
                    ProviderEnds, handlerVars
<1>5. ASSUME NEW h \in Handlers, HandlerStep(h) PROVE ProcessedIsSettled' /\ SucceededIsSettled'
  <2>1. ProcessedIsSettled'
    <3> SUFFICES ASSUME NEW e \in DOMAIN event', event'[e] = "processed", Settles(e)
                 PROVE  status'[e.order] # "pending"
      BY DEF ProcessedIsSettled, Settles
    <3>1. CASE e \in DOMAIN event /\ event[e] = "processed"
      BY <1>0, <1>1, <3>1 DEF ProcessedIsSettled, Settles
    <3>2. CASE ~ (e \in DOMAIN event /\ event[e] = "processed")
      <4>1. Finish(h) /\ e = handler[h].event /\ handler[h].stage = "succeeded"
        BY <1>5, <3>2, StagesTell
           DEF HandlerStep, Deliver, Replay, StartProcessing, Handle, HandleFails, Finish, Abandon, Outcome,
               OtherTypes, EventRows
      <4> QED
        BY <1>0, <1>1, <1>2, <4>1, StagesTell DEF SucceededIsSettled
    <3> QED
      BY <3>1, <3>2
  <2>2. SucceededIsSettled'
    <3> SUFFICES ASSUME NEW g \in Handlers, handler'[g].stage = "succeeded", Settles(handler'[g].event)
                 PROVE  status'[handler'[g].event.order] # "pending"
      BY DEF SucceededIsSettled, Settles
    <3>1. CASE handler'[g] = handler[g]
      BY <1>0, <1>1, <1>2, <3>1, StagesTell DEF SucceededIsSettled
    <3>2. CASE handler'[g] # handler[g]
      <4>1. Handle(h) /\ g = h
        <5>1. g = h /\ handler'[h].stage = "succeeded" /\ handler[h] \in Working \cup {Idle}
          BY <1>5, <3>2 DEF HandlerStep, Deliver, Replay, Enter, StartProcessing, Handle, HandleFails, Finish,
                            Abandon, Advance, At, OtherTypes
        <5>2. \A e, known : [stage |-> "inserted", event |-> e, known |-> known].stage # "succeeded"
          OBVIOUS
        <5>3. \A s \in {"handle", "failed"} : [handler[h] EXCEPT !.stage = s].stage # "succeeded"
          BY <5>1 DEF Working, Idle
        <5>4. Idle.stage # "succeeded"
          BY DEF Idle
        <5>5. handler \in [Handlers -> Working \cup {Idle}]
          BY DEF OtherTypes
        <5>6. CASE \/ \E e \in Events : Deliver(h, e)
                   \/ \E e \in DOMAIN event : Replay(h, e)
          <6>1. PICK e \in Events \cup DOMAIN event : Enter(h, e)
            BY <5>6 DEF Deliver, Replay
          <6>2. \E known : handler' = [handler EXCEPT ![h] = [stage |-> "inserted", event |-> e, known |-> known]]
            BY <6>1 DEF Enter
          <6> QED
            BY <5>1, <5>2, <5>5, <6>2
        <5>7. CASE StartProcessing(h) \/ HandleFails(h) \/ Finish(h) \/ Abandon(h)
          BY <5>1, <5>3, <5>4, <5>5, <5>7 DEF StartProcessing, HandleFails, Finish, Abandon, Advance
        <5> QED
          BY <1>5, <5>1, <5>6, <5>7 DEF HandlerStep
      <4>2. handler[h] \in Working /\ handler'[h].event = handler[h].event
        BY <4>1, StagesTell DEF Handle, At, Advance, Working, OtherTypes
      <4>3. Effect(handler[h].event, handler[h].known)
        BY <4>1 DEF Handle
      <4> QED
        BY <4>1, <4>2, <4>3, SettlingCloses DEF Working
    <3> QED
      BY <3>1, <3>2
  <2> QED
    BY <2>1, <2>2
<1>6. ASSUME NEW a \in Admins, AdminStep(a) PROVE ProcessedIsSettled' /\ SucceededIsSettled'
  BY <1>3, <1>6 DEF AdminStep, ReadOrder, ReadWallet, BlockRefund, SendRefund, BookRefund, AdminDies, Go
<1>7. ASSUME NEW o, AdminCancels(o) \/ Lapse(o) \/ Ask(o) \/ CancelExpired(o)
      PROVE  ProcessedIsSettled' /\ SucceededIsSettled'
  BY <1>3, <1>7 DEF AdminCancels, Lapse, Ask, AskPaid, AskUnpaid, CancelExpired, handlerVars
<1>8. CASE OtherWriters \/ UNCHANGED vars
  BY <1>3, <1>8 DEF OtherWriters, vars, handlerVars
<1> QED
  BY <1>4, <1>5, <1>6, <1>7, <1>8 DEF Next

-----------------------------------------------------------------------------
(* The inductive invariant *)

PaymentInv ==
  /\ OrderTypes /\ OtherTypes
  /\ StatusMatchesLedger
  /\ MembersAreSubscribed
  /\ SucceededIsSettled /\ ProcessedIsSettled

(* All of it holds before the first event.                                    *)
LEMMA InitEstablishes == Init => PaymentInv
<1> SUFFICES ASSUME Init PROVE PaymentInv
  OBVIOUS
<1> USE PaymentsAssumption DEF Init
<1>1. OrderTypes
  BY DEF OrderTypes, Statuses
<1>2. OtherTypes
  <2>1. event \in [{} -> {"pending"}] /\ DOMAIN event = {}
    OBVIOUS
  <2> QED
    BY <2>1 DEF OtherTypes, SessionStates, EventRows, HandledRows
<1>3. StatusMatchesLedger
  BY DEF StatusMatchesLedger, WasPaid
<1>4. MembersAreSubscribed
  BY DEF MembersAreSubscribed
<1>5. SucceededIsSettled /\ ProcessedIsSettled
  BY DEF SucceededIsSettled, ProcessedIsSettled, Idle
<1> QED
  BY <1>1, <1>2, <1>3, <1>4, <1>5 DEF PaymentInv

(* Every step keeps it, and is a transition.                                  *)
LEMMA StepKeeps == PaymentInv /\ [Next]_vars => PaymentInv' /\ OrderStep
<1> SUFFICES ASSUME PaymentInv, [Next]_vars PROVE PaymentInv' /\ OrderStep
  OBVIOUS
<1> USE DEF PaymentInv
<1>1. OrderStep
  BY TypesSplit, NextIsOrderStep
<1>2. OrderTypes' /\ OtherTypes'
  BY <1>1, OrderStepTypes, OtherTypesStep
<1>3. StatusMatchesLedger'
  BY <1>1, LedgerStep
<1>4. MembersAreSubscribed'
  BY <1>1, MembersStep
<1>5. SucceededIsSettled' /\ ProcessedIsSettled'
  BY <1>1, SettledStep
<1> QED
  BY <1>1, <1>2, <1>3, <1>4, <1>5

(* Whatever arrives, is repeated, fails or dies, the invariant holds in every *)
(* state the payment handlers reach.                                         *)
THEOREM PaymentInvariance == Spec => []PaymentInv
BY InitEstablishes, StepKeeps, PTL DEF Spec

(* The tables, the handlers and the provider keep to their types.            *)
THEOREM PaymentsAreTyped == Spec => []TypeOK
<1>1. PaymentInv => TypeOK
  BY TypesSplit DEF PaymentInv, PaymentTypes
<1> QED
  BY <1>1, PaymentInvariance, PTL

(* A top-up is credited once when its status says that it was paid, and      *)
(* reversed once when it says refunded (markOrderPaid, markOrderRefunded).   *)
THEOREM TopUpsMatchTheLedger == Spec => []StatusMatchesLedger
<1>1. PaymentInv => StatusMatchesLedger
  BY DEF PaymentInv
<1> QED
  BY <1>1, PaymentInvariance, PTL

(* The order of an event about a payment that counts as processed is no      *)
(* longer pending (insertPaymentEvent .. markPaymentEventSucceeded).         *)
THEOREM ProcessedEventsSettle == Spec => []ProcessedIsSettled
<1>1. PaymentInv => ProcessedIsSettled
  BY DEF PaymentInv
<1> QED
  BY <1>1, PaymentInvariance, PTL

(* A group membership belongs to an active subscription whose order is paid  *)
(* and not refunded (grantSubscriptionBenefits, grantSubscriptionRenewal,    *)
(* cancelSubscriptionByID, markOrderRefunded).                               *)
THEOREM MembershipsEnd == Spec => []MembersAreSubscribed
<1>1. PaymentInv => MembersAreSubscribed
  BY DEF PaymentInv
<1> QED
  BY <1>1, PaymentInvariance, PTL

(* No step changes an order that failed, was canceled or was refunded.       *)
THEOREM ClosedOrdersStand == Spec => ClosedOrdersStay
<1>1. PaymentInv /\ [Next]_vars
        => [\A o \in Orders : status[o] \in {"failed", "canceled", "refunded"}
                                => status'[o] = status[o]]_vars
  BY StepKeeps, ClosedStays DEF PaymentInv
<1> QED
  BY <1>1, PaymentInvariance, PTL DEF Spec, ClosedOrdersStay

-----------------------------------------------------------------------------
(* The handlers implement the ledger of orders *)

(* OrderLedger begins where Payments begins.                                  *)
LEMMA InitMaps == Init => L!Init
BY PaymentsAssumption DEF Init, L!Init, TopUps

(* A transition is a step of OrderLedger, or none.                            *)
LEMMA StepMaps ==
  ASSUME OrderTypes, StatusMatchesLedger, OrderStep
  PROVE  [L!Next]_(L!vars)
<1> USE PaymentsAssumption DEF OrderTypes, TopUps, L!vars
<1>0. \A o \in TopUps : o \in Orders /\ o \notin Subscriptions /\ L!Count(o) \in {0, 1}
                       /\ (Worth[o] > 0 <=> L!Count(o) = 1)
  BY DEF L!Count
<1>1. ASSUME NEW o \in Orders, MarkOrderPaid(o) PROVE [L!Next]_(L!vars)
  <2>1. CASE status[o] # "pending" \/ o \in Subscriptions
    BY <1>1, <2>1 DEF MarkOrderPaid, NoEffect, orderVars, Credit
  <2>2. CASE status[o] = "pending" /\ o \in TopUps
    <3>1. credits' = [credits EXCEPT ![o] = @ + L!Count(o)] /\ UNCHANGED reversals
      BY <1>0, <1>1, <2>2 DEF MarkOrderPaid, Credit, AtMost, StatusMatchesLedger, WasPaid
    <3>2. status' = [status EXCEPT ![o] = "paid"]
      BY <1>1, <2>2 DEF MarkOrderPaid
    <3>3. L!Pay(o)
      BY <2>2, <3>1, <3>2 DEF L!Pay, L!Turn
    <3> QED
      BY <2>2, <3>3 DEF L!Next
  <2> QED
    BY <2>1, <2>2
<1>2. ASSUME NEW o \in Orders, CloseIfPending(o, "failed") \/ CloseIfPending(o, "canceled")
      PROVE  [L!Next]_(L!vars)
  <2>1. CASE status[o] # "pending" \/ o \in Subscriptions
    BY <1>2, <2>1 DEF CloseIfPending
  <2>2. CASE status[o] = "pending" /\ o \in TopUps
    <3>1. L!Close(o)
      BY <1>2, <2>2 DEF CloseIfPending, L!Close, L!Turn
    <3> QED
      BY <2>2, <3>1 DEF L!Next
  <2> QED
    BY <2>1, <2>2
<1>3. ASSUME NEW o \in Orders, status' = [status EXCEPT ![o] = "refund_blocked"], Refundable(o),
             UNCHANGED <<credits, reversals>>
      PROVE  [L!Next]_(L!vars)
  <2>1. CASE status[o] = "refund_blocked" \/ o \in Subscriptions
    BY <1>3, <2>1
  <2>2. CASE status[o] = "paid" /\ o \in TopUps
    <3>1. L!Block(o)
      BY <1>3, <2>2 DEF L!Block, L!Turn
    <3> QED
      BY <2>2, <3>1 DEF L!Next
  <2> QED
    BY <1>3, <2>1, <2>2 DEF Refundable
<1>4. ASSUME NEW o \in Orders, BlockOrder(o) PROVE [L!Next]_(L!vars)
  BY <1>3, <1>4 DEF BlockOrder
<1>5. ASSUME NEW o \in Orders, MarkOrderRefunded(o) PROVE [L!Next]_(L!vars)
  <2>1. CASE ~ Refundable(o)
    BY <1>5, <2>1 DEF MarkOrderRefunded, NoEffect, orderVars
  <2>2. CASE Refundable(o) /\ ~ Covers(o)
    BY <1>3, <1>5, <2>2 DEF MarkOrderRefunded
  <2>3. CASE Refundable(o) /\ Covers(o) /\ o \in Subscriptions
    BY <1>5, <2>3 DEF MarkOrderRefunded
  <2>4. CASE Refundable(o) /\ Covers(o) /\ o \in TopUps
    <3>1. reversals' = [reversals EXCEPT ![o] = @ + L!Count(o)] /\ UNCHANGED credits
      BY <1>0, <1>5, <2>4 DEF MarkOrderRefunded, AtMost, StatusMatchesLedger, Refundable
    <3>2. status' = [status EXCEPT ![o] = "refunded"]
      BY <1>5, <2>4 DEF MarkOrderRefunded
    <3>3. L!Refund(o)
      BY <2>4, <3>1, <3>2 DEF L!Refund, L!Turn, Refundable
    <3> QED
      BY <2>4, <3>3 DEF L!Next
  <2> QED
    BY <2>1, <2>2, <2>3, <2>4
<1>6. ASSUME NEW o \in Subscriptions, Renew(o) \/ CancelSubscription(o) PROVE [L!Next]_(L!vars)
  BY <1>6 DEF Renew, Credit, CancelSubscription, NoEffect, orderVars
<1>7. CASE UNCHANGED orderVars \/ OthersWrite
  BY <1>7 DEF orderVars, OthersWrite
<1> QED
  BY <1>1, <1>2, <1>4, <1>5, <1>6, <1>7 DEF OrderStep

(* Webhooks, replays, reconciler and refunds move a top-up only as the       *)
(* ledger of orders allows: one credit, one reversal, no way back.           *)
THEOREM HandlersImplementTheLedger == Spec => ImplementsOrderLedger
<1>1. PaymentInv /\ [Next]_vars => [L!Next]_(L!vars)
  BY StepKeeps, StepMaps DEF PaymentInv
<1> QED
  BY <1>1, InitMaps, PaymentInvariance, PTL DEF Spec, ImplementsOrderLedger, L!Spec

=============================================================================
