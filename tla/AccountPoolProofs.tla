-------------------------- MODULE AccountPoolProofs --------------------------
(* Theorems about the pool of upstream accounts, for any number of accounts  *)
(* and requests and any limits, checked by TLAPS.                            *)
EXTENDS AccountPool, FiniteSetTheorems, TLAPS

(* Where a request stands: it has an account exactly while it uses a route,   *)
(* never one it has failed on, and not after an answer.                      *)
RoutesHeld ==
  \A r \in Requests :
    /\ phase[r] \in {"call", "count", "signal"} =>
         route[r] \in Accounts /\ route[r] \notin excluded[r]
    /\ phase[r] \in {"select", "done"} => route[r] = NoAccount
    /\ phase[r] \in {"select", "call"} => r \notin answered

(* Who holds a slot of an account can be counted.                             *)
LEMMA HoldersFinite ==
  ASSUME TypeOK, NEW a \in Accounts
  PROVE  /\ IsFiniteSet(Holders(a))
         /\ Cardinality(Holders(a)) \in Nat
  BY FS_Subset, FS_CardinalityType, PoolAssumption DEF Holders

-----------------------------------------------------------------------------
(* Type correctness *)

(* Every step keeps the types.                                                *)
LEMMA TypeStep == TypeOK /\ RoutesHeld /\ [Next]_vars => TypeOK'
<1> SUFFICES ASSUME TypeOK, RoutesHeld, [Next]_vars PROVE TypeOK'
  OBVIOUS
<1> USE PoolAssumption
<1>1. ASSUME NEW r \in Requests, NEW a \in Accounts, Checkout(r, a) PROVE TypeOK'
  BY <1>1 DEF TypeOK, Checkout, TakeSlot, Circuits, Phases
<1>2. ASSUME NEW r \in Requests, NEW a \in Accounts, CheckoutUnacknowledged(r, a) PROVE TypeOK'
  BY <1>2 DEF TypeOK, CheckoutUnacknowledged, TakeSlot, Circuits, Phases
<1>3. ASSUME NEW r \in Requests, CheckoutRefused(r) \/ StopRetrying(r) PROVE TypeOK'
  BY <1>3 DEF TypeOK, CheckoutRefused, StopRetrying, accountVars, Phases
<1>4. ASSUME NEW r \in Requests, RouteSucceeds(r) PROVE TypeOK'
  <2>1. route[r] \in Accounts
    BY <1>4 DEF RouteSucceeds, RoutesHeld
  <2>2. DropOne(active[route[r]]) \in Nat
    BY <2>1 DEF TypeOK, DropOne
  <2>3. active' \in [Accounts -> Nat]
    BY <1>4, <2>1, <2>2 DEF TypeOK, RouteSucceeds, GiveBack
  <2>5. 0 \in 0 .. Threshold
    OBVIOUS
  <2>4. failures' \in [Accounts -> 0 .. Threshold]
    BY <1>4, <2>1, <2>5, Zenon DEF TypeOK, RouteSucceeds
  <2> QED
    BY <1>4, <2>3, <2>4 DEF TypeOK, RouteSucceeds, Circuits, Phases
<1>5. ASSUME NEW r \in Requests, RouteFails(r) PROVE TypeOK'
  <2> DEFINE a == route[r]
  <2>0. a \in Accounts
    BY <1>5 DEF RouteFails, RoutesHeld
  <2>1. DropOne(active[a]) \in Nat
    BY <2>0 DEF TypeOK, DropOne
  <2>2. active' \in [Accounts -> Nat]
    BY <1>5, <2>0, <2>1 DEF TypeOK, RouteFails, FailAccount, GiveBack
  <2>3. (IF failures[a] < Threshold THEN failures[a] + 1 ELSE failures[a]) \in 0 .. Threshold
    BY <2>0 DEF TypeOK
  <2>4. failures' \in [Accounts -> 0 .. Threshold]
    BY <1>5, <2>0, <2>3 DEF TypeOK, RouteFails, FailAccount
  <2>5. circuit' \in [Accounts -> Circuits]
    BY <1>5 DEF TypeOK, RouteFails, FailAccount, Circuits
  <2>6. Trips(a) \in BOOLEAN
    BY DEF Trips
  <2>7. probeable' \in [Accounts -> BOOLEAN] /\ cooling' \in [Accounts -> BOOLEAN]
    BY <1>5, <2>6, Zenon DEF TypeOK, RouteFails, FailAccount
  <2>8. phase' \in [Requests -> Phases]
    BY <1>5 DEF TypeOK, RouteFails, Phases
  <2> QED
    BY <1>5, <2>2, <2>4, <2>5, <2>7, <2>8 DEF TypeOK, RouteFails, FailAccount
<1>6. ASSUME NEW r \in Requests, LeaveRoute(r), route[r] \in Accounts
      PROVE  /\ phase' \in [Requests -> Phases]
             /\ route' \in [Requests -> Accounts \cup {NoAccount}]
             /\ excluded' \in [Requests -> SUBSET Accounts]
             /\ answered' \subseteq Requests
  BY <1>6 DEF TypeOK, LeaveRoute, AfterFailure, Phases
<1>7. ASSUME NEW r \in Requests, CountRequest(r) PROVE TypeOK'
  <2>1. route[r] \in Accounts
    BY <1>7 DEF CountRequest, RoutesHeld
  <2>2. quota' \in [Accounts -> 0 .. MaxQuota]
    BY <1>7, <2>1 DEF TypeOK, CountRequest, DropOne
  <2>3. CASE LeaveRoute(r)
    BY <1>6, <1>7, <2>1, <2>2, <2>3 DEF TypeOK, CountRequest
  <2>4. CASE /\ phase' = [phase EXCEPT ![r] = "signal"]
             /\ UNCHANGED <<route, excluded, answered>>
    BY <1>7, <2>2, <2>4 DEF TypeOK, CountRequest, Phases
  <2> QED
    BY <1>7, <2>3, <2>4 DEF CountRequest
<1>8. ASSUME NEW r \in Requests, ApplyHeaderSignals(r) PROVE TypeOK'
  <2> DEFINE a == route[r]
  <2>1. a \in Accounts
    BY <1>8 DEF ApplyHeaderSignals, RoutesHeld
  <2>2. quota' \in [Accounts -> 0 .. MaxQuota]
    BY <1>8, <2>1 DEF TypeOK, ApplyHeaderSignals
  <2>3. (probeable[a] \/ circuit[a] = "open") \in BOOLEAN
    OBVIOUS
  <2>4. probeable' \in [Accounts -> BOOLEAN] /\ cooling' \in [Accounts -> BOOLEAN]
    BY <1>8, <2>3, Zenon DEF TypeOK, ApplyHeaderSignals, CoolFor
  <2> QED
    BY <1>6, <1>8, <2>1, <2>2, <2>4 DEF TypeOK, ApplyHeaderSignals
<1>9. ASSUME NEW r \in Requests, PreparationFails(r) PROVE TypeOK'
  <2>1. route[r] \in Accounts
    BY <1>9 DEF PreparationFails, RoutesHeld
  <2>2. DropOne(active[route[r]]) \in Nat
    BY <2>1 DEF TypeOK, DropOne
  <2>3. active' \in [Accounts -> Nat]
    BY <1>9, <2>1, <2>2 DEF TypeOK, PreparationFails, GiveBack
  <2> QED
    BY <1>9, <2>3 DEF TypeOK, PreparationFails, Phases
<1>10. ASSUME NEW r \in Requests, RetryAborted(r) PROVE TypeOK'
  BY <1>10 DEF TypeOK, RetryAborted, LoseSlot, accountVars, Phases, RoutesHeld
<1>11. ASSUME NEW r \in Requests, CompletionFails(r) PROVE TypeOK'
  <2>1. route[r] \in Accounts
    BY <1>11 DEF CompletionFails, LoseSlot, RoutesHeld
  <2>2. lost' \in [Accounts -> Nat]
    BY <1>11, <2>1 DEF TypeOK, CompletionFails, LoseSlot
  <2>3. CASE LeaveRoute(r)
    BY <1>6, <1>11, <2>1, <2>2, <2>3 DEF TypeOK, CompletionFails, LoseSlot, accountVars
  <2>4. CASE /\ phase' = [phase EXCEPT ![r] = "signal"]
             /\ answered' \in {answered, answered \cup {r}}
             /\ UNCHANGED <<route, excluded>>
    BY <1>11, <2>2, <2>4 DEF TypeOK, CompletionFails, LoseSlot, accountVars, Phases
  <2> QED
    BY <1>11, <2>3, <2>4 DEF CompletionFails
<1>12. CASE Crash
  <2>1. PICK dead \in SUBSET Requests : StopHandlers(dead)
    BY <1>12 DEF Crash
  <2>2. ASSUME NEW a \in Accounts
        PROVE  lost[a] + Cardinality({r \in dead : phase[r] = "call" /\ route[r] = a}) \in Nat
    <3>1. IsFiniteSet({r \in dead : phase[r] = "call" /\ route[r] = a})
      BY FS_Subset
    <3>2. Cardinality({r \in dead : phase[r] = "call" /\ route[r] = a}) \in Nat
      BY <3>1, FS_CardinalityType
    <3> QED
      BY <3>2 DEF TypeOK
  <2> QED
    BY <2>1, <2>2 DEF TypeOK, StopHandlers, accountVars, Phases
<1>13. ASSUME NEW a \in Accounts, CooldownPasses(a) \/ QuotaRenewed(a) PROVE TypeOK'
  <2>1. CASE CooldownPasses(a)
    BY <2>1 DEF TypeOK, CooldownPasses, requestVars
  <2>2. CASE QuotaRenewed(a)
    <3>1. MaxQuota \in 0 .. MaxQuota
      OBVIOUS
    <3>2. quota' \in [Accounts -> 0 .. MaxQuota]
      BY <2>2, <3>1, Zenon DEF TypeOK, QuotaRenewed
    <3> QED
      BY <2>2, <3>2 DEF TypeOK, QuotaRenewed, requestVars
  <2> QED
    BY <1>13, <2>1, <2>2
<1>14. ASSUME NEW a \in Accounts, Isolate(a) PROVE TypeOK'
  <2>1. (IF failures[a] < Threshold THEN failures[a] + 1 ELSE failures[a]) \in 0 .. Threshold
    BY DEF TypeOK
  <2>2. failures' \in [Accounts -> 0 .. Threshold]
    BY <1>14, <2>1 DEF TypeOK, Isolate
  <2> QED
    BY <1>14, <2>2 DEF TypeOK, Isolate, requestVars, Circuits
<1>15. ASSUME NEW a \in Accounts, QualityCooldown(a) \/ Restore(a) \/ PatchStatus(a) PROVE TypeOK'
  <2>1. CASE QualityCooldown(a)
    BY <2>1 DEF TypeOK, QualityCooldown, requestVars
  <2>2. CASE Restore(a)
    BY <2>2 DEF TypeOK, Restore, requestVars, Circuits
  <2>3. CASE PatchStatus(a)
    <3>1. inService' \in [Accounts -> BOOLEAN]
      BY <2>3, Zenon DEF TypeOK, PatchStatus
    <3> QED
      BY <2>3, <3>1 DEF TypeOK, PatchStatus, requestVars
  <2> QED
    BY <1>15, <2>1, <2>2, <2>3
<1>16. CASE UNCHANGED vars
  BY <1>16 DEF TypeOK, vars, accountVars, requestVars
<1> QED
  BY <1>1, <1>2, <1>3, <1>4, <1>5, <1>7, <1>8, <1>9, <1>10, <1>11, <1>12, <1>13, <1>14,
     <1>15, <1>16 DEF Next, RouteStep, LeakStep, AdminStep, TimeStep

-----------------------------------------------------------------------------
(* Where the requests stand *)

(* The accounts a request has failed on are counted by its attempts: while   *)
(* it looks for a route or uses one, an attempt is left.                     *)
AttemptsLeft ==
  \A r \in Requests :
    /\ Cardinality(excluded[r]) <= MaxAttempts
    /\ phase[r] # "done" /\ r \notin answered => Cardinality(excluded[r]) < MaxAttempts

(* Whoever is in a call has a route.                                          *)
LEMMA RoutesStep == TypeOK /\ RoutesHeld /\ [Next]_vars => RoutesHeld'
<1> SUFFICES ASSUME TypeOK, RoutesHeld, [Next]_vars PROVE RoutesHeld'
  OBVIOUS
<1> USE PoolAssumption DEF RoutesHeld, TypeOK, Phases
<1>1. ASSUME NEW r \in Requests, NEW a \in Accounts,
             Checkout(r, a) \/ CheckoutUnacknowledged(r, a) PROVE RoutesHeld'
  BY <1>1 DEF Checkout, CheckoutUnacknowledged
<1>2. ASSUME NEW r \in Requests, CheckoutRefused(r) \/ StopRetrying(r) PROVE RoutesHeld'
  BY <1>2 DEF CheckoutRefused, StopRetrying
<1>3. ASSUME NEW r \in Requests, RouteSucceeds(r) \/ RouteFails(r) PROVE RoutesHeld'
  BY <1>3 DEF RouteSucceeds, RouteFails
<1>4. ASSUME NEW r \in Requests, LeaveRoute(r), phase[r] # "done" PROVE RoutesHeld'
  BY <1>4 DEF LeaveRoute, AfterFailure
<1>5. ASSUME NEW r \in Requests, CountRequest(r) PROVE RoutesHeld'
  BY <1>4, <1>5 DEF CountRequest
<1>6. ASSUME NEW r \in Requests, ApplyHeaderSignals(r) PROVE RoutesHeld'
  BY <1>4, <1>6 DEF ApplyHeaderSignals
<1>7. ASSUME NEW r \in Requests, PreparationFails(r) PROVE RoutesHeld'
  BY <1>7 DEF PreparationFails
<1>8. ASSUME NEW r \in Requests, RetryAborted(r) PROVE RoutesHeld'
  BY <1>8 DEF RetryAborted
<1>9. ASSUME NEW r \in Requests, CompletionFails(r) PROVE RoutesHeld'
  BY <1>4, <1>9 DEF CompletionFails, LoseSlot
<1>10. CASE Crash
  BY <1>10 DEF Crash, StopHandlers
<1>11. ASSUME NEW a \in Accounts, AdminStep(a) \/ TimeStep(a) PROVE RoutesHeld'
  BY <1>11 DEF AdminStep, TimeStep, Isolate, QualityCooldown, Restore, PatchStatus,
       CooldownPasses, QuotaRenewed, requestVars
<1>12. CASE UNCHANGED vars
  BY <1>12 DEF vars, requestVars
<1> QED
  BY <1>1, <1>2, <1>3, <1>5, <1>6, <1>7, <1>8, <1>9, <1>10, <1>11, <1>12
     DEF Next, RouteStep, LeakStep

(* While a request looks for a route, an attempt is left.                     *)
LEMMA AttemptsStep ==
  TypeOK /\ RoutesHeld /\ AttemptsLeft /\ [Next]_vars => AttemptsLeft'
<1> SUFFICES ASSUME TypeOK, RoutesHeld, AttemptsLeft, [Next]_vars PROVE AttemptsLeft'
  OBVIOUS
<1> USE PoolAssumption DEF AttemptsLeft
<1>1. \A r \in Requests : IsFiniteSet(excluded[r]) /\ Cardinality(excluded[r]) \in Nat
  BY FS_Subset, FS_CardinalityType DEF TypeOK
<1>2. ASSUME UNCHANGED excluded,
             \A r \in Requests : phase'[r] # "done" /\ r \notin answered' =>
                                   phase[r] # "done" /\ r \notin answered
      PROVE  AttemptsLeft'
  BY <1>2
<1>3. ASSUME NEW r \in Requests, LeaveRoute(r), phase[r] \in {"call", "count", "signal"}
      PROVE  AttemptsLeft'
  <2>1. CASE r \in answered
    BY <1>2, <1>3, <2>1 DEF LeaveRoute, TypeOK
  <2>2. CASE r \notin answered
    <3>1. Cardinality(excluded[r] \cup {route[r]}) = Cardinality(excluded[r]) + 1
      BY <1>1, <1>3, FS_AddElement DEF RoutesHeld
    <3>2. excluded' = [excluded EXCEPT ![r] = @ \cup {route[r]}]
      BY <1>3, <2>2 DEF LeaveRoute
    <3>3. excluded'[r] = excluded[r] \cup {route[r]}
      BY <3>2 DEF TypeOK
    <3>4. Cardinality(excluded'[r]) = Cardinality(excluded[r]) + 1
      BY <3>1, <3>3
    <3>5. phase'[r] = AfterFailure(r) /\ answered' = answered
      BY <1>3, <2>2 DEF LeaveRoute, TypeOK
    <3>6. Cardinality(excluded[r]) + 1 <= MaxAttempts
      BY <1>1, <1>3, <2>2
    <3>7. phase'[r] # "done" => Cardinality(excluded[r]) + 1 < MaxAttempts
      BY <3>5 DEF AfterFailure
    <3>8. \A q \in Requests \ {r} : excluded'[q] = excluded[q] /\ phase'[q] = phase[q]
      BY <1>3, <2>2, <3>2 DEF LeaveRoute, TypeOK
    <3> QED
      BY <3>4, <3>5, <3>6, <3>7, <3>8
  <2> QED
    BY <2>1, <2>2
<1>4. ASSUME NEW r \in Requests, CountRequest(r) \/ ApplyHeaderSignals(r) \/ CompletionFails(r)
      PROVE  AttemptsLeft'
  <2>1. phase[r] \in {"call", "count", "signal"}
    BY <1>4 DEF CountRequest, ApplyHeaderSignals, CompletionFails, LoseSlot
  <2>2. CASE LeaveRoute(r)
    BY <1>3, <2>1, <2>2
  <2>3. CASE ~ LeaveRoute(r)
    BY <1>2, <1>4, <2>1, <2>3 DEF CountRequest, ApplyHeaderSignals, CompletionFails, LoseSlot, TypeOK
  <2> QED
    BY <2>2, <2>3
<1>5. ASSUME NEW r \in Requests, NEW a \in Accounts,
             Checkout(r, a) \/ CheckoutUnacknowledged(r, a) PROVE AttemptsLeft'
  BY <1>2, <1>5 DEF Checkout, CheckoutUnacknowledged, TypeOK
<1>6. ASSUME NEW r \in Requests,
             \/ CheckoutRefused(r) \/ StopRetrying(r) \/ RouteSucceeds(r) \/ RouteFails(r)
             \/ PreparationFails(r) \/ RetryAborted(r)
      PROVE  AttemptsLeft'
  BY <1>2, <1>6 DEF CheckoutRefused, StopRetrying, RouteSucceeds, RouteFails, PreparationFails,
       RetryAborted, TypeOK
<1>7. CASE Crash
  BY <1>2, <1>7 DEF Crash, StopHandlers
<1>8. ASSUME NEW a \in Accounts, AdminStep(a) \/ TimeStep(a) PROVE AttemptsLeft'
  BY <1>2, <1>8 DEF AdminStep, TimeStep, Isolate, QualityCooldown, Restore, PatchStatus,
       CooldownPasses, QuotaRenewed, requestVars
<1>9. CASE UNCHANGED vars
  BY <1>2, <1>9 DEF vars, requestVars
<1> QED
  BY <1>4, <1>5, <1>6, <1>7, <1>8, <1>9 DEF Next, RouteStep, LeakStep

-----------------------------------------------------------------------------
(* Slots *)

SlotInv == SlotsExact /\ WithinLimit /\ SingleProbe

(* A step that leaves the counters and the holders alone, and makes no       *)
(* circuit half open, keeps the slots right.                                 *)
LEMMA SlotsUntouched ==
  ASSUME SlotInv, UNCHANGED <<active, lost>>,
         \A a \in Accounts : Holders(a)' = Holders(a),
         \A a \in Accounts : circuit'[a] = "half_open" => circuit[a] = "half_open"
  PROVE  SlotInv'
<1>1. \A a \in Accounts : Cardinality(Holders(a))' = Cardinality(Holders(a))
  OBVIOUS
<1> QED
  BY <1>1 DEF SlotInv, SlotsExact, WithinLimit, SingleProbe

(* When a request stops holding its account, the account has one holder less. *)
LEMMA HolderLeaves ==
  ASSUME TypeOK, NEW r \in Requests, phase[r] = "call", NEW a \in Accounts, route[r] = a,
         NEW p, p # "call", phase' = [phase EXCEPT ![r] = p],
         \A q \in Requests \ {r} : route'[q] = route[q]
  PROVE  /\ Cardinality(Holders(a))' = Cardinality(Holders(a)) - 1
         /\ Cardinality(Holders(a)) > 0
         /\ \A b \in Accounts \ {a} : Holders(b)' = Holders(b)
<1>1. r \in Holders(a)
  BY DEF Holders
<1>2. Holders(a)' = Holders(a) \ {r}
  BY DEF Holders, TypeOK
<1>3. \A b \in Accounts \ {a} : Holders(b)' = Holders(b)
  BY DEF Holders, TypeOK
<1>4. IsFiniteSet(Holders(a)) /\ Cardinality(Holders(a)) \in Nat
  BY HoldersFinite
<1>5. Cardinality(Holders(a) \ {r}) = Cardinality(Holders(a)) - 1
  BY <1>1, <1>4, FS_RemoveElement
<1>6. Holders(a) # {}
  BY <1>1
<1>7. Cardinality(Holders(a)) # 0
  BY <1>4, <1>6, FS_EmptySet
<1>8. Cardinality(Holders(a))' = Cardinality(Holders(a) \ {r})
  BY <1>2
<1> QED
  BY <1>3, <1>4, <1>5, <1>7, <1>8

(* Giving a slot back.                                                       *)
LEMMA SlotGivenBack ==
  ASSUME TypeOK, SlotInv, NEW r \in Requests, phase[r] = "call", NEW a \in Accounts, route[r] = a,
         NEW p, p # "call", phase' = [phase EXCEPT ![r] = p],
         \A q \in Requests \ {r} : route'[q] = route[q],
         GiveBack(a), UNCHANGED lost,
         \A b \in Accounts : circuit'[b] = "half_open" => circuit[b] = "half_open"
  PROVE  SlotInv'
<1>1. /\ Cardinality(Holders(a))' = Cardinality(Holders(a)) - 1
      /\ Cardinality(Holders(a)) > 0
      /\ \A b \in Accounts \ {a} : Holders(b)' = Holders(b)
  BY HolderLeaves
<1>2. \A b \in Accounts : Cardinality(Holders(b)) \in Nat
  BY HoldersFinite
<1>3. active'[a] = active[a] - 1
  <2>1. active[a] = Cardinality(Holders(a)) + lost[a]
    BY DEF SlotInv, SlotsExact
  <2>2. active'[a] = DropOne(active[a])
    BY DEF GiveBack, TypeOK
  <2> QED
    BY <1>1, <1>2, <2>1, <2>2 DEF DropOne, TypeOK
<1>4. \A b \in Accounts \ {a} : /\ active'[b] = active[b]
                                /\ Cardinality(Holders(b))' = Cardinality(Holders(b))
  <2>1. \A b \in Accounts \ {a} : active'[b] = active[b]
    BY DEF GiveBack, TypeOK
  <2>2. \A b \in Accounts \ {a} : Cardinality(Holders(b))' = Cardinality(Holders(b))
    BY <1>1
  <2> QED
    BY <2>1, <2>2
<1>6. SlotsExact'
  BY <1>1, <1>2, <1>3, <1>4 DEF SlotInv, SlotsExact, TypeOK
<1>7. WithinLimit'
  BY <1>3, <1>4, PoolAssumption DEF SlotInv, WithinLimit, TypeOK
<1>8. SingleProbe'
  BY <1>1, <1>2, <1>4 DEF SlotInv, SingleProbe
<1> QED
  BY <1>6, <1>7, <1>8 DEF SlotInv

(* A slot whose request goes away without giving it back.                    *)
LEMMA SlotLost ==
  ASSUME TypeOK, SlotInv, NEW r \in Requests, phase[r] = "call", NEW a \in Accounts, route[r] = a,
         NEW p, p # "call", phase' = [phase EXCEPT ![r] = p],
         \A q \in Requests \ {r} : route'[q] = route[q],
         LoseSlot(r)
  PROVE  SlotInv'
<1>1. /\ Cardinality(Holders(a))' = Cardinality(Holders(a)) - 1
      /\ Cardinality(Holders(a)) > 0
      /\ \A b \in Accounts \ {a} : Holders(b)' = Holders(b)
  BY HolderLeaves
<1>2. \A b \in Accounts : Cardinality(Holders(b)) \in Nat
  BY HoldersFinite
<1>3. UNCHANGED <<active, circuit>>
  BY DEF LoseSlot, accountVars
<1>4. lost'[a] = lost[a] + 1 /\ \A b \in Accounts \ {a} : lost'[b] = lost[b]
  BY DEF LoseSlot, TypeOK
<1>5. \A b \in Accounts \ {a} : Cardinality(Holders(b))' = Cardinality(Holders(b))
  BY <1>1
<1>6. SlotsExact'
  BY <1>1, <1>2, <1>3, <1>4, <1>5 DEF SlotInv, SlotsExact, TypeOK
<1>7. WithinLimit' /\ SingleProbe'
  BY <1>1, <1>2, <1>3, <1>5 DEF SlotInv, WithinLimit, SingleProbe
<1> QED
  BY <1>6, <1>7 DEF SlotInv

(* Taking a slot.                                                            *)
LEMMA SlotTaken ==
  ASSUME TypeOK, SlotInv, NEW a \in Accounts, TakeSlot(a)
  PROVE  /\ active[a] < MaxConcurrency[a]
         /\ active'[a] = active[a] + 1
         /\ \A b \in Accounts \ {a} : active'[b] = active[b] /\ circuit'[b] = circuit[b]
         /\ circuit'[a] = "half_open" => Holders(a) = {}
<1>1. active'[a] = active[a] + 1
  BY DEF TakeSlot, TypeOK
<1>2. circuit'[a] = "half_open" => active[a] = 0
  BY DEF TakeSlot, Routable, CircuitAdmits, TypeOK, Circuits
<1>3. active[a] = 0 => Cardinality(Holders(a)) = 0
  BY HoldersFinite DEF SlotInv, SlotsExact, TypeOK
<1>4. Cardinality(Holders(a)) = 0 => Holders(a) = {}
  BY HoldersFinite, FS_EmptySet
<1> QED
  BY <1>1, <1>2, <1>3, <1>4 DEF TakeSlot, Routable, TypeOK

(* A slot is taken and given back with its holder, or is lost with it.        *)
LEMMA SlotsStep == TypeOK /\ RoutesHeld /\ SlotInv /\ [Next]_vars => SlotInv'
<1> SUFFICES ASSUME TypeOK, RoutesHeld, SlotInv, [Next]_vars PROVE SlotInv'
  OBVIOUS
<1>1. ASSUME NEW r \in Requests, NEW a \in Accounts, Checkout(r, a) PROVE SlotInv'
  <2>1. /\ active[a] < MaxConcurrency[a]
        /\ active'[a] = active[a] + 1
        /\ \A b \in Accounts \ {a} : active'[b] = active[b] /\ circuit'[b] = circuit[b]
        /\ circuit'[a] = "half_open" => Holders(a) = {}
    BY <1>1, SlotTaken DEF Checkout
  <2>2. Holders(a)' = Holders(a) \cup {r} /\ r \notin Holders(a)
    BY <1>1 DEF Checkout, Holders, TypeOK
  <2>3. \A b \in Accounts \ {a} : Holders(b)' = Holders(b)
    BY <1>1 DEF Checkout, Holders, TypeOK
  <2>4. Cardinality(Holders(a) \cup {r}) = Cardinality(Holders(a)) + 1
    BY <2>2, HoldersFinite, FS_AddElement
  <2>5. Cardinality(Holders(a))' = Cardinality(Holders(a)) + 1
    BY <2>2, <2>4
  <2>6. \A b \in Accounts \ {a} : Cardinality(Holders(b))' = Cardinality(Holders(b))
    BY <2>3
  <2>7. Holders(a) = {} => Cardinality(Holders(a)) = 0
    BY FS_EmptySet
  <2>8. lost' = lost
    BY <1>1 DEF Checkout
  <2>9. \A b \in Accounts : Cardinality(Holders(b)) \in Nat
    BY HoldersFinite
  <2>10. SlotsExact'
    BY <2>1, <2>5, <2>6, <2>8, <2>9 DEF SlotInv, SlotsExact, TypeOK
  <2>11. WithinLimit'
    BY <2>1, PoolAssumption DEF SlotInv, WithinLimit, TypeOK
  <2>12. SingleProbe'
    BY <2>1, <2>5, <2>6, <2>7, <2>9 DEF SlotInv, SingleProbe
  <2> QED
    BY <2>10, <2>11, <2>12 DEF SlotInv
<1>2. ASSUME NEW r \in Requests, NEW a \in Accounts, CheckoutUnacknowledged(r, a)
      PROVE  SlotInv'
  <2>1. /\ active[a] < MaxConcurrency[a]
        /\ active'[a] = active[a] + 1
        /\ \A b \in Accounts \ {a} : active'[b] = active[b] /\ circuit'[b] = circuit[b]
        /\ circuit'[a] = "half_open" => Holders(a) = {}
    BY <1>2, SlotTaken DEF CheckoutUnacknowledged
  <2>2. \A b \in Accounts : Holders(b)' = Holders(b)
    BY <1>2 DEF CheckoutUnacknowledged, Holders, TypeOK
  <2>3. \A b \in Accounts : Cardinality(Holders(b))' = Cardinality(Holders(b))
    BY <2>2
  <2>4. lost'[a] = lost[a] + 1 /\ \A b \in Accounts \ {a} : lost'[b] = lost[b]
    BY <1>2 DEF CheckoutUnacknowledged, TypeOK
  <2>5. Holders(a) = {} => Cardinality(Holders(a)) = 0
    BY FS_EmptySet
  <2>6. \A b \in Accounts : Cardinality(Holders(b)) \in Nat
    BY HoldersFinite
  <2>7. SlotsExact'
    BY <2>1, <2>3, <2>4, <2>6 DEF SlotInv, SlotsExact, TypeOK
  <2>8. WithinLimit'
    BY <2>1, PoolAssumption DEF SlotInv, WithinLimit, TypeOK
  <2>9. SingleProbe'
    BY <2>1, <2>3, <2>5, <2>6 DEF SlotInv, SingleProbe
  <2> QED
    BY <2>7, <2>8, <2>9 DEF SlotInv
<1>3. ASSUME NEW r \in Requests, CheckoutRefused(r) \/ StopRetrying(r) PROVE SlotInv'
  <2>1. \A a \in Accounts : Holders(a)' = Holders(a)
    BY <1>3 DEF CheckoutRefused, StopRetrying, Holders, TypeOK
  <2> QED
    BY <1>3, <2>1, SlotsUntouched DEF CheckoutRefused, StopRetrying, accountVars
<1>4. ASSUME NEW r \in Requests, RouteSucceeds(r) PROVE SlotInv'
  <2>1. phase[r] = "call" /\ route[r] \in Accounts
    BY <1>4 DEF RouteSucceeds, RoutesHeld
  <2>2. \A b \in Accounts : circuit'[b] = "half_open" => circuit[b] = "half_open"
    BY <1>4 DEF RouteSucceeds, TypeOK
  <2> QED
    BY <1>4, <2>1, <2>2, SlotGivenBack DEF RouteSucceeds
<1>5. ASSUME NEW r \in Requests, RouteFails(r) PROVE SlotInv'
  <2>1. phase[r] = "call" /\ route[r] \in Accounts
    BY <1>5 DEF RouteFails, RoutesHeld
  <2>2. \A b \in Accounts : circuit'[b] = "half_open" => circuit[b] = "half_open"
    BY <1>5 DEF RouteFails, FailAccount, TypeOK
  <2>3. GiveBack(route[r])
    BY <1>5 DEF RouteFails, FailAccount
  <2> QED
    BY <1>5, <2>1, <2>2, <2>3, SlotGivenBack DEF RouteFails
<1>6. ASSUME NEW r \in Requests, CountRequest(r) \/ ApplyHeaderSignals(r) PROVE SlotInv'
  <2>1. phase[r] \in {"count", "signal"} /\ phase'[r] # "call"
    BY <1>6 DEF CountRequest, ApplyHeaderSignals, LeaveRoute, AfterFailure, TypeOK
  <2>2. \A q \in Requests \ {r} : phase'[q] = phase[q] /\ route'[q] = route[q]
    BY <1>6 DEF CountRequest, ApplyHeaderSignals, LeaveRoute, TypeOK
  <2>3. \A a \in Accounts : Holders(a)' = Holders(a)
    BY <2>1, <2>2 DEF Holders
  <2>4. UNCHANGED <<active, lost, circuit>>
    BY <1>6 DEF CountRequest, ApplyHeaderSignals
  <2> QED
    BY <2>3, <2>4, SlotsUntouched
<1>7. ASSUME NEW r \in Requests, PreparationFails(r) PROVE SlotInv'
  <2>1. phase[r] = "call" /\ route[r] \in Accounts
    BY <1>7 DEF PreparationFails, RoutesHeld
  <2>2. \A q \in Requests \ {r} : route'[q] = route[q]
    BY <1>7 DEF PreparationFails, TypeOK
  <2> QED
    BY <1>7, <2>1, <2>2, SlotGivenBack DEF PreparationFails
<1>8. ASSUME NEW r \in Requests, RetryAborted(r) PROVE SlotInv'
  <2>1. phase[r] = "call" /\ route[r] \in Accounts
    BY <1>8 DEF RetryAborted, LoseSlot, RoutesHeld
  <2>2. \A q \in Requests \ {r} : route'[q] = route[q]
    BY <1>8 DEF RetryAborted, TypeOK
  <2> QED
    BY <1>8, <2>1, <2>2, SlotLost DEF RetryAborted
<1>9. ASSUME NEW r \in Requests, CompletionFails(r) PROVE SlotInv'
  <2>1. LoseSlot(r) /\ phase[r] = "call" /\ route[r] \in Accounts
    BY <1>9 DEF CompletionFails, LoseSlot, RoutesHeld
  <2>2. \A q \in Requests \ {r} : route'[q] = route[q]
    BY <1>9 DEF CompletionFails, LeaveRoute, TypeOK
  <2>3. phase' = [phase EXCEPT ![r] = phase'[r]] /\ phase'[r] # "call"
    BY <1>9 DEF CompletionFails, LeaveRoute, AfterFailure, TypeOK
  <2> QED
    BY <2>1, <2>2, <2>3, SlotLost
<1>10. CASE Crash
  <2>0. PICK dead \in SUBSET Requests :
          /\ {r \in Requests : phase[r] \notin {"select", "done"} \/ excluded[r] # {}} \subseteq dead
          /\ StopHandlers(dead)
    BY <1>10 DEF Crash
  <2>1. \A a \in Accounts : Cardinality(Holders(a))' = 0
    <3>1. \A a \in Accounts : Holders(a)' = {}
      BY <2>0 DEF StopHandlers, Holders
    <3> QED
      BY <3>1, FS_EmptySet
  <2>2. \A a \in Accounts : lost'[a] = lost[a] + Cardinality(Holders(a))
    <3>1. \A a \in Accounts : {r \in dead : phase[r] = "call" /\ route[r] = a} = Holders(a)
      BY <2>0 DEF Holders
    <3> QED
      BY <2>0, <3>1 DEF StopHandlers
  <2>3. UNCHANGED <<active, circuit>>
    BY <2>0 DEF StopHandlers, accountVars
  <2>4. \A a \in Accounts : Cardinality(Holders(a)) \in Nat
    BY HoldersFinite
  <2>5. SlotsExact'
    BY <2>1, <2>2, <2>3, <2>4 DEF SlotInv, SlotsExact, TypeOK
  <2>6. WithinLimit' /\ SingleProbe'
    BY <2>1, <2>3 DEF SlotInv, WithinLimit, SingleProbe
  <2> QED
    BY <2>5, <2>6 DEF SlotInv
<1>11. ASSUME NEW a \in Accounts, AdminStep(a) \/ TimeStep(a) PROVE SlotInv'
  <2>1. UNCHANGED <<active, lost, phase, route>>
    BY <1>11 DEF AdminStep, TimeStep, Isolate, QualityCooldown, Restore, PatchStatus,
         CooldownPasses, QuotaRenewed, requestVars
  <2>2. \A b \in Accounts : circuit'[b] = "half_open" => circuit[b] = "half_open"
    BY <1>11 DEF AdminStep, TimeStep, Isolate, QualityCooldown, Restore, PatchStatus,
         CooldownPasses, QuotaRenewed, TypeOK
  <2>3. \A b \in Accounts : Holders(b)' = Holders(b)
    BY <2>1 DEF Holders
  <2> QED
    BY <2>1, <2>2, <2>3, SlotsUntouched
<1>12. CASE UNCHANGED vars
  <2>1. \A b \in Accounts : Holders(b)' = Holders(b)
    BY <1>12 DEF Holders, vars, requestVars
  <2> QED
    BY <1>12, <2>1, SlotsUntouched DEF vars, accountVars, requestVars
<1> QED
  BY <1>1, <1>2, <1>3, <1>4, <1>5, <1>6, <1>7, <1>8, <1>9, <1>10, <1>11, <1>12
     DEF Next, RouteStep, LeakStep

-----------------------------------------------------------------------------
(* The theorems *)

PoolInv == TypeOK /\ RoutesHeld /\ AttemptsLeft /\ SlotInv

(* Nobody is in a call at first.                                              *)
LEMMA PoolInitially == Init => PoolInv
<1> SUFFICES ASSUME Init PROVE PoolInv
  OBVIOUS
<1> USE PoolAssumption
<1>1. TypeOK
  BY DEF Init, TypeOK, Phases, Circuits
<1>2. RoutesHeld
  BY DEF Init, RoutesHeld
<1>3. AttemptsLeft
  BY FS_EmptySet DEF Init, AttemptsLeft
<1>4. \A a \in Accounts : Cardinality(Holders(a)) = 0
  <2>1. \A a \in Accounts : Holders(a) = {}
    BY DEF Init, Holders
  <2> QED
    BY <2>1, FS_EmptySet
<1>5. SlotInv
  BY <1>4 DEF Init, SlotInv, SlotsExact, WithinLimit, SingleProbe
<1> QED
  BY <1>1, <1>2, <1>3, <1>5 DEF PoolInv

(* The inductive invariant of the pool.                                      *)
THEOREM PoolInvariance == Spec => []PoolInv
<1>1. PoolInv /\ [Next]_vars => PoolInv'
  BY TypeStep, RoutesStep, AttemptsStep, SlotsStep DEF PoolInv
<1> QED
  BY <1>1, PoolInitially, PTL DEF Spec

(* The columns and the handlers' variables keep their types, whatever the    *)
(* interleaving: the counters never go below zero.                           *)
THEOREM PoolTypes == Spec => []TypeOK
  BY PoolInvariance, PTL DEF PoolInv

(* active_requests is exactly the requests that hold the account and those   *)
(* that went away without giving their slot back.                            *)
THEOREM SlotsAreExact == Spec => []SlotsExact
<1>1. PoolInv => SlotsExact
  BY DEF PoolInv, SlotInv
<1> QED
  BY <1>1, PoolInvariance, PTL

(* No account ever has more requests than its max_concurrency.               *)
THEOREM LimitsAreKept == Spec => []WithinLimit
<1>1. PoolInv => WithinLimit
  BY DEF PoolInv, SlotInv
<1> QED
  BY <1>1, PoolInvariance, PTL

(* A half-open circuit lets one probe through at a time.                     *)
THEOREM OneProbeAtATime == Spec => []SingleProbe
<1>1. PoolInv => SingleProbe
  BY DEF PoolInv, SlotInv
<1> QED
  BY <1>1, PoolInvariance, PTL

(* A request is retried on another account each time, and at most            *)
(* MaxAttempts accounts see it.                                              *)
THEOREM RetriesAreBounded == Spec => []RetriesMoveOn
<1>1. PoolInv => RetriesMoveOn
  BY PoolAssumption DEF PoolInv, RetriesMoveOn, RoutesHeld, AttemptsLeft, TypeOK, Phases
<1> QED
  BY <1>1, PoolInvariance, PTL

(* Outside a checkout no counter rises.                                      *)
LEMMA OnlyCheckoutsTake ==
  ASSUME TypeOK, RoutesHeld, [Next]_vars, NEW a \in Accounts, active'[a] > active[a]
  PROVE  \E b \in Accounts : TakeSlot(b)
<1>1. \A b \in Accounts : DropOne(active[b]) <= active[b]
  BY DEF DropOne, TypeOK
<1>2. ASSUME NEW b \in Accounts, GiveBack(b) PROVE FALSE
  <2>1. active'[a] = IF a = b THEN DropOne(active[b]) ELSE active[a]
    BY <1>2 DEF GiveBack, TypeOK
  <2>2. active'[a] <= active[a]
    BY <1>1, <2>1 DEF TypeOK
  <2>3. active'[a] \in Nat
    BY <2>1 DEF DropOne, TypeOK
  <2> QED
    BY <2>2, <2>3 DEF TypeOK
<1>3. active' # active
  BY DEF TypeOK
<1>4. ASSUME NEW r \in Requests, RouteStep(r) PROVE \E b \in Accounts : TakeSlot(b)
  BY <1>2, <1>3, <1>4 DEF RouteStep, Checkout, CheckoutRefused, StopRetrying, RouteSucceeds, RouteFails,
       FailAccount, CountRequest, ApplyHeaderSignals, PreparationFails, RoutesHeld, accountVars
<1>5. ASSUME NEW r \in Requests, LeakStep(r) PROVE \E b \in Accounts : TakeSlot(b)
  BY <1>3, <1>5 DEF LeakStep, CheckoutUnacknowledged, RetryAborted, CompletionFails, LoseSlot,
       accountVars
<1>6. ASSUME NEW b \in Accounts, AdminStep(b) \/ TimeStep(b) PROVE FALSE
  BY <1>3, <1>6 DEF AdminStep, TimeStep, Isolate, QualityCooldown, Restore, PatchStatus,
       CooldownPasses, QuotaRenewed
<1>7. ~ Crash /\ ~ UNCHANGED vars
  BY <1>3 DEF Crash, StopHandlers, vars, accountVars
<1> QED
  BY <1>4, <1>5, <1>6, <1>7 DEF Next

(* Only an idle account whose window has passed is taken out of an open      *)
(* circuit, and it becomes half open with that.                              *)
THEOREM OpenCircuitsAreProbed == Spec => ProbesOnly
<1>1. ASSUME PoolInv, [Next]_vars, NEW a \in Accounts,
             circuit[a] = "open", active'[a] > active[a]
      PROVE  circuit'[a] = "half_open" /\ active[a] = 0 /\ ~ cooling[a]
  <2>1. PICK b \in Accounts : TakeSlot(b)
    BY <1>1, OnlyCheckoutsTake DEF PoolInv
  <2>2. b = a
    BY <1>1, <2>1 DEF TakeSlot, PoolInv, TypeOK
  <2> QED
    BY <1>1, <2>1, <2>2 DEF TakeSlot, Routable, CircuitAdmits, PoolInv, TypeOK
<1>2. PoolInv /\ [Next]_vars =>
        [\A a \in Accounts :
           circuit[a] = "open" /\ active'[a] > active[a]
             => circuit'[a] = "half_open" /\ active[a] = 0 /\ ~ cooling[a]]_vars
  BY <1>1
<1> QED
  BY <1>2, PoolInvariance, PTL DEF Spec, ProbesOnly

==============================================================================
