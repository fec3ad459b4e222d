----------------------------- MODULE AccountPool -----------------------------
(***************************************************************************)
(* The pool of upstream accounts: account_runtime_states and the part of    *)
(* accounts and account_quota_windows that routing reads (northbound.go).   *)
(*                                                                         *)
(* A request checks an account out (one slot of its max_concurrency), calls *)
(* the upstream, and completes the route with success or failure, which     *)
(* gives the slot back and moves the account's cooldown and circuit         *)
(* breaker; after a retryable failure it goes on to another account.  Each  *)
(* of these is one transaction on the account's row.  Which of the routable *)
(* accounts is taken (priorities, weights, affinity) is left open.          *)
(***************************************************************************)
EXTENDS Integers, FiniteSets

CONSTANTS Accounts,     \* upstream accounts able to serve the model
          Requests,     \* northbound requests
          NoAccount,    \* the route of a request that holds none
          MaxConcurrency,   \* [Accounts -> max_concurrency]
          Threshold,    \* circuitBreakerFailureThreshold
          MaxAttempts,  \* upstreamMaxAttemptsFromRoute
          MaxQuota      \* requests a fresh quota window allows

ASSUME PoolAssumption ==
  /\ IsFiniteSet(Requests)
  /\ IsFiniteSet(Accounts)
  /\ NoAccount \notin Accounts
  /\ MaxConcurrency \in [Accounts -> Nat \ {0}]
  /\ Threshold \in Nat \ {0}
  /\ MaxAttempts \in Nat \ {0}
  /\ MaxQuota \in Nat \ {0}

VARIABLES inService,    \* accounts.status = 'active'
          active,       \* active_requests
          cooling,      \* cooldown_until is in the future
          circuit,      \* circuit_state
          probeable,    \* circuit_half_open_after is not NULL; it then passes with
                        \* the cooldown, which every writer sets to the same time
          failures,     \* circuit_failure_count, cut off at Threshold
          quota,        \* remaining of the account's request window
          phase,        \* where the routing of each request is
          route,        \* the account a request holds
          excluded,     \* excludedAccountIDs of a request
          answered,     \* the requests to which an upstream gave a final answer
          lost          \* per account, the slots whose request is gone (not in the code)

accountVars == <<inService, active, cooling, circuit, probeable, failures, quota>>

requestVars == <<phase, route, excluded, answered, lost>>

vars == <<accountVars, requestVars>>

(* "select": about to check a route out; "call": holding a route.  The slot   *)
(* is given back first; the statements that follow count the request against *)
(* the quota ("count") and apply the headers of the answer ("signal").       *)
Phases == {"select", "call", "count", "signal", "done"}

Circuits == {"closed", "half_open", "open"}

TypeOK == /\ inService \in [Accounts -> BOOLEAN]
          /\ active \in [Accounts -> Nat]
          /\ cooling \in [Accounts -> BOOLEAN]
          /\ circuit \in [Accounts -> Circuits]
          /\ probeable \in [Accounts -> BOOLEAN]
          /\ failures \in [Accounts -> 0 .. Threshold]
          /\ quota \in [Accounts -> 0 .. MaxQuota]
          /\ phase \in [Requests -> Phases]
          /\ route \in [Requests -> Accounts \cup {NoAccount}]
          /\ excluded \in [Requests -> SUBSET Accounts]
          /\ answered \subseteq Requests
          /\ lost \in [Accounts -> Nat]

Init == /\ inService = [a \in Accounts |-> TRUE]
        /\ active = [a \in Accounts |-> 0]
        /\ cooling = [a \in Accounts |-> FALSE]
        /\ circuit = [a \in Accounts |-> "closed"]
        /\ probeable = [a \in Accounts |-> FALSE]
        /\ failures = [a \in Accounts |-> 0]
        /\ quota = [a \in Accounts |-> MaxQuota]
        /\ phase = [r \in Requests |-> "select"]
        /\ route = [r \in Requests |-> NoAccount]
        /\ excluded = [r \in Requests |-> {}]
        /\ answered = {}
        /\ lost = [a \in Accounts |-> 0]

-----------------------------------------------------------------------------
(* checkoutAnyRoute, and the same conditions in checkoutAffinityRoute and    *)
(* checkoutClaudeCodeSidecarRouteExcluding                                   *)

(* Seeded bug: a half-open circuit lets requests through without a limit.    *)
CircuitAdmits_ManyProbes(a) ==
  \/ circuit[a] = "closed"
  \/ circuit[a] = "half_open"
  \/ circuit[a] = "open" /\ probeable[a] /\ active[a] = 0

(* Seeded bug: an open circuit is probed while earlier requests still run.   *)
CircuitAdmits_BusyProbe(a) ==
  \/ circuit[a] = "closed"
  \/ circuit[a] = "half_open" /\ active[a] = 0
  \/ circuit[a] = "open" /\ probeable[a]

CircuitAdmits(a) ==
  \/ circuit[a] = "closed"
  \/ circuit[a] = "half_open" /\ active[a] = 0
  \/ circuit[a] = "open" /\ probeable[a] /\ active[a] = 0

(* Seeded bug: the checkout does not look at max_concurrency.                *)
Routable_NoLimit(a) ==
  /\ inService[a]
  /\ ~ cooling[a]
  /\ CircuitAdmits(a)
  /\ quota[a] > 0

Routable(a) ==
  /\ inService[a]
  /\ active[a] < MaxConcurrency[a]
  /\ ~ cooling[a]
  /\ CircuitAdmits(a)
  /\ quota[a] > 0

(* The row update of a checkout: a slot is taken, and an open circuit whose  *)
(* window has passed becomes half open.                                      *)
TakeSlot(a) ==
  /\ Routable(a)
  /\ active' = [active EXCEPT ![a] = @ + 1]
  /\ circuit' = [circuit EXCEPT ![a] = IF @ = "open" THEN "half_open" ELSE @]
  /\ UNCHANGED <<inService, cooling, probeable, failures, quota>>

(* Seeded bug: a retry may go back to an account that failed.                *)
Checkout_ForgetsExcluded(r, a) ==
  /\ phase[r] = "select"
  /\ TakeSlot(a)
  /\ phase' = [phase EXCEPT ![r] = "call"]
  /\ route' = [route EXCEPT ![r] = a]
  /\ UNCHANGED <<excluded, answered, lost>>

Checkout(r, a) ==
  /\ phase[r] = "select"
  /\ a \notin excluded[r]
  /\ TakeSlot(a)
  /\ phase' = [phase EXCEPT ![r] = "call"]
  /\ route' = [route EXCEPT ![r] = a]
  /\ UNCHANGED <<excluded, answered, lost>>

(* The transaction commits but the handler sees an error (its client is gone *)
(* or the connection breaks): the slot has no owner.                         *)
CheckoutUnacknowledged(r, a) ==
  /\ phase[r] = "select"
  /\ a \notin excluded[r]
  /\ TakeSlot(a)
  /\ phase' = [phase EXCEPT ![r] = "done"]
  /\ lost' = [lost EXCEPT ![a] = @ + 1]
  /\ UNCHANGED <<route, excluded, answered>>

(* "no_available_account": nothing is routable, or (FOR UPDATE SKIP LOCKED)  *)
(* the rows that are routable are locked by other requests' transactions.    *)
CheckoutRefused(r) ==
  /\ phase[r] = "select"
  /\ \/ \A a \in Accounts \ excluded[r] : ~ Routable(a)
     \/ \E q \in Requests \ {r} : phase[q] # "done"
  /\ phase' = [phase EXCEPT ![r] = "done"]
  /\ UNCHANGED <<accountVars, route, excluded, answered, lost>>

(* The loop stops before its attempts are used up: the affinity rule forbids *)
(* another account, or a stream has already sent something to its client.    *)
StopRetrying(r) ==
  /\ phase[r] = "select"
  /\ excluded[r] # {}
  /\ phase' = [phase EXCEPT ![r] = "done"]
  /\ UNCHANGED <<accountVars, route, excluded, answered, lost>>

-----------------------------------------------------------------------------
(* completeRoute, and the retry loop around it                               *)

DropOne(n) == IF n > 0 THEN n - 1 ELSE 0

GiveBack(a) == active' = [active EXCEPT ![a] = DropOne(@)]

(* A final answer: the circuit closes.                                       *)
RouteSucceeds(r) == LET a == route[r] IN
  /\ phase[r] = "call"
  /\ GiveBack(a)
  /\ cooling' = [cooling EXCEPT ![a] = FALSE]
  /\ circuit' = [circuit EXCEPT ![a] = "closed"]
  /\ probeable' = [probeable EXCEPT ![a] = FALSE]
  /\ failures' = [failures EXCEPT ![a] = 0]
  /\ phase' = [phase EXCEPT ![r] = "count"]
  /\ answered' = answered \cup {r}
  /\ UNCHANGED <<inService, quota, route, excluded, lost>>

(* The state completeRoute(success = false) leaves the account in.           *)
Trips(a) == circuit[a] = "half_open" \/ failures[a] + 1 >= Threshold

(* Seeded bug: an opened circuit is not given a half-open window.            *)
FailAccount_NoWindow(a) ==
  /\ GiveBack(a)
  /\ cooling' = [cooling EXCEPT ![a] = TRUE]
  /\ circuit' = [circuit EXCEPT ![a] = IF Trips(a) THEN "open" ELSE "closed"]
  /\ probeable' = [probeable EXCEPT ![a] = FALSE]
  /\ failures' = [failures EXCEPT ![a] = IF @ < Threshold THEN @ + 1 ELSE @]
  /\ UNCHANGED <<inService, quota>>

FailAccount(a) ==
  /\ GiveBack(a)
  /\ cooling' = [cooling EXCEPT ![a] = TRUE]
  /\ circuit' = [circuit EXCEPT ![a] = IF Trips(a) THEN "open" ELSE "closed"]
  /\ probeable' = [probeable EXCEPT ![a] = Trips(a)]
  /\ failures' = [failures EXCEPT ![a] = IF @ < Threshold THEN @ + 1 ELSE @]
  /\ UNCHANGED <<inService, quota>>

(* A retryable failure: an error, or a status on which the request may go on. *)
RouteFails(r) ==
  /\ phase[r] = "call"
  /\ FailAccount(route[r])
  /\ phase' = [phase EXCEPT ![r] = "count"]
  /\ UNCHANGED <<route, excluded, answered, lost>>

(* The request leaves its route: for good with a final answer, or for another *)
(* account while attempts remain.                                            *)
AfterFailure(r) ==
  IF Cardinality(excluded[r]) + 1 < MaxAttempts THEN "select" ELSE "done"

LeaveRoute(r) ==
  /\ route' = [route EXCEPT ![r] = NoAccount]
  /\ IF r \in answered
     THEN /\ phase' = [phase EXCEPT ![r] = "done"]
          /\ UNCHANGED excluded
     ELSE /\ phase' = [phase EXCEPT ![r] = AfterFailure(r)]
          /\ excluded' = [excluded EXCEPT ![r] = @ \cup {route[r]}]
  /\ UNCHANGED answered

(* decrementRequestQuota, the second statement of completeRoute; then there  *)
(* are headers to apply, or (no answer came) there are none.                 *)
CountRequest(r) ==
  /\ phase[r] = "count"
  /\ quota' = [quota EXCEPT ![route[r]] = DropOne(@)]
  /\ UNCHANGED <<inService, active, cooling, circuit, probeable, failures>>
  /\ \/ /\ phase' = [phase EXCEPT ![r] = "signal"]
        /\ UNCHANGED <<route, excluded, answered>>
     \/ /\ r \notin answered
        /\ LeaveRoute(r)
  /\ UNCHANGED lost

(* applyAccountRetryAfterCooldown, when the answer is a 429 or a 503 with a  *)
(* Retry-After.                                                              *)
CoolFor(a) ==
  /\ cooling' = [cooling EXCEPT ![a] = TRUE]
  /\ probeable' = [probeable EXCEPT ![a] = @ \/ circuit[a] = "open"]

(* applyUpstreamHeaderSignals: the Retry-After and the quota the upstream    *)
(* reports, each if there is one.                                            *)
ApplyHeaderSignals(r) == LET a == route[r] IN
  /\ phase[r] = "signal"
  /\ CoolFor(a) \/ UNCHANGED <<cooling, probeable>>
  /\ \/ \E reported \in 0 .. MaxQuota : quota' = [quota EXCEPT ![a] = reported]
     \/ UNCHANGED quota
  /\ LeaveRoute(r)
  /\ UNCHANGED <<inService, active, circuit, failures, lost>>

(* Seeded bug: a request that cannot be prepared keeps its slot.             *)
PreparationFails_KeepsSlot(r) ==
  /\ phase[r] = "call"
  /\ phase' = [phase EXCEPT ![r] = "done"]
  /\ route' = [route EXCEPT ![r] = NoAccount]
  /\ UNCHANGED <<accountVars, excluded, answered, lost>>

(* releaseRouteCheckout: the upstream request could not be prepared.         *)
PreparationFails(r) ==
  /\ phase[r] = "call"
  /\ GiveBack(route[r])
  /\ phase' = [phase EXCEPT ![r] = "done"]
  /\ route' = [route EXCEPT ![r] = NoAccount]
  /\ UNCHANGED <<inService, cooling, circuit, probeable, failures, quota,
                 excluded, answered, lost>>

-----------------------------------------------------------------------------
(* How a slot loses its request                                              *)

LoseSlot(r) ==
  /\ phase[r] = "call"
  /\ lost' = [lost EXCEPT ![route[r]] = @ + 1]
  /\ UNCHANGED accountVars

(* The client goes away while the handler sleeps before a retry on the same  *)
(* account: it returns without completing the route.  Likewise when          *)
(* releaseRouteCheckout fails.                                               *)
RetryAborted(r) ==
  /\ LoseSlot(r)
  /\ phase' = [phase EXCEPT ![r] = "done"]
  /\ route' = [route EXCEPT ![r] = NoAccount]
  /\ UNCHANGED <<excluded, answered>>

(* completeRoute fails and its error is dropped: the handler goes on as if   *)
(* the route were completed.                                                 *)
CompletionFails(r) ==
  /\ LoseSlot(r)
  /\ \/ /\ phase' = [phase EXCEPT ![r] = "signal"]
        /\ answered' \in {answered, answered \cup {r}}
        /\ UNCHANGED <<route, excluded>>
     \/ LeaveRoute(r)

(* The gateway process stops with the handlers of these requests.            *)
StopHandlers(dead) ==
  /\ phase' = [r \in Requests |-> IF r \in dead THEN "done" ELSE phase[r]]
  /\ route' = [r \in Requests |-> IF r \in dead THEN NoAccount ELSE route[r]]
  /\ lost' = [a \in Accounts |->
       lost[a] + Cardinality({r \in dead : phase[r] = "call" /\ route[r] = a})]
  /\ UNCHANGED <<accountVars, excluded, answered>>

(* All that have begun, and maybe some that have not.                        *)
Crash ==
  \E dead \in SUBSET Requests :
    /\ {r \in Requests : phase[r] \notin {"select", "done"} \/ excluded[r] # {}} \subseteq dead
    /\ StopHandlers(dead)

-----------------------------------------------------------------------------
(* Time, quota windows and administrators                                    *)

CooldownPasses(a) ==
  /\ cooling[a]
  /\ cooling' = [cooling EXCEPT ![a] = FALSE]
  /\ UNCHANGED <<inService, active, circuit, probeable, failures, quota, requestVars>>

(* The window's reset_at passes, or a refresh reports a new one.             *)
QuotaRenewed(a) ==
  /\ quota[a] < MaxQuota
  /\ quota' = [quota EXCEPT ![a] = MaxQuota]
  /\ UNCHANGED <<inService, active, cooling, circuit, probeable, failures, requestVars>>

(* applyQualityIsolation: out of service, the circuit open without a window. *)
Isolate(a) ==
  /\ inService' = [inService EXCEPT ![a] = FALSE]
  /\ cooling' = [cooling EXCEPT ![a] = FALSE]
  /\ circuit' = [circuit EXCEPT ![a] = "open"]
  /\ probeable' = [probeable EXCEPT ![a] = FALSE]
  /\ failures' = [failures EXCEPT ![a] = IF @ < Threshold THEN @ + 1 ELSE @]
  /\ UNCHANGED <<active, quota, requestVars>>

(* applyQualityCooldown: status 'cooldown' and a cooldown.                   *)
QualityCooldown(a) ==
  /\ inService' = [inService EXCEPT ![a] = FALSE]
  /\ cooling' = [cooling EXCEPT ![a] = TRUE]
  /\ UNCHANGED <<active, circuit, probeable, failures, quota, requestVars>>

(* restoreQualityAccount and the batch action "wakeup".                      *)
Restore(a) ==
  /\ inService' = [inService EXCEPT ![a] = TRUE]
  /\ cooling' = [cooling EXCEPT ![a] = FALSE]
  /\ circuit' = [circuit EXCEPT ![a] = "closed"]
  /\ probeable' = [probeable EXCEPT ![a] = FALSE]
  /\ failures' = [failures EXCEPT ![a] = 0]
  /\ UNCHANGED <<active, quota, requestVars>>

(* The administrator sets accounts.status alone (patch, enable, disable).    *)
PatchStatus(a) ==
  /\ inService' = [inService EXCEPT ![a] = ~ @]
  /\ UNCHANGED <<active, cooling, circuit, probeable, failures, quota, requestVars>>

-----------------------------------------------------------------------------
RouteStep(r) == \/ \E a \in Accounts : Checkout(r, a)
                \/ CheckoutRefused(r)
                \/ StopRetrying(r)
                \/ RouteSucceeds(r)
                \/ RouteFails(r)
                \/ CountRequest(r)
                \/ ApplyHeaderSignals(r)
                \/ PreparationFails(r)

LeakStep(r) == \/ \E a \in Accounts : CheckoutUnacknowledged(r, a)
               \/ RetryAborted(r)
               \/ CompletionFails(r)

AdminStep(a) == Isolate(a) \/ QualityCooldown(a) \/ Restore(a) \/ PatchStatus(a)

TimeStep(a) == CooldownPasses(a) \/ QuotaRenewed(a)

Next == \/ \E r \in Requests : RouteStep(r) \/ LeakStep(r)
        \/ Crash
        \/ \E a \in Accounts : AdminStep(a) \/ TimeStep(a)

Spec == Init /\ [][Next]_vars

(* The behaviours in which no slot loses its request and no administrator    *)
(* interferes.  Fairness: an upstream call ends (channels have a timeout)    *)
(* and its handler runs on; clocks advance.                                  *)
LeakFreeNext == \/ \E r \in Requests : RouteStep(r)
                \/ \E a \in Accounts : TimeStep(a)

LeakFreeSpec == /\ Init /\ [][LeakFreeNext]_vars
                /\ \A r \in Requests : WF_vars(RouteStep(r))
                /\ \A a \in Accounts : WF_vars(CooldownPasses(a)) /\ WF_vars(QuotaRenewed(a))

-----------------------------------------------------------------------------
(* Properties *)

Holders(a) == {r \in Requests : phase[r] = "call" /\ route[r] = a}

(* active_requests counts the requests that hold the account and the slots   *)
(* whose request is gone: no route is completed twice, which the code's      *)
(* GREATEST(active_requests - 1, 0) would hide as another request's slot.    *)
SlotsExact == \A a \in Accounts : active[a] = Cardinality(Holders(a)) + lost[a]

(* Concurrent checkouts never take an account over its max_concurrency.      *)
WithinLimit == \A a \in Accounts : active[a] <= MaxConcurrency[a]

(* While a circuit is half open at most one request probes the account.      *)
SingleProbe == \A a \in Accounts : circuit[a] = "half_open" => Cardinality(Holders(a)) <= 1

(* The retry loop never returns to an account that failed the request, and   *)
(* stops after MaxAttempts accounts.                                         *)
RetriesMoveOn ==
  \A r \in Requests : /\ route[r] \notin excluded[r]
                      /\ Cardinality(excluded[r]) <= MaxAttempts
                      /\ phase[r] = "call" => Cardinality(excluded[r]) < MaxAttempts

(* A checkout never goes to an account that a failure has put aside: from an *)
(* open circuit it takes a passed window and an idle account.                *)
ProbesOnly ==
  [][\A a \in Accounts :
       circuit[a] = "open" /\ active'[a] > active[a]
         => circuit'[a] = "half_open" /\ active[a] = 0 /\ ~ cooling[a]]_vars

(* The console shows active_requests as the account's current requests.      *)
ActiveIsCurrent == \A a \in Accounts : active[a] = Cardinality(Holders(a))

=============================================================================
