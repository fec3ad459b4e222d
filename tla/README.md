# elucid-relay: a verification project

TLA+ models of elucid-relay, the self-hosted relay for AI provider APIs: its Go
gateway (`services/gateway-api`, called *the gateway* below) and its OAuth job
worker (`apps/oauth-wrapper`).  Sixteen modules are models, each checked with
TLC on small instances; two more are abstract specifications that models are shown
to implement; two put the small machines together.  All of the models, and both
refinements, have theorems that TLAPS checks for every value of the constants.

The gateway keeps all of its durable state in PostgreSQL, and each step of a
handler that changes it is one transaction on a few rows.  So a transaction is
an action, and what the models explore lies *between* the transactions: the
other handlers, the background workers, the client that goes away, the answer
that is lost, the process that stops.  Most transactions' errors are dropped or
only logged by their callers, so "the transaction fails" and "it commits but its
caller sees an error" are ordinary steps here, not exotic ones.

In this text HS is `src/services/gateway-api/internal/httpserver/`.

## 1. Inventory

How the parts interact, in one relay call (`northboundProxy`, northbound.go):
the HTTP middleware authenticates the API key and limits the rate; the handler
**claims** its request id (`northbound_idempotency_keys`); risk rules, model
scope, policies and **spend limits** admit it; it **reserves** an estimate on
the user's **wallet** (`wallet_accounts.reserved_balance`); it checks an
upstream account out of the **pool** (`account_runtime_states`), **rewrites** the
request for that route, calls it, **translates** what comes back, completes the
route, and perhaps goes on to another account; it **settles** or **releases** the
reservation, writes `usage_records`, and completes the claim.
Payments, redeem codes and administrators put money into the wallet row and take
it out; OAuth jobs, quality scans, wake-up jobs and administrators change the
accounts.  Workers inside the gateway run on tickers (`server.go` 47-51): cleanup every 10
minutes, notifications every 15 s, the account pool every minute, the payment
reconciler every minute.  The OAuth worker is a process of its own that polls
over HTTP.  Two gateway processes may serve one database; in memory each keeps
only its rate limiter and a copy of the reverse proxy settings.

| Part | State | Operations | What is hard | What makes it correct |
| --- | --- | --- | --- | --- |
| Wallet (northbound.go, billing.go, admin.go, portal.go) | `wallet_accounts`, `wallet_ledgers` | reserve, release, settle; credit and debit by administrators, redeem codes, payments, refunds | concurrent reservations; `GREATEST(x - y, 0)` hides a double release; lost acknowledgements; crash with a reservation open | the counter is the sum of what is held; a hold can always be settled; each request is closed once |
| Account pool (northbound.go, account_quality.go, admin.go) | `account_runtime_states`, `accounts.status`, quota windows | checkout, completion, retry, circuit breaker, cooldown, quota, isolation and restoration | slots counted by increments; half-open probes; late answers; clients that leave | slots exact, limits kept, one probe, accounts come back |
| Northbound relay (northbound.go, auth_handler.go, cleanup.go) | claims, `usage_records`, with the two above | claim, admission, the call, streams, WebSockets, records | one call is seven transactions with early returns between them; a goroutine beside the writer of a stream; two beside a WebSocket | failures are free, what is paid is recorded, an id is served once; a client sees one answer; every session ends and is closed |
| Payments (billing.go, payments.go) | `orders`, `payment_events`, `user_subscriptions`, group membership, ledger | checkout, webhooks, replay, reconciler, refunds, renewals, cancellation | duplicated, late, reordered events; races with the reconciler and with administrators | an order's status agrees with the ledger; no pending order is forgotten |
| OAuth jobs (oauth.go, runner.mjs) | `oauth_jobs`, `account_auth_states`, vault | queue, claim under a lease, complete, fail, re-authorize, revoke | leases that expire at work; lost answers; attempts | a worker that has lost its job changes nothing; jobs are taken |
| Transformations (gemini_cli_transform.go, agent_provider_adapters.go, provider_adapters.go, responses_sse_framer.go) | none beyond a request | translate requests and answers, whole or piece by piece | chunk boundaries; state between pieces; parallel tool calls; alternation of turns | a stream tells what the whole answer tells; nothing said is lost |
| Rewriting and configuration (reverse_proxy_overrides.go, replay_guard.go, affinity_rules.go, reverse_proxy_settings.go) | one settings row, its copy in each process; a request's body and headers | rewrite for each attempt, cut histories, draw a routing key, save and cache settings | retries; operations that write to each other's places; slow readers of the row | an attempt starts from what the client sent; settings are at most 15 s old |
| Admission (risk.go, billing_policy.go, spend_limits.go) | limits, groups, permissions, rules, rates; the usage they count | evaluate, resolve, enforce; settle, record; notices | check then act, with an estimate; debit and usage row apart; a connection kept while a second is asked for | a limit is exceeded by at most what the requests in flight may cost |
| Account care (account_quality.go, account_wakeup.go, account_pool_ops.go, parts of platform_ops.go) | scores, quota snapshots, job rows | score and isolate, refresh, wake up, health checks | several instances' workers and administrators, who read lists and work through them | a job runs once at a time and runs; what an administrator disabled stays so |
| Notifications (notifications.go) | `notification_events`, `notification_channels` | emit, claim, send, finish, retry | crash between claim and delivery; a dispatch that outlives its claim | at least once, and exactly once when nothing breaks; every event ends |
| Users (account_security.go, setup.go, auth.go, admin.go, portal.go) | users, sessions, keys, codes and tokens, `redeem_codes`, `redeem_claims` | set up, register, log in, reset, verify, redeem | two handlers with one code; a read before a write | what may happen once happens once |
| Catalogue (model_sync.go, admin.go) | `model_catalog`, prices, aliases, channel abilities, sync jobs | create, patch, batch, synchronise | patches that check what they read and write only what they were given; a diff read before its transaction | no model is priced by what is not there; reports are true |
| Pricing, imports, affiliate rebates, transport, TLS, email, migrations, rate limiter, routes, reports | rows, in-memory counters | single-row writes, arithmetic, network | see section 6 | - |
| Portal (React), contracts, scripts | - | - | - | quoted for what they say of the system |

The complete list, with the status of each part, is in `PROJECT.json` under
"components"; what is hard to test in them, at its line, under "hazards".

## 2. The modules and the code

Names follow the code: an action has the name of the function whose transaction
it is, capitalised.  A definition called `X_Something` next to `X` is a seeded
bug, `X` as a plausible mistake would have it; it takes part in no
specification, and each property is shown to fail when one of them replaces the
real definition.  `PROJECT.json` maps each definition to its lines.

### Money, routes and jobs

**Escrow** - what a wallet promises, with no counter at all: funds, and the set of what
requests have put aside.  It is the abstract specification of Wallet.

**Wallet** - one row of `wallet_accounts`.  `balance`, `reserved` are the
columns; `entries` the ledger rows of requests; `stage[r]` says whether the
handler of request r carries a `reservationInfo`, and `hold[r]` what it has added
to `reserved_balance` and not taken back (also after the handler died).
`ReserveWallet`, `ReleaseReservation`, `SettleReservation` are the transactions;
`ReserveRefused`, `SettleRefused` the guards that match no row;
`ReserveUnacknowledged` a commit whose caller sees an error; `CloseFails` a
rollback whose error is dropped; `CreditWallet` and `DebitWallet` the other
writers of the row; `Crash` the end of the process.  Amounts are natural numbers.

**AccountPool** - the rows of the upstream accounts and the routing of each
request: `Checkout` (the conditions of the routing query, then the slot and the
half-open circuit), `RouteSucceeds` and `RouteFails` (`completeRoute`),
`CountRequest` and `ApplyHeaderSignals` (the statements after it), retries with
`excluded`, `StopRetrying`, `PreparationFails` (`releaseRouteCheckout`).
`CheckoutUnacknowledged`, `RetryAborted`, `CompletionFails`, `Crash` are the ways
a slot loses its request; the ghost `lost` counts them.  `Isolate`, `QualityCooldown`,
`Restore`, `PatchStatus` are the administrators and the quality scan.  Which
routable account is chosen is left open (priorities, weights and affinity are
one choice among those); clocks are abstracted to "still to come" or "past".

**Northbound** - composes Wallet and AccountPool (`W == INSTANCE Wallet`,
`P == INSTANCE AccountPool`, both with Requests <- Calls) with the handler
(`step`), the claim and the usage record.  Its actions are the handler's parts in
the order of the code; each conjoins the action of W or P that it calls.  A
stream differs: it keeps its route until it has been copied, settles *before*
it completes the route, goes on when a settlement is refused, and may skip its
record.  `expired` is a history variable: the ids whose claim the cleanup has
deleted.

**Payments** - orders, events, the wallet's free funds, subscriptions and the
group membership, with the provider as environment: sessions open, are paid,
fail or expire, and `Happened(e)` says which events the provider may send, at any
time and repeatedly.  Refund events come two for each order of which the provider has
refunded something: the code takes each for the whole refund, also one that is partial,
pending or failed (billing.go 732-736), and so does the model.  A webhook handler is a sequence of transactions
(`Deliver`, `StartProcessing`, `Handle` or `HandleFails`, `Finish`, or `Abandon`
anywhere); `Replay` is the administrator's; a refund is `ReadOrder`,
`ReadWallet`, `SendRefund` (or its branch where nothing is sent, for want of a secret or of
a payment intent), `BookRefund`; the reconciler asks (`AskPaid`,
`AskUnpaid`) and afterwards cancels (`CancelExpired`).  The transitions of an
order (`MarkOrderPaid`, `CloseIfPending`, `Renew`, `CancelSubscription`,
`MarkOrderRefunded`) include their wallet and membership effects.

**OrderLedger** - what is promised of an order that tops up a wallet, with no events,
handlers or administrators: it is paid, closed, blocked or refunded, and credited
and reversed in the step that does so.  It is the abstract specification of
Payments (`TopUps` are the orders that count; a subscription is credited with
every renewal).

**OAuthJobs** - the jobs of one account, one row for each idempotency key, and
the workers: `task`, `turn` and `doing` are the local state of `runOnce`.  `Claim` and
`ClaimLost` (the answer does not arrive), `Complete` (with or without its
answer), `RunFails`, `Fail`, `Exit`, `LeaseExpires`; the owner's `Reauth` and
`Revoke`; the administrators' `CreateJob`, `PatchJob`, `PatchAuth`,
`PatchAccount`.  The strategies' protocols with the providers are one step; the
order of the queue is left open.

### What is sent

**StreamRelay** - how one streaming call reaches its client: `streamUpstream`,
`copyStreamAndMeterForRoute`, `streamCommitWriter`, the framer, and the goroutine
that writes keep-alive comments.  An answer is a sequence of *pieces*, two for
each event, and a read brings one or two of them, since chunks have nothing to do
with events.  `mode` says how the route copies: raw, framed, or transformed by
events or by chunks.  `client` is what the client was sent, with the attempt that
each piece came from; `metered` the events whose usage was read.  The mutex makes
each write one step; `done` is the channel that `Close` takes, and the goroutine
(`Tick`) lives beside the handler until it sees it.

**WebSockets** - the realtime and Responses endpoints and the Claude Code sidecar
(its subscription and its plain calls): claim, reserve, check out, dial with
retries, then two goroutines that copy in opposite directions (`toUpstream`,
`toClient`) and close each other's connection; the handler waits for both,
settles and completes.  What slots, reservations and claims are is the business
of the modules above; here a session has at most one of each.

**Transformers** - the streaming transformers of Gemini and Kiro as state
machines (`st`), *beside* the function that rewrites a whole answer, on the same
input.  The function is the reference: at each point where the stream ends, what
was streamed must tell what the whole answer tells.  A Kiro frame arrives in two
halves; a Gemini event has candidates with parts and a finish reason.

**Conversations** - the requests to Gemini, Antigravity and Kiro: the messages are
read one at a time and told in each form.  `names` is the map from call ids to
tool names; for Kiro, entries are made up where a turn is missing (`Between`,
`Normalized`), the system prompt goes into the first user entry, and the last
entry is the current message (`Split`).

**Overrides** - the replay guard's cut (`Trimmed`, with its two loops `Back` and
`BackPairs`), over histories whose calls are made in one item or in items of their own; then each attempt: a route's
system prompt, its operations one by one (`Applied`, `Fails`), the model of the
route, the headers (`UpstreamHeader`), and on the way back the status map and the
response rules.  A document is a function from the paths it has to what is there,
so that "move", "copy", list positions and deletion of subtrees are what they
are in the code.  `audit` is what the usage record will say.

**ProxySettings** - the settings row, the copy of each instance with its expiry,
slow readers and savers, and the routing key that a request is given by the rules
it sees (affinity rule, known session fields, digest).

### What runs beside

**Admission** - the checks in their order: `EvaluateRisk`, `ResolvePolicy`,
`EnforceSpendLimits` (which opens the cursor), `SpendOfTheDay` and
`EnforceSpendLimit` for each limit with a second connection, `GroupMonth`,
`GroupRate`; then the end of the call: `Settle` debits the wallet in one transaction,
`LowBalance` and `Notify` look at the balance it left, and `Record` writes the usage row
in another one, whose error is dropped; `EndUnrecorded` is a call that ends without a row.
What a call costs (`Bill`) has nothing to do with its estimate, as the code prices what
was used; a debit that the wallet cannot bear is refused and, in a stream, recorded all
the same.  `free` is the database pool.  Which risk rules match a request is an input.
Administrators change limits, groups, members, permissions and rules meanwhile.
`OneRowEach` is the table's UNIQUE constraint, on which it rests that one row speaks
for a model and an endpoint.  Two history variables: `lost` adds up the debits whose row
was not written, `since` is what had been used when the user's limit was last written.

**AccountCare** - `Tick` of a worker reads what is due and `Step` works through
it: quota refreshes, due wake-up jobs (only where `wakeups`, the setting
account_pool.wakeup_enabled, is on: the migration seeds it off), the score (`Quality`, in the code's whole
numbers) and its isolation, scheduled health checks.  Administrators do the same
by hand and disable accounts meanwhile.  `wakeups` and `several` are drawn at the start;
`several` is whether a statement of
several commands with arguments is accepted; see section 5.

**Notifications** - events, channels, and dispatchers that claim an event for a
minute (`Claim`), send it to each channel (`Send`) and write the outcome by the
event's id (`Finish`).  `slow` allows a dispatch to outlive its claim.

**Members** - a handler is one HTTP request; between its statements others come.
Setup of the owner, registration with a mailed code, login, password reset,
verification, an owner's changes to users, keys, and redeem codes.

**Catalogue** - patches of a model (`LockModel`, `ReadPrice`, `CommitModel`) under
the row lock, batches, channels, and synchronisation jobs (`CreateJob`,
`StartJob`, `Discover`, `ApplySync`) with the report they leave.

### Put together

**Relay** - StreamRelay, WebSockets, Transformers, Conversations, Overrides and
ProxySettings side by side; **Console** - AccountCare, Admission, Notifications,
Members and Catalogue.  The parts of each share no state in the code either, so a
behaviour belongs to one *part*, drawn in its first state; the variables of the
others stand still.  A part's properties are guarded by `part = ...`, its actions are
its module's `Next`, and its fairness is conjoined with it.

Each `MC` module gives the constants their values for TLC; each `Proofs` module
extends a model.  NorthboundProofs also instantiates WalletProofs and
AccountPoolProofs, whose theorems it applies to the wallet and the pool of its
calls; RelayProofs extends TranslationProofs, which has the translations and what is
proved of folds.

## 3. The runs

One run checks all parts of Relay and one all parts of Console, and **MCLive** does the
same for what must eventually happen to the calls, the pool and the orders.  Such a
union checks exactly what its parts would check one by one.  Where parts do share
state in the code, they are composed in earnest: Northbound moves the wallet and the
pool of its INSTANCEs.

| Run | States | What it shows |
| --- | --- | --- |
| wallet | 708 (symmetry) | `EscrowExact`, `HoldGuaranteed`, `ClosedOnce`, and that Wallet implements Escrow, with faults and crashes |
| pool | 12,816 | `SlotsExact`, `WithinLimit`, `SingleProbe`, `RetriesMoveOn`, `ProbesOnly` with lost slots, crashes and administrators |
| pool_leak | violation | `ActiveIsCurrent` fails: a client that leaves during the sleep before a retry strands a slot |
| northbound | 1,196,710 | `OutcomesAreTrue` (failures are free, recorded usage is paid, routes are closed), `ServedOnce`, `FinalStatusStands` with all faults, crash and expiry |
| northbound_stuck | violation | `ProcessingMeansRunning` fails: a handler that returns on an error leaves its claim |
| live | 132,172 | without faults: `BooksAgree` (debits are recorded, reservations returned); `NobodyIsLeft` (accounts come back, a retry goes to the other one, handlers end); `OrdersEnd` (an order whose webhook never comes is resolved by the reconciler, for good, and agrees with the ledger) |
| payments | 571,204 (symmetry) | `StatusMatchesLedger`, `ProcessedIsSettled`, `MembersAreSubscribed`, `ClosedOrdersStay`, and that Payments implements OrderLedger |
| oauth | 102,670 | `StaleWorkersChangeNothing`, `WaitingIsTaken` |
| oauth_exhausted | violation | `QueuedIsTaken` fails: a job without attempts is queued again |
| relay | 314,106 | six parts: `StreamIsOneAnswer`, `SilentAfterClose` (StreamRelay); `SessionsSettle`, `SessionsEnd` (WebSockets); `TranslationIsFaithful` (Transformers, Conversations); `AttemptsStartAfresh` (Overrides); `SettingsAreFresh` (ProxySettings) |
| relay_guard | violation | `TrimmingKeepsToolBoundaries` fails: the replay guard cuts between parallel calls and keeps answers without their calls |
| console | 281,792 | five parts: `CareIsSafe`, `DisabledStays` (AccountCare); `LimitsHold` (Admission); `OnceOnly` (Notifications, Members); `CatalogueIsUsable` (Catalogue); `WorkSettles` (due jobs run where wake-ups are on, requests are answered, events settle) |

Deadlock checking is off in every run: a finite number of requests, calls,
sessions or attempts comes to its end, and the program then really has nothing to do.

### The bounds, and why they are enough

- *wallet*: three requests, amounts up to 2, balance up to 4 (`MaxAmount`,
  `MaxBalance`): two unequal holds beside a refused third, a cost above its hold,
  a debit between.  The theorems hold for every number of requests and amount.
- *pool*: one account with two slots, three requests, `Threshold` 1: the first
  failure opens the circuit, and two requests meet its probe.  Failures are cut
  off at `Threshold` (only "at least" matters) and quota at `MaxQuota`.
- *northbound*: two calls, one of them a stream, with one id, on one account, so
  that they compete for the claim, the wallet (`MaxBalance` 2) and the slots; one
  attempt and `Threshold` 1, since retries are the business of *live*.  A
  claim expires at most once for each id.
- *live*: two accounts (one with two slots, one with one) and `Threshold` 2, so that
  a success falls between two failures and a retry has somewhere to go; two calls with ids
  of their own and two attempts; one order at a provider that is asked.
- *payments*: a top-up and two subscriptions (two are needed to share a
  membership), two sessions for each order, two refund events for each, two handlers (two for one event is what
  an unguarded `StartProcessing` would need), one administrator, free funds of 0 or 1
  against a worth of 0 or 1 (covered or not).  Counts of credits and reversals are
  cut off at 2, one more than is right.  All orders at once have too many states, so
  the constraint `InScenario` of MCPayments keeps the run to the union of four
  scenarios: a top-up with two handlers and refunds; a top-up with two sessions and no
  refund; two subscriptions that share a group; one subscription that renews.
  Orders interact only through the funds, which `OtherWriters` changes at any
  time, and through the membership, which the third scenario is about.
- *oauth*: two workers, two jobs, two attempts: a lease taken over, a last
  attempt, and two jobs of one account side by side.  Administrators set two of
  the seven auth states (`AdminStatuses`); the others behave as one of these.
- *relay*, stream: two events, so that a break can fall inside the first, between
  the two and inside the second; `MaxAttempts` 2, counted from 0: three upstream
  calls; two ticks of the keep-alive timer, one before and one after the handler's
  first byte.
- *relay*, session: two sessions over two accounts with one slot each.  Three
  `Meetings` put a kind that keeps its slot to the end beside one that does not.
- *relay*, answer: two Gemini events of up to two candidates with up to two parts,
  so that each pair (text, reasoning, call, empty) meets across events and
  candidates; three Kiro frames of nine kinds, so that a tool call is begun,
  continued and cut off by another.
- *relay*, request: four messages of seven kinds, enough for two parallel calls, an
  answer, and a turn of the same role next to another; five ways to ask for thoughts.
- *relay*, override: histories of up to four items with `MaxItems` 2, their two calls in
  one item or in two, so that a cut falls between a call in two parts and its answers, and
  between two calls; five routes whose operations
  read and write one another's places (a list, its element, the model, a header), one of which
  cannot be prepared; two attempts; `MaxLines` 5 stands for the code's cap of
  50 audit lines, beyond which `AuditTellsWhatWasDone` asks for nothing.  *relay_guard* has
  three calls and their answers in any order, and `MaxItems` 4, the least that the settings allow.
- *relay*, setting: one instance, one request at a time and two administrators who save
  at once; a copy lives for one unit (`Lifetime`), the clock goes to two.  A copy is an instance's
  own, so a second instance behaves like the first; the other instance's save is
  the second administrator's.
- *console*, care: one account whose channel fails, or that has none, one job, one
  worker and one administrator, wake-ups on or off.  The score is of one account, and lists matter only in that they were
  read before.
- *console*, limit: two requests in flight, three in all, that cost 2 (`MaxCost`) or
  nothing against an estimate of 1; three starts: a user with a limit of money, and a
  group with a rate and permissions, with and without a denial; one write of an administrator or
  one midnight (`MaxChanges`).  The months do not pass: the month's usage only
  grows.  `Conns` 3: one connection more than requests, since with as many requests as
  connections they wait for each other until their clients leave, as in the code with 25
  (section 5).
- *console*, notice: one event, two channels (one of two fails), two dispatchers,
  two attempts, one death or order.
- *console*, member: two addresses, one redeem code with up to two claims, two handlers that
  meet between their statements, three requests, three worlds to begin in.
- *console*, model: two models, one endpoint, one channel, two administrators,
  three requests, an empty catalogue or one with a model mapped by hand.

### Fairness

*live*: an upstream call ends, since channels have a timeout, and Go's scheduler runs
its handler on; clocks advance.  Weak fairness on each request's routing step and each
clock (`LeakFreeSpec`), and on each handler (`CalmSpec`).  No slot is lost and nothing fails there:
*pool_leak* shows that one lost slot is lost for good, and a fault may end a
handler anywhere, so without this the properties are false.
`ReconcilerSpec`: the ticker fires and the clock advances (weak
fairness); an order's provider that is asked again and again answers (strong
fairness, since other orders and a failing provider come between).  It assumes
that the order is among the 100 oldest the reconciler reads; see below.
*oauth* (`ServedSpec`): while there is work for some worker, *some* worker does
some of it.  `runLoop` polls, and the strategies' waits have timeouts.  A worker
exits when a report is refused, and the repository's compose file does not
restart it: the assumption is that its operator does.
*relay*: only the sessions need fairness: Go runs a goroutine that can proceed, and a
read from a closed connection returns.  Clients and upstreams need never send or end.
*console*: the tickers of the account worker and of the dispatchers fire and their
goroutines are run; that due jobs run is claimed only where account_pool.wakeup_enabled is
on, since the worker passes over them otherwise; next_attempt_at passes; a request's handler is run.  What administrators
do is never assumed.

## 4. The proofs

TLAPS checks these for every set of requests, accounts, workers, jobs, sessions,
users or models and every value of the bounds, from the assumptions named in the
modules: `WalletAssumption`, `PoolAssumption`, `OAuthAssumption`,
`NorthboundAssumption`, `PaymentsAssumption`; `LimitAssumption`, `NoticeAssumption`,
`CareAssumption`, `MemberAssumption`, `CatalogueAssumption` of Console; `StreamAssumption`,
`SessionAssumption`, `SettingAssumption`, `OverrideAssumption`, `TranslationAssumption` of
Relay.  They say what kind of
value each constant is, that a placeholder such as `NoJob`, `NoAccount` or `NoUsage` is none of the things
it stands beside, that what is counted is finite, and what is true of the tables a
behaviour begins with: an administrator's catalogue has usable prices, no code has
been claimed yet, a group has one row for a model and an endpoint, a body is a map and a rule writes below it.
Of a client's history they ask nothing about the order of calls and answers.  TLC
evaluates each of them.

**WalletProofs.**  `EscrowExact` alone is nearly inductive, but its step for a
release needs that the cut at zero cuts nothing, and `ClosedOnce` needs that an
entry in the ledger agrees with the stage and the hold of its request.  The
invariant `WalletInv` has these parts; sums are cardinalities of sets of units
(`HeldUnits`), because a sum over a set would need recursion, and the lemmas
`UnitsRaised` and `UnitsCleared` say how an update of one hold changes them.
From it follow `WalletTypes`, `ReservedIsTheSumOfHolds`,
`ReservationsAreCovered`, `LedgerClosesOnce`, `HoldsAreGuaranteed`, and
`WalletImplementsEscrow`: every step maps to a step of Escrow or to a stutter.

**AccountPoolProofs.**  `PoolInv` adds to the types: who is in a call has a
route (`RoutesHeld`), slots are holders plus lost slots, a half-open circuit has
at most one holder and no other slot, and `excluded` grows with each attempt.
From it follow `PoolTypes`, `SlotsAreExact`, `LimitsAreKept`,
`OneProbeAtATime`, `RetriesAreBounded` and the action property
`OpenCircuitsAreProbed`.

**OAuthJobsProofs.**  `LatestAttempt`: a worker whose own name is on the lease
of its job was given the job's latest attempt.  Only a claim writes a name, and
every other change of a row clears it.  From it follow `OAuthTypes` (no job is claimed
more often than `max_attempts`) and `StaleWorkersAreHarmless`, for workers with a name of
their own.

**NorthboundProofs.**  The composition, so the proof is one too.  `ConstantsFit` shows
that the constants of Northbound satisfy what the wallet's and the pool's proofs
assume; `CallsMoveTheWallet` and `CallsMoveThePool` that every step of a call is a
step or a stutter of each (a crash of the gateway is one of both), so every theorem
above holds of relay calls, for instance that reserved_balance is the sum of the
holds of the calls.  For the rest `CallInv` adds what ties the handler to its claim
and its money: a call past its claim owns its id's row (`ClaimsHeld`), a
debit belongs to a success or to a stream that was relayed (`DebitsExplained`), a
success cost what its wallet was debited for (`SuccessPaid`), and a record says what its handler had
settled on (`RowsTrue`).  None of `ServedOnce` and `OutcomesAreTrue` is inductive
without them: that two calls are not both served rests on a row that the second call
finds, and that recorded usage is paid on a debit some steps earlier.  From it follow
`CallTypes`, `IdsAreServedOnce`, `RecordsAreTrue` and the action property
`FinalStatusesStand`.
`CalmCallsAgree` is about `CalmSpec`, where nothing fails, as the run *live* is: `CalmInv`
adds that what is put aside is in a handler's hand or waits for a route that will be
answered (`HoldAccounted`), and that a debit is on record once its handler has passed
its record (`DebitOnRecord`).  The second needs `ServedOnce`, since the upsert of a
record does nothing when it finds a row of another call.

**PaymentsProofs.**  Every step, whoever takes it, is one of the few transitions of an order
(`OrderStep`) as far as orders, wallet and membership are concerned;
what concerns only these is proved once for each of them.
`PaymentInv` adds to the properties that an event's row exists while it is handled (`HandledRows`)
and that a handler that succeeded closed the order of its
event (`SucceededIsSettled`), without which `ProcessedIsSettled` breaks in the step
between `Handle` and `Finish`.  From it follow `PaymentsAreTyped`,
`TopUpsMatchTheLedger`, `ProcessedEventsSettle`, `MembershipsEnd`, `ClosedOrdersStand`, and
`HandlersImplementTheLedger`: Payments implements OrderLedger.  They hold for all orders at
once, without the scenarios to which the run *payments* is kept.

**ConsoleProofs.**  One invariant for each part.
`MemberInv` ties what a handler has read to what it may rely on
when it writes (`HandlersKnow`), and accounts for each thing that may happen once by
what it leaves behind: a code's count is the number of its claims and within its
limit (`CodesExact`); a wallet was credited as often as its user claimed a code
(`CreditsExact`), which needs that who does not exist has no wallet (`UsersOnly`); of the
tokens of a kind no more were spent, or can still be, than were made
(`SecretsExact`); and at most one user was made by the setup of the owner (`OneSetup`).
`NoticeInv`: as long as no dispatch has been slow, no dispatcher has stopped and nothing
was retried by hand (`Calm`), whoever works on an event is alone with it (`Alone`).
`CareInv`: a job that is being run is in one task (`OneRuns`); and a verdict to isolate
on somebody's list is about an account that was broken when it was measured (`FairLists`),
since an active one with a closed circuit and a channel scores 41 at least
(`HealthyScore`, the arithmetic of the score for every measurement).
`CatalogueInv`: from the check of a price to its write the row lock is held, so that what
was checked is what is left (`PricesHeld`); and the report of a job and the abilities
agree before and after its transaction unless somebody wrote between (`JobIsTrue`).
`LimitInv`: a connection is free or held by a reader of the limits (`Connected`).  The
bound on the limits has two halves.  What left the balance is in the month's rows, or was lost
with a row, or is owed to a row by a request that has settled (`Booked`; each of `Settle`,
`EndUnrecorded` and `Record` moves it from one to the next).  And as long as the user's
limit is in force, the month's rows and one highest cost for each request that the limit
will not hold any more (`Cleared`: it let the request through, or the request reads
an older one) stay below the limit - or what had been used when it was set - and one highest
cost for each slot (`Admitted`): a request is let through only while the rows are within
the limit, and then there are at most as many cleared as slots.  What requests owe is at
most that for each cleared one (`OwedBounded`), and the two together are
`OvershootIsConcurrency`; nowhere does a cost depend on its estimate.
While no administrator writes, a
request on its way follows the policy in force and no minute passes more than its rate
(`RateKept`); and the notices with the settlements that found none yet are no more than
the slots (`Noticed`).  The usage is a sum over the keys.  How `MapThenSumSet` changes
with one element is proved by well-founded induction on finite sets: a set that is
minimal among the counterexamples exists (`WFMin` of the library, which takes no
operator), and has none.
For the columns and counters that these invariants leave alone there are `CareBounds`,
`AliasBounds` and `MemberBounds`; the last says that sessions and busy handlers together
are at most the requests asked plus one, which bounds the sessions.
From them follow `HappensOnce`, `CareStaysSafe`, `CatalogueStaysUsable`, `LimitsAreHeld`,
`ConsoleTypes` and the action property `NothingRevives`; `PartsInvNext` carries them over
to Console.

**RelayProofs.**  `StreamInv` relates the pieces the client has to the pieces
the copier has read: what waits to be written follows what is written (`Copying`), the
client has the first pieces of *this* attempt in order (`InOrder`), an odd piece
is followed by its even one wherever events are written whole and even pieces are
metered (`Whole`), and before the first write of the commit writer there is nothing to retract
(`Unsent`), which is why a retry cannot append a second answer.
`SessionInv` says of each session what its program counter implies about its slot,
its goroutines, its claim, record, reservation and cost (`RowOK`), and that an account's
`active` is the number of its sessions with a slot; the cut at zero in
`releaseRouteCheckout` then cuts nothing.
`SettingInv`: a copy expires at most a lifetime after what replaced it was saved
(`CopiesExpire`).  That is inductive only with `RequestsKnow` - a request that has read
the row but not yet stored it knows everything saved before it took the time - and with
`SavesOverlap`, since a slow save is the one that may store what was replaced long ago.
`KeysFollow` keeps every key given next to the settings it was given by;
`TogetherIsOneKey` computes that turns of one conversation have the same.
`OverrideInv`: while a body is rewritten, it is the fold of the operations before the
one that is next, begun from the client's body and this route's prompt (`Rewriting`), so that
what is sent is the whole fold (`Sent`); no operation, prompt or rule that is not allowed to
takes away the document or its model (`Keeps`, with a lemma for each way to write into a
document: `PutKeepsModel`, `DeleteKeepsModel`, `InsertFirstKeepsModel`); and the audit
tells what was done or is full (`Tells`).  `TrimmedIs` is
the argument for the replay guard: it stops at no answer but the first item, so no answer
that follows its call directly is left behind it.  That *every* kept answer has its call is
false (*relay_guard*).
With TranslationProofs' `AnswerInv` and `RequestInv` they make `RelayInv`, from which
follow `StreamStaysOneAnswer`, `SessionsStaySettled`, `SettingsStayFresh`,
`AttemptsStayFresh`, `TranslationStaysFaithful` and the action property
`ClosedStaysSilent`.

**TranslationProofs.**  Transformers, Conversations and Overrides fold over events, frames,
messages and operations, so what they compute for every input needs an induction, which
the library offers only for operators.  `Counting` says it of sets instead and is drawn
from `WFMin`; from it follow that a fold's function exists (`FoldingExists`), that two of them
agree (`FoldingsAgree`), that a fold takes one element after the other
(`FoldGoesOn`), and that what every step keeps holds of the result (`FoldKeeps`).
A translation is proved by what is true after each input, never by its last state:

- `GeminiTold`: after any candidates, the chunks of each index are what its parts
  so far say, the role is out if anything is, `finish` is the last reason that they
  gave, and no chunk carries one yet.  `Finish` adds the one chunk
  that does.  Nothing is assumed of where an event ends: the fold over candidates is one
  for all events (`T!Flat`).
- `KiroTold`: the frames whose last half has come have been processed whenever they
  were last looked for, so a cut within a frame changes nothing.  For those: the texts
  told are the texts without repetition (`KiroTexts`); calls that wait for their inputs
  have the arguments of the inputs so far (`Waits`, `Awaiting`).  The answer as a whole
  takes its calls in the order of the frames that start them, and `OrderGrows` says how that
  order grows with a frame, by the number of starts before it (`Ranked`).
- `RequestInv`: the name of every call's id is that of the last named call with it
  (`NamesOf`, `CallsIn`); an answer in a content has the name its id had then (`SoundAnswers`); Kiro's entries are
  the turns told so far, once and in order, and its prompts the system's messages (`KiroHeard`).  That a
  request alternates is a property of the weaving, not of what was told:
  `NormalizedIsWoven` shows it for the normalised history, whatever the entries are, and
  `PromptIsTold` that no turn is lost when the prompts are put in front of it.

`AnswerInvIsFaithful` and `RequestInvIsFaithful` conclude `TranslationIsFaithful` for any
number of events, frames and messages; the run has at most two, three and four.

Only model-checked, and why:

- `LiveTypeOK` of *live*, whose module only TLC uses; what it says of each part is
  `PoolTypes`, `CallTypes` and `PaymentsAreTyped`.
- `TypeOK` of *relay* as a whole: that a document of Overrides stays a tree is true as long
  as its arrays have no more elements than Overrides has indexes for (`Index`, a bound of the model).
  The parts have their types within their invariants.
- All liveness (`NobodyIsLeft`, `OrdersEnd`, `WaitingIsTaken`, `SessionsEnd`,
  `WorkSettles`): fairness is out of the prover's reach here.

## 5. What the models say of the code

Disagreements between the code and what the repository says of it, each with a
run (`PROJECT.json`, "findings"):

- A slot is stranded when the client leaves while the handler sleeps before a
  retry on the same account; the console calls the counter "current requests".
- A claim stays "processing" when a handler returns on an error; a duplicate is told that
  its request is being processed.
- A re-authorization is "queued" again without attempts, and is never run.
- The replay guard is tested to preserve the tool boundary, and where calls are items of
  their own (parallel calls of the Responses API) cuts between them: the loop that should see it
  (replay_guard.go 81-83) never runs.

Behaviour met while modelling that no run accuses, because no text of the repository
says otherwise or because a model leaves the detail open.  Whoever maintains the code
may still want to know:

*Money and calls.*
- A settlement that is refused (the cost is above the hold and the funds are
  gone) leaves its reservation in place for good; in a stream and a WebSocket it is only
  logged, and the usage record says "success".
- An estimate of 0 reserves nothing, and the actual cost is then never debited
  (northbound.go:2231); a usage of price 0 is charged like no usage at all.
- A success that began before a circuit opened closes it before its window
  (northbound.go:3353).
- The Responses WebSocket completes its route twice: where another session took the
  slot in between, `max_concurrency` may be exceeded.
- A stream whose body cannot be decoded leaves no usage record; frames above 65536
  bytes are cut; one more error event may follow a cut event of a raw stream.

*Payments and OAuth.*
- A completed checkout session is taken for a paid one whatever its
  `payment_status`.
- A payment may come after its order was closed: a delayed session fails and completes
  late, or an earlier session's expiry cancels the order while a later one is paid; the
  event is then processed, nothing is credited, and it cannot be replayed.
- A top-up is booked as refunded with nothing sent when no secret is configured
  (billing.go:1048), and refund events that are partial, pending or failed count as whole
  refunds (billing.go 732-736): "refunded" does not say that the money is back.
- A refund is sent to Stripe before it is booked: if the wallet is debited in between, the
  order is `refund_blocked` although its money was returned; orders of other
  providers and of subscriptions are booked as refunded with nothing sent.
- A renewal after a cancellation or a refund makes the subscription row active again without
  its membership; a renewal that committed unacknowledged is credited again
  when replayed.
- An event whose handler died stays "processing" and is replayed only by hand.
- The reconciler reads the 100 oldest pending orders; if their providers keep
  failing it never comes to the others.
- Creating an OAuth job whose row is leased clears the lease and not the status:
  the row then waits for a lease that never expires; so does a last attempt whose worker died.
- Two jobs of one account run side by side and the older tokens may be stored
  last; a refresh that ends after a revocation makes the auth state active (the account stays
  disabled); two workers with one `lease_owner` (docker-compose.yml fixes it)
  may end each other's jobs.

*Translation and rewriting.*
- A streamed Gemini answer whose last event says STOP after an event with a tool call
  ends with "stop", the whole answer with "tool_calls" (gemini_cli_transform.go
  1010-1022); `StreamTellsTheAnswer` compares texts, thoughts and calls, not finish reasons.
- Identical parallel Gemini tool calls share an id; Gemini drops tool arguments that cannot be
  decoded; Kiro drops text equal to the text before it, and the results of
  parallel Kiro tool calls are separated by made-up assistant turns.
- `set model.x` is not taken for a change of the model (reverse_proxy_overrides.go
  696-702), but the route's model is written afterwards anyway; `allow_model_override`
  has no effect where the route names a model; `move` into its own child loses the value;
  the `from` of a move is not audited; audit lines accumulate over attempts and may
  crowd out those of the route that served; "prepend" drops a structured system
  prompt; a bad override ends the request although other routes would serve.
- Response rules and the keys of a rule's override are applied in the order of a Go map; an
  affinity rule's override shares its value object with the cached settings
  (affinity_rules.go 203-272).
- Two saves that race may leave an instance with the loser's settings, and a slow
  reader with replaced ones, for more than 15 seconds; a row that cannot be read means the defaults.
  Several session fields in one request are chosen among at random, and the digest's key changes
  with every turn.

*Accounts, limits, notices.*
- pgx refuses a statement of several commands with arguments unless the simple
  protocol is asked for, which the repository's connection strings do not: after a
  wake-up `markAccountWakeupSuccess` then changes nothing and drops its error (the job
  reports success, the account stays in cooldown), and a scheduled health check
  stops at its first account.  `several` has both.
- A job whose context ends stays "running"; isolation goes by the status read before;
  with the simple protocol a wake-up success brings back an account that was disabled
  meanwhile.
- `enforceSpendLimits` keeps its cursor's connection while each limit asks for a
  second one; the pool has 25 (db.go:18): 25 requests at that point wait for each
  other until their clients leave.
- Spend limits look at estimates and recorded usage: one request alone may overdraw a limit
  by what it costs above its estimate (an answer without a limit of its own is estimated at 1024
  tokens, northbound.go 2186), and each request in flight by all of its cost.  Debit and usage
  row are two transactions and the row's error is dropped (northbound.go:617): lost rows
  are spent money that no limit counts.  A call that is not streamed and whose settlement is
  refused has no row at all, and a request whose estimate was 0 has a row with its cost
  but no debit.
- Two settlements may both notify; requests that are refused count for the rate.
- The worker runs due wake-up jobs only where account_pool.wakeup_enabled is set
  (account_pool_ops.go:641); the migration seeds it as false: by default a job runs
  when an administrator runs it.
- A dispatch that takes more than a minute runs beside its successor and may
  overwrite "sent"; a channel that failed is not tried again once another heard; a channel
  patch writes back what it read.

*Users and models.*
- A rename of a key or a user that began before a revocation writes back the old
  status (portalPatchAPIKey, adminPatchUser).
- One registration code may be consumed by two registrations (the unique address stops
  the second), and is used up when the registration then fails; an e-mail token is consumed
  but the address not marked when the handler dies between; demoting the only owner opens the
  setup again.
- An alias is resolved with UNION and LIMIT 1 without an order (northbound.go ~2050): a
  discovered model with the name of an alias may shadow it, at price 0.
- A synchronisation overwrites mappings made by hand, removes nothing that is
  missing, and computes its report before its transaction; one that dies leaves its job
  "running".

## 6. Not modelled, and why

- The Anthropic, Responses and Bedrock adapters (provider_adapters.go, the rest of
  agent_provider_adapters.go): rewriting of fields, one provider at a time, without
  state between pieces beyond what Transformers shows for Gemini and Kiro.
- Pricing expressions and token estimates: arithmetic on floats.  A cost is any
  amount; amounts are natural numbers and not `numeric(20,8)`.
- Account import, providers, proxies, announcements: one transaction on single rows.
  Affiliate rebates: created with a payment and settled by hand; never taken back.
- Transport, TLS, email, routes, reports: network and queries.  The in-memory rate
  limiter: no state that another part reads.
- Migrations run before an instance serves.  The portal, contracts and scripts are
  not part of the server; they are quoted for what they say of it.
- In the modelled parts: which routable account is chosen (left open); lowering
  `max_concurrency` under the slots in use (the slots in use then exceed the new limit
  until they are returned); the order in which transactions lock several rows
  (PostgreSQL ends one of two that wait for each other, which is a failing
  transaction); the strategies' protocols of the OAuth worker; the shared value
  object of affinity rules (a data race inside one process).

## 7. The plan

Done: Wallet with Escrow, AccountPool, OAuthJobs, Northbound, Payments with
OrderLedger, StreamRelay, WebSockets, Transformers, Conversations, ProxySettings,
Overrides, Admission, AccountCare, Notifications, Members and Catalogue, checked and proved.

Next, in the order of importance:

1. An abstract specification of the delivery of notifications (each event is sent
   at least once or declared dead) and Notifications as its implementation.
2. Migrations under two starting instances, affiliate rebates.
