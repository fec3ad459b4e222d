------------------------------- MODULE Console -------------------------------
(* What runs beside the calls and what lets them in: the upkeep of accounts,  *)
(* the limits and rules of a user, the notices, the users themselves and the  *)
(* catalogue of models.  A behaviour belongs to the part that is drawn when   *)
(* it begins; the other parts stand still.                                    *)
EXTENDS Integers, Sequences, FiniteSets

CONSTANTS Accounts, Jobs, NoJob, CareWorkers, CareAdmins, Samples, Levels, MaxEnds, CareOrders
CONSTANTS Slots, Keys, Groups, Conns, Asks, Rules, Rows, Limits, GroupOrders, Starts, Funds,
          Costs, MaxCost, LimitRequests, MaxChanges
CONSTANTS Events, Webhooks, Dispatchers, EventKinds, Edits, NoEvent, MaxAttempts, MaxTroubles
CONSTANTS Emails, Codes, Handlers, Passwords, Worlds, NoEmail, NoCode, MaxClaims, MemberRequests
CONSTANTS Names, Surfaces, Upstreams, Writers, Bodies, Listings, Defaults, Stocks,
          NoName, Nobody, ModelRequests

VARIABLE part

(* Of AccountCare, Admission, Notifications, Members and Catalogue.           *)
VARIABLES account, quota, job, task, allowed, several, wakeups, ends, orders
VARIABLES limit, group, joined, rows, rules, used, spent, rate, passed, balance,
          notices, req, free, lost, since, requests, writes, days
VARIABLES event, channel, dispatch, heard, slow, crashes, edits
VARIABLES user, wallet, session, secret, key, code, verify, handler, asked
VARIABLES model, price, alias, offer, ability, lock, sync, writer, bodies

careVars   == <<account, quota, job, task, allowed, several, wakeups, ends, orders>>
limitVars  == <<limit, group, joined, rows, rules, used, spent, rate, passed, balance,
                notices, req, free, lost, since, requests, writes, days>>
noticeVars == <<event, channel, dispatch, heard, slow, crashes, edits>>
memberVars == <<user, wallet, session, secret, key, code, verify, handler, asked>>
modelVars  == <<model, price, alias, offer, ability, lock, sync, writer, bodies>>
vars == <<part, careVars, limitVars, noticeVars, memberVars, modelVars>>

-----------------------------------------------------------------------------
A == INSTANCE AccountCare WITH
       Workers <- CareWorkers, Admins <- CareAdmins, MaxOrders <- CareOrders

L == INSTANCE Admission WITH
       Orders <- Limits, Settings <- Starts, MaxRequests <- LimitRequests

N == INSTANCE Notifications WITH
       task <- dispatch, orders <- edits, Channels <- Webhooks, Kinds <- EventKinds

M == INSTANCE Members WITH
       task <- handler, requests <- asked, Settings <- Worlds, MaxRequests <- MemberRequests

C == INSTANCE Catalogue WITH
       channel <- offer, job <- sync, task <- writer, requests <- bodies,
       Endpoints <- Surfaces, Answers <- Listings,
       Channels <- Upstreams, Orders <- Bodies, Settings <- Stocks, MaxRequests <- ModelRequests

-----------------------------------------------------------------------------
(* The names that stand for no row are none of the rows', the answers of the  *)
(* upstreams and what is measured of an account have their types, and what a  *)
(* behaviour begins in are states of the tables: rows of their types, no code *)
(* claimed, at most one owner whom the setup made, prices that evaluate.      *)
ASSUME LimitAssumption ==
  /\ IsFiniteSet(Slots) /\ Slots # {} /\ IsFiniteSet(Keys)
  /\ Conns \in Nat /\ Funds \in Nat
  /\ MaxCost \in Nat /\ Costs \subseteq 0 .. MaxCost
  /\ "none" \notin Groups
  /\ IsFiniteSet(Rows) /\ IsFiniteSet(GroupOrders)
  /\ \A a \in Asks : /\ a.endpoint \in L!Endpoints /\ a.byo \in BOOLEAN /\ a.estimate \in Nat
                     /\ a.matched \subseteq Rules
  /\ \A w \in Rows : /\ w.group \in Groups /\ w.endpoint \in L!Endpoints \cup {""}
                     /\ w.permission \in {"allow", "deny"}
                     /\ w.rate \in Int /\ w.times \in Nat \ {0}
  /\ \A o \in GroupOrders : /\ o.status \in {"active", "disabled"}
                            /\ {o.priority, o.month, o.rate} \subseteq Int /\ o.times \in Nat \ {0}
  /\ \A o \in Limits : {o.day, o.month, o.dayN, o.monthN, o.low} \subseteq Int
  /\ \A s \in Starts :
       /\ s.limit \in [L!Targets -> Limits \cup {L!Unlimited}] /\ s.group \in [Groups -> GroupOrders]
       /\ s.joined \in Seq(Groups)
       /\ s.rows \subseteq Rows /\ L!OneRowEach(s.rows)
       /\ s.rules \in [Rules -> {"none", "active", "disabled"}]

ASSUME NoticeAssumption ==
  NoEvent \notin Events /\ MaxAttempts \in Nat /\ MaxTroubles \in Nat

ASSUME CareAssumption ==
  /\ NoJob \notin Jobs /\ Accounts \cap A!Verdicts = {} /\ MaxEnds \in Nat /\ CareOrders \in Nat
  /\ Levels \subseteq {"empty", "critical", "low", "ample"}
  /\ \A m \in Samples :
       /\ m.channel \in BOOLEAN /\ m.ms \in Nat
       /\ m.tests \in Nat /\ m.badTests \in 0 .. m.tests
       /\ m.successes \in Nat /\ m.failures \in Nat /\ m.circuitFailures \in Nat

ASSUME MemberAssumption ==
  /\ MaxClaims \in Nat /\ MemberRequests \in Nat /\ 1 \in Passwords
  /\ IsFiniteSet(Emails) /\ IsFiniteSet(Codes) /\ IsFiniteSet(Handlers)
  /\ \A w \in Worlds :
       /\ w.user \in [Emails -> M!UserRows]
       /\ w.code \in [Codes -> M!CodeRows]
       /\ \A c \in Codes : w.code[c].claims = {} /\ w.code[c].count = 0
       /\ \A e, f \in Emails :
            /\ w.user[e].type = "platform_owner" /\ w.user[e].by = "setup"
            /\ w.user[f].type = "platform_owner" /\ w.user[f].by = "setup"
            => e = f

ASSUME CatalogueAssumption ==
  /\ Nobody \notin Writers /\ NoName \notin Names /\ Defaults \subseteq Surfaces
  /\ ModelRequests \in Nat
  /\ \A o \in Bodies : /\ o.mode \in C!Modes \cup {C!Keep} /\ o.expr \in C!Exprs \cup {C!Keep}
                       /\ o.status \in {"active", "disabled", C!Keep}
                       /\ o.visible \in {"public", "hidden", C!Keep}
                       /\ UNION o.caps \subseteq Surfaces
  /\ \A items \in Listings : \A i \in items : i.name \in Names \cup {NoName} /\ i.endpoints \subseteq Surfaces
  /\ \A s \in Stocks : /\ s.model \in [Names -> C!ModelRows] /\ s.price \in [Names -> C!PriceRows]
                       /\ s.channel \in [Upstreams -> C!Offers]
                       /\ s.ability \in [C!Abilities -> Names \cup {NoName}]
                       /\ \A n \in Names : C!Usable(s.price[n])

-----------------------------------------------------------------------------
Off == "off"

(* The variables that the action and liveness properties look at keep values  *)
(* which these can be evaluated on.                                           *)
CareOff == /\ account = [a \in Accounts |-> [status |-> Off]]
           /\ job = [j \in Jobs |-> [status |-> Off, due |-> FALSE]]
           /\ quota = Off /\ task = Off /\ allowed = Off /\ several = Off
           /\ wakeups = FALSE /\ ends = Off /\ orders = Off

LimitOff == /\ req = [s \in Slots |-> [stage |-> "idle"]]
            /\ limit = Off /\ group = Off /\ joined = Off /\ rows = Off /\ rules = Off
            /\ used = Off /\ spent = Off /\ rate = Off /\ passed = Off /\ balance = Off
            /\ notices = Off /\ free = Off /\ lost = Off /\ since = Off
            /\ requests = Off /\ writes = Off /\ days = Off

NoticeOff == /\ event = [e \in Events |-> [status |-> Off]]
             /\ channel = Off /\ dispatch = Off /\ heard = Off /\ slow = Off
             /\ crashes = Off /\ edits = Off

MemberOff == /\ user = Off /\ wallet = Off /\ session = Off /\ secret = Off /\ key = Off
             /\ code = Off /\ verify = Off /\ handler = Off /\ asked = Off

ModelOff == /\ model = Off /\ price = Off /\ alias = Off /\ offer = Off /\ ability = Off
            /\ lock = Off /\ sync = Off /\ writer = Off /\ bodies = Off

Init == /\ part \in {"care", "limit", "notice", "member", "model"}
        /\ IF part = "care" THEN A!Init ELSE CareOff
        /\ IF part = "limit" THEN L!Init ELSE LimitOff
        /\ IF part = "notice" THEN N!Init ELSE NoticeOff
        /\ IF part = "member" THEN M!Init ELSE MemberOff
        /\ IF part = "model" THEN C!Init ELSE ModelOff

Care(Step)   == /\ part = "care" /\ Step
                /\ UNCHANGED <<part, limitVars, noticeVars, memberVars, modelVars>>
Limit(Step)  == /\ part = "limit" /\ Step
                /\ UNCHANGED <<part, careVars, noticeVars, memberVars, modelVars>>
Notice(Step) == /\ part = "notice" /\ Step
                /\ UNCHANGED <<part, careVars, limitVars, memberVars, modelVars>>
Member(Step) == /\ part = "member" /\ Step
                /\ UNCHANGED <<part, careVars, limitVars, noticeVars, modelVars>>
Model(Step)  == /\ part = "model" /\ Step
                /\ UNCHANGED <<part, careVars, limitVars, noticeVars, memberVars>>

Next == Care(A!Next) \/ Limit(L!Next) \/ Notice(N!Next) \/ Member(M!Next) \/ Model(C!Next)

(* The fairness of each module's Spec.                                        *)
Spec ==
  /\ Init /\ [][Next]_vars
  /\ \A p \in CareWorkers : WF_vars(Care(A!Tick(p))) /\ WF_vars(Care(A!Step(p)))
  /\ \A s \in Slots : WF_vars(Limit(L!Handle(s)))
  /\ \A d \in Dispatchers : WF_vars(Notice(N!Work(d)))
  /\ \A e \in Events : /\ WF_vars(Notice(\E d \in Dispatchers : N!Claim(d, e)))
                       /\ WF_vars(Notice(N!ComesDue(e)))

-----------------------------------------------------------------------------
(* The state of the part that runs has its type.                              *)
TypeOK == CASE part = "care"   -> A!TypeOK
            [] part = "limit"  -> L!TypeOK
            [] part = "notice" -> N!TypeOK
            [] part = "member" -> M!TypeOK
            [] part = "model"  -> C!TypeOK

(* A wake-up job is run once at a time, and scoreAccountQuality isolates no   *)
(* account that is active with a closed circuit.                              *)
CareIsSafe == part = "care" => A!JobsRunOnce /\ A!OnlyBrokenIsIsolated

(* Nothing that runs by itself, but a wake-up job, brings a disabled account  *)
(* back.                                                                      *)
DisabledStays == A!DisabledStays

(* Limits that are checked before and counted after are overdrawn by no more  *)
(* than the requests in flight together cost, and the debits whose usage row  *)
(* was lost; no minute passes more requests than its rate; notices of a low   *)
(* balance do not pile up; the models a key is shown are those it is served   *)
(* (enforceSpendLimits, enforceEffectivePolicyLimits,                         *)
(* emitLowBalanceNotification, resolveEffectivePolicy).                       *)
LimitsHold == part = "limit" => /\ L!OvershootIsConcurrency /\ L!RateHeld
                                /\ L!NoticesAreFew /\ L!ListMatchesService

(* What may happen once happens once: a webhook hears of an event once, unless *)
(* a dispatch outlives its claim; a redeem code is claimed, a token used and  *)
(* the owner set up once, and claims are what is credited, whoever asks at the *)
(* same time (claimNotificationEvent, portalRedeem, setupCreateOwner).        *)
OnceOnly == /\ part = "notice" => N!CalmIsExactlyOnce
            /\ part = "member" => M!OnceEach

(* No two patches of a model leave it priced by an expression that is not     *)
(* there, and the report of an undisturbed synchronisation is what the channel *)
(* then serves (upsertModelPricingOverrideTx, diffChannelModels).             *)
CatalogueIsUsable == part = "model" => C!CatalogueIsUsable

(* Jobs that are due run where the worker's wake-up stage is enabled, requests *)
(* in flight are answered, and events are settled.                            *)
WorkSettles == A!DueJobsRun /\ L!RequestsAnswered /\ N!EventsSettle
=============================================================================
