------------------------------ MODULE Admission ------------------------------
(* What a request passes before it reserves money: the risk rules, the policy *)
(* of the user's group, the spend limits of the user and of the key, the rate *)
(* of the group; and what its settlement leaves for the next: the usage row   *)
(* they count and the low balance notice.  Nothing is locked from the reads   *)
(* to the row, and the list of limits keeps its database connection open      *)
(* while each limit asks for a second one.                                    *)
(*                                                                            *)
(* One user and one model; the other models are only there to be allowed.     *)
(* Money is counted in the cost of a request.                                 *)
EXTENDS Integers, Sequences, FiniteSets, SequencesExt

CONSTANTS Slots,        \* requests in flight at once
          Keys, Groups,
          Conns,        \* connections of the pool
          Asks,         \* requests: [endpoint, estimate, byo, matched : the rules that match it]
          Rules,        \* risk rules that exist: [action]
          Rows,         \* permission rows: [group, model, endpoint, permission, rate, times]
          Orders,       \* limits that are ever asked for
          GroupOrders,  \* settings of a group: [status, priority, month, rate, times]
          Settings,     \* to start with: [limit, group, joined, rows, rules]
          Funds,        \* the balance to start with
          Costs,        \* what a request may cost, whatever was estimated
          MaxCost,      \* no cost is higher
          MaxRequests,
          MaxChanges  \* writes of an administrator and days that pass

VARIABLES limit,    \* [Keys \cup {"user"} -> the spend_limits row]
          group,    \* [Groups -> groups]
          joined,   \* Seq of groups, user_group_memberships by age
          rows,     \* group_model_permissions
          rules,    \* [Rules -> the status of risk_rules, "none" before one exists]
          used,     \* usage_records: [{"day", "month"} -> [Keys -> [usd, n]]]
          spent,    \* [Groups -> this month's cost]
          rate,     \* [Groups -> [endpoint -> this minute's counter]]
          passed,   \* [Groups -> [endpoint -> requests that the counter let pass this minute]]
          balance, notices,  \* the wallet, the low_balance events of 24 hours
          req,      \* [Slots -> northboundProxy between idempotency and wallet]
          free,     \* connections that nobody holds
          lost,     \* history: debits whose usage row was not written
          since,    \* history: the month's usage when the user's limit was last written
          requests, writes, days

vars == <<limit, group, joined, rows, rules, used, spent, rate, passed, balance, notices, req,
          free, lost, since, requests, writes, days>>

Targets == Keys \cup {"user"}
Endpoints == {"chat", "embeddings"}
NoLimit == -1
Unlimited == [day |-> NoLimit, month |-> NoLimit, dayN |-> NoLimit, monthN |-> NoLimit,
              low |-> NoLimit, status |-> "none"]
NoPolicy == [group |-> "none", permission |-> "", times |-> 1, rate |-> NoLimit, month |-> NoLimit,
             allows |-> 0]
Unread == [t \in Targets |-> Unlimited]
NoUsage == [usd |-> 0, n |-> 0]
Idle == [stage |-> "idle", key |-> "none", ask |-> "none", policy |-> NoPolicy, reserve |-> 0,
         seen |-> Unread, todo |-> {}, day |-> NoUsage, verdict |-> "none",
         cost |-> 0, paid |-> 0, low |-> 0]

Fresh == [g \in Groups |-> [e \in Endpoints |-> 0]]

Stages == {"idle", "risk", "policy", "limits", "open", "month", "group", "rate", "flying",
           "notice", "notify", "record"}

TypeOK ==
  /\ limit \in [Targets -> Orders \cup {Unlimited}]
  /\ group \in [Groups -> GroupOrders] /\ joined \in Seq(Groups)
  /\ rows \subseteq Rows /\ rules \in [Rules -> {"none", "active", "disabled"}]
  /\ used \in [{"day", "month"} -> [Keys -> [usd : Nat, n : Nat]]]
  /\ \A g \in Groups, e \in Endpoints : rate[g][e] \in Nat /\ passed[g][e] \in 0 .. rate[g][e]
  /\ \A s \in Slots : /\ req[s].stage \in Stages /\ req[s].todo \subseteq Targets
                      /\ req[s].cost \in 0 .. MaxCost /\ req[s].paid \in {0, req[s].cost}
  /\ balance \in 0 .. Funds /\ lost \in Nat /\ free \in 0 .. Conns

-----------------------------------------------------------------------------
(* Risk rules.                                                                *)

ActiveRules == {u \in Rules : rules[u] = "active"}

(* Every rule is asked, and the gravest answer stands; which of them match a  *)
(* request is part of it.                                                     *)
Risk(a) ==
  LET said == {u.action : u \in ActiveRules \cap a.matched}
  IN  IF "block" \in said THEN "block"
      ELSE IF "throttle" \in said THEN "throttle"
      ELSE IF "flag" \in said THEN "flag" ELSE "allow"

-----------------------------------------------------------------------------
(* The policy in force: the group of the lowest priority, the oldest          *)
(* membership among equals.                                                   *)

InForce ==
  LET mine == {i \in DOMAIN joined : group[joined[i]].status = "active"}
      best(i, j) == \/ group[joined[i]].priority < group[joined[j]].priority
                    \/ group[joined[i]].priority = group[joined[j]].priority /\ i <= j
  IN  {joined[i] : i \in {i \in mine : \A j \in mine : best(i, j)}}

(* A group has one row for a model and an endpoint.                           *)
OneRowEach(ws) ==
  \A v, w \in ws : <<v.group, v.model, v.endpoint>> = <<w.group, w.model, w.endpoint>> => v = w

(* The rows of the model that speak of an endpoint; "" asks for all of them.  *)
Speaking(g, e) == {w \in rows : w.group = g /\ w.model = "m" /\ (w.endpoint = "" \/ e = "" \/ w.endpoint = e)}

(* A denial before a permission, then a row of the endpoint itself.           *)
First(ws, e) ==
  LET deny  == {w \in ws : w.permission = "deny"}
      some  == IF deny # {} THEN deny ELSE ws
      exact == {w \in some : w.endpoint = e}
  IN  IF exact # {} THEN exact ELSE some

Allows(g) == Cardinality({w \in rows : w.group = g /\ w.permission = "allow"})

(* A rate of the model's row stands before that of the group.                 *)
EffectiveRate(g, w) == IF w.rate # NoLimit THEN w.rate ELSE group[g].rate

Policy(g, w) ==
  [group |-> g, permission |-> w.permission, times |-> group[g].times * w.times,
   rate |-> EffectiveRate(g, w), month |-> group[g].month, allows |-> Allows(g)]

NoRow == [permission |-> "", rate |-> NoLimit, times |-> 1]

Policies(e) ==
  IF InForce = {} THEN {NoPolicy}
  ELSE UNION {IF Speaking(g, e) = {} THEN {Policy(g, NoRow)}
              ELSE {Policy(g, w) : w \in First(Speaking(g, e), e)} : g \in InForce}

Accessible(p) ==
  p.group = "none" \/ (p.permission # "deny" /\ (p.allows = 0 \/ p.permission = "allow"))

(* What GET /v1/models shows.                                                 *)
Listed == \A p \in Policies("") : p.permission # "deny" /\ (p.allows = 0 \/ p.permission = "allow")

Reserve(p, a) == IF a.byo \/ p.times <= 0 THEN 0 ELSE a.estimate * p.times

-----------------------------------------------------------------------------
(* The usage that the limits of a target count: failed requests as well.      *)

Counting(t) == IF t = "user" THEN Keys ELSE {t}
Usd(t, w) == MapThenSumSet(LAMBDA k : used[w][k].usd, Counting(t))
Count(t, w) == MapThenSumSet(LAMBDA k : used[w][k].n, Counting(t))

Over(n, max) == max # NoLimit /\ n > max

Refused(t, s) ==
  \/ Over(req[s].day.usd + req[s].reserve, req[s].seen[t].day)
  \/ Over(Usd(t, "month") + req[s].reserve, req[s].seen[t].month)
  \/ Over(req[s].day.n + 1, req[s].seen[t].dayN)
  \/ Over(Count(t, "month") + 1, req[s].seen[t].monthN)

-----------------------------------------------------------------------------
Init ==
  /\ \E c \in Settings : /\ limit = c.limit /\ group = c.group /\ joined = c.joined
                         /\ rows = c.rows /\ rules = c.rules
  /\ used = [w \in {"day", "month"} |-> [k \in Keys |-> [usd |-> 0, n |-> 0]]]
  /\ spent = [g \in Groups |-> 0] /\ rate = Fresh /\ passed = Fresh
  /\ balance = Funds /\ notices = 0
  /\ req = [s \in Slots |-> Idle]
  /\ free = Conns
  /\ lost = 0 /\ since = 0
  /\ requests = 0 /\ writes = 0 /\ days = 0

Books == <<limit, group, joined, rows, rules, used, spent, rate, passed, balance, notices, lost,
           since, requests, writes, days>>

To(s, stage) == req' = [req EXCEPT ![s].stage = stage]

Refuse(s) == req' = [req EXCEPT ![s] = Idle]

Arrive(s, k, a) ==
  /\ req[s].stage = "idle" /\ requests < MaxRequests
  /\ req' = [req EXCEPT ![s] = [Idle EXCEPT !.stage = "risk", !.key = k, !.ask = a]]
  /\ requests' = requests + 1
  /\ UNCHANGED <<limit, group, joined, rows, rules, used, spent, rate, passed, balance, notices,
                 free, lost, since, writes, days>>

(* An event is recorded of every match; when that fails, so does the request. *)
EvaluateRisk(s) ==
  /\ req[s].stage = "risk" /\ free > 0
  /\ \/ Risk(req[s].ask) \in {"allow", "flag"} /\ To(s, "policy")
     \/ Risk(req[s].ask) # "allow" /\ Refuse(s)
  /\ UNCHANGED <<Books, free>>

ResolvePolicy(s) ==
  /\ req[s].stage = "policy" /\ free > 0
  /\ \E p \in Policies(req[s].ask.endpoint) :
        IF ~Accessible(p) THEN Refuse(s)
        ELSE req' = [req EXCEPT ![s].stage = "limits", ![s].policy = p,
                                ![s].reserve = Reserve(p, req[s].ask)]
  /\ UNCHANGED <<Books, free>>

(* The cursor over the limits shows them as they are now, and keeps its       *)
(* connection until the last is checked.                                      *)
EnforceSpendLimits(s) ==
  /\ req[s].stage = "limits" /\ free > 0
  /\ free' = free - 1
  /\ req' = [req EXCEPT ![s].stage = "open", ![s].seen = limit,
               ![s].todo = {t \in {"user", req[s].key} : limit[t].status = "active"}]
  /\ UNCHANGED Books

SpendOfTheDay(s) ==
  /\ req[s].stage = "open" /\ free > 0
  /\ \E t \in req[s].todo :
        req' = [req EXCEPT ![s].stage = "month", ![s].verdict = t,
                  ![s].day = [usd |-> Usd(t, "day"), n |-> Count(t, "day")]]
  /\ UNCHANGED <<Books, free>>

(* Seeded bug: a limit that fits gives a connection back too.                *)
Closes_Always(refused) == 1

(* What comes back to the pool when a limit refuses.                          *)
Closes(refused) == IF refused THEN 1 ELSE 0

EnforceSpendLimit(s) ==
  LET t == req[s].verdict
  IN  /\ req[s].stage = "month" /\ free > 0
      /\ IF Refused(t, s) THEN Refuse(s)
         ELSE req' = [req EXCEPT ![s].stage = "open", ![s].todo = @ \ {t}, ![s].day = NoUsage,
                                 ![s].verdict = "none"]
      /\ free' = free + Closes(Refused(t, s))
      /\ UNCHANGED Books

LimitsHold(s) ==
  /\ req[s].stage = "open" /\ req[s].todo = {}
  /\ req' = [req EXCEPT ![s].stage = "group", ![s].seen = Unread]
  /\ free' = free + 1
  /\ UNCHANGED Books

GroupMonth(s) ==
  LET p == req[s].policy
  IN  /\ req[s].stage = "group" /\ free > 0
      /\ IF p.group # "none" /\ p.month >= 0 /\ spent[p.group] + req[s].reserve > p.month
         THEN Refuse(s)
         ELSE To(s, "rate")
      /\ UNCHANGED <<Books, free>>

(* INCR counts the requests that it refuses as well.                          *)
Counted(g, e) == rate[g][e] + 1

GroupRate(s) ==
  LET p == req[s].policy
      e == req[s].ask.endpoint
  IN  /\ req[s].stage = "rate"
      /\ IF p.group = "none" \/ p.rate <= 0
         THEN To(s, "flying") /\ UNCHANGED <<rate, passed>>
         ELSE \/ rate' = [rate EXCEPT ![p.group][e] = @ + 1]
                 /\ IF Counted(p.group, e) > p.rate THEN Refuse(s) /\ UNCHANGED passed
                    ELSE To(s, "flying") /\ passed' = [passed EXCEPT ![p.group][e] = @ + 1]
              \/ Refuse(s) /\ UNCHANGED <<rate, passed>>  \* Redis is missing or fails
      /\ UNCHANGED <<limit, group, joined, rows, rules, used, spent, balance, notices, free, lost,
                     since, requests, writes, days>>

(* A request that failed after it was relayed costs what it used; the limits  *)
(* count it.                                                                  *)
Charged_SuccessOnly(cost, status) == IF status = "success" THEN cost ELSE 0

Charged(cost, status) == cost

(* What a request used is priced when it is over: more than was estimated or  *)
(* less; nothing for one that was not answered, is on an account of the       *)
(* user's own or in a group that is free of charge.                           *)
Bill(p, a) == {0} \cup IF a.byo \/ p.times <= 0 THEN {} ELSE Costs

(* settleReservation: nothing is debited where nothing was reserved.          *)
Debit(s, paid) ==
  /\ paid <= balance /\ (paid > 0 => req[s].reserve > 0)
  /\ balance' = balance - paid

(* The debit, in a transaction of its own, leaves the balance for the notice. *)
(* A stream whose settlement is refused, or is not known to have succeeded,   *)
(* goes on to the row: its cost is recorded whatever it paid.                 *)
Settle(s) ==
  /\ req[s].stage = "flying" /\ free > 0
  /\ \E cost \in Bill(req[s].policy, req[s].ask) :
       \/ \E paid \in {0, cost} :
            /\ Debit(s, paid)
            /\ req' = [req EXCEPT ![s].stage = "record", ![s].cost = cost, ![s].paid = paid]
       \/ /\ cost > 0 /\ Debit(s, cost)
          /\ req' = [req EXCEPT ![s].stage = "notice", ![s].cost = cost, ![s].paid = cost,
                       ![s].low = balance - cost]
  /\ UNCHANGED <<limit, group, joined, rows, rules, used, spent, rate, passed, notices, free, lost,
                 since, requests, writes, days>>

(* A call whose settlement reports an error leaves no row, one that found no  *)
(* account a rejected one, which no limit counts.                             *)
EndUnrecorded(s) ==
  /\ req[s].stage = "flying" /\ free > 0
  /\ \E paid \in Bill(req[s].policy, req[s].ask) : Debit(s, paid) /\ lost' = lost + paid
  /\ Refuse(s)
  /\ UNCHANGED <<limit, group, joined, rows, rules, used, spent, rate, passed, notices, free, since,
                 requests, writes, days>>

(* The usage row, in a transaction of its own, whose error is dropped.        *)
Record(s) ==
  LET k == req[s].key
      g == req[s].policy.group
      add(w, cost) == [used[w] EXCEPT ![k] = [usd |-> @.usd + cost, n |-> @.n + 1]]
  IN  /\ req[s].stage = "record" /\ free > 0
      /\ \/ /\ \E status \in {"success", "failed"} :
                 used' = [w \in {"day", "month"} |-> add(w, Charged(req[s].cost, status))]
            /\ spent' = IF g = "none" THEN spent ELSE [spent EXCEPT ![g] = @ + req[s].cost]
            /\ UNCHANGED lost
         \/ lost' = lost + req[s].paid /\ UNCHANGED <<used, spent>>
      /\ Refuse(s)
      /\ UNCHANGED <<limit, group, joined, rows, rules, rate, passed, balance, notices, free, since,
                     requests, writes, days>>

Recent == notices > 0

Tell(s, stage) == req' = [req EXCEPT ![s].stage = stage, ![s].low = 0]

(* The balance at or below the threshold, and no notice for 24 hours; the     *)
(* event is inserted afterwards.  An error of either is only logged.          *)
LowBalance(s) ==
  /\ req[s].stage = "notice" /\ free > 0
  /\ IF limit["user"].status = "active" /\ limit["user"].low # NoLimit
        /\ req[s].low <= limit["user"].low /\ ~Recent
     THEN Tell(s, "notify") \/ Tell(s, "record") ELSE Tell(s, "record")
  /\ UNCHANGED <<Books, free>>

Notify(s) ==
  /\ req[s].stage = "notify" /\ free > 0
  /\ notices' \in {notices, notices + 1}
  /\ To(s, "record")
  /\ UNCHANGED <<limit, group, joined, rows, rules, used, spent, rate, passed, balance, free, lost,
                 since, requests, writes, days>>

(* The client goes away: the context ends, and the cursor with it.            *)
HangUp(s) ==
  /\ req[s].stage \notin {"idle", "flying", "notice", "notify", "record"}
  /\ Refuse(s)
  /\ free' = IF req[s].stage \in {"open", "month"} THEN free + 1 ELSE free
  /\ UNCHANGED Books

-----------------------------------------------------------------------------
(* The administrators and the clock.                                          *)

Write == writes + days < MaxChanges /\ writes' = writes + 1

(* The row is replaced as a whole: what the request leaves out is unlimited.  *)
PutSpendLimit(t, o) ==
  /\ Write
  /\ t = "user" \/ o.low = NoLimit
  /\ limit' = [limit EXCEPT ![t] = o]
  /\ since' = IF t = "user" THEN Usd("user", "month") ELSE since
  /\ UNCHANGED <<group, joined, rows, rules, used, spent, rate, passed, balance, notices, req, free,
                 lost, requests, days>>

PatchGroup(g, o) ==
  /\ Write
  /\ group' = [group EXCEPT ![g] = o]
  /\ UNCHANGED <<limit, joined, rows, rules, used, spent, rate, passed, balance, notices, req, free,
                 lost, since, requests, days>>

(* One row per group, model and endpoint.                                     *)
AddPermission(w) ==
  /\ Write
  /\ rows' = {x \in rows : <<x.group, x.model, x.endpoint>> # <<w.group, w.model, w.endpoint>>} \cup {w}
  /\ UNCHANGED <<limit, group, joined, rules, used, spent, rate, passed, balance, notices, req, free,
                 lost, since, requests, days>>

(* A member who joins again keeps the age of the membership.                  *)
AddMember(g) ==
  /\ Write
  /\ joined' = IF \E i \in DOMAIN joined : joined[i] = g THEN joined ELSE Append(joined, g)
  /\ UNCHANGED <<limit, group, rows, rules, used, spent, rate, passed, balance, notices, req, free,
                 lost, since, requests, days>>

(* A user is a member of a group once, if at all.                             *)
DeleteMember(g) ==
  /\ Write
  /\ IF \E i \in DOMAIN joined : joined[i] = g
     THEN \E i \in DOMAIN joined : joined[i] = g /\ joined' = RemoveAt(joined, i)
     ELSE UNCHANGED joined
  /\ UNCHANGED <<limit, group, rows, rules, used, spent, rate, passed, balance, notices, req, free,
                 lost, since, requests, days>>

UpsertRule(u) ==
  /\ Write
  /\ \E status \in {"active", "disabled"} : rules' = [rules EXCEPT ![u] = status]
  /\ UNCHANGED <<limit, group, joined, rows, used, spent, rate, passed, balance, notices, req, free,
                 lost, since, requests, days>>

NextDay ==
  /\ writes + days < MaxChanges /\ days' = days + 1
  /\ used' = [used EXCEPT !.day = [k \in Keys |-> [usd |-> 0, n |-> 0]]]
  /\ rate' = Fresh /\ passed' = Fresh
  /\ notices' = 0
  /\ UNCHANGED <<limit, group, joined, rows, rules, spent, balance, req, free, lost,
                 since, requests, writes>>

Handle(s) ==
  \/ EvaluateRisk(s) \/ ResolvePolicy(s) \/ EnforceSpendLimits(s) \/ SpendOfTheDay(s)
  \/ EnforceSpendLimit(s) \/ LimitsHold(s) \/ GroupMonth(s) \/ GroupRate(s)
  \/ Settle(s) \/ EndUnrecorded(s) \/ LowBalance(s) \/ Notify(s) \/ Record(s)

Next ==
  \/ \E s \in Slots : Handle(s) \/ HangUp(s) \/ \E k \in Keys, a \in Asks : Arrive(s, k, a)
  \/ \E t \in Targets, o \in Orders : PutSpendLimit(t, o)
  \/ \E g \in Groups : AddMember(g) \/ DeleteMember(g) \/ \E o \in GroupOrders : PatchGroup(g, o)
  \/ \E w \in Rows : AddPermission(w)
  \/ \E u \in Rules : UpsertRule(u)
  \/ NextDay

Spec == Init /\ [][Next]_vars /\ \A s \in Slots : WF_vars(Handle(s))
-----------------------------------------------------------------------------
(* Limits are checked and usage is recorded far apart, and a request may cost *)
(* more than was estimated: what was debited, less the debits whose usage row *)
(* was lost, stays below the month's limit of the user, or below what had     *)
(* been used when it was set, by at most what the requests in flight together *)
(* cost.  Failed requests that were charged count like the others.            *)
OvershootIsConcurrency ==
  limit["user"].status = "active" /\ limit["user"].month # NoLimit =>
    LET m == limit["user"].month
    IN  Funds - balance - lost <= (IF since > m THEN since ELSE m) + Cardinality(Slots) * MaxCost

(* INCR is taken before it is compared: within a minute no more requests pass *)
(* than the rate in force, however they interleave.                           *)
RateHeld ==
  writes = 0 => \A e \in Endpoints : \A p \in Policies(e) :
    p.group # "none" /\ p.rate > 0 => passed[p.group][e] <= p.rate

(* The notices of 24 hours are one for each settlement that found no notice   *)
(* yet: never more than the requests that settle at the same time.            *)
NoticesAreFew == notices <= Cardinality(Slots)

(* A model that the list shows is served on some endpoint, and one that is    *)
(* served on every endpoint is shown: the list resolves the policy without    *)
(* an endpoint, the request with one.                                         *)
ListMatchesService ==
  LET served(e) == \A p \in Policies(e) : Accessible(p)
  IN  /\ Listed => \E e \in Endpoints : served(e)
      /\ (\A e \in Endpoints : served(e)) => Listed

(* With more connections than requests in flight each request is answered: a  *)
(* cursor that is refused half-way gives its connection back.                 *)
RequestsAnswered == \A s \in Slots : req[s].stage # "idle" ~> req[s].stage = "idle"
==============================================================================
