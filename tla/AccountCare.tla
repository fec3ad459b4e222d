----------------------------- MODULE AccountCare -----------------------------
(* The upkeep of the account pool: the worker of every server instance, whose *)
(* tick refreshes quotas, runs the wake-up jobs that are due, judges quality   *)
(* and checks health, and the administrators who do the same by hand, change  *)
(* an account's status or the platform's settings meanwhile.  None of them    *)
(* locks: each reads a list once and then works through it.                   *)
(*                                                                            *)
(* An account belongs to one platform and has one window of quota; a probe's  *)
(* outcome is the upstream's choice; what the routes do to an account between *)
(* two probes is in the samples that the quality check reads.                 *)
EXTENDS Integers, FiniteSets

CONSTANTS Accounts, Jobs, Workers, Admins,
          NoJob,
          Samples,   \* what the tests and the routes have counted
          Levels,    \* of quota, a subset of {"empty", "critical", "low", "ample"}
          MaxEnds,   \* contexts that end early
          MaxOrders  \* interventions of the administrators

VARIABLES account,  \* [Accounts -> [status, cooling, circuit]]
          quota,    \* [Accounts -> [snapshot, window]]: the latest of each
          job,      \* [Jobs -> account_wakeup_jobs]
          task,     \* [Workers \cup Admins -> what it is doing]
          allowed,  \* account_platform_configs: what is enabled
          several,  \* the connection runs several commands with arguments in one call
          wakeups,  \* system_settings account_pool.wakeup_enabled
          ends, orders

vars == <<account, quota, job, task, allowed, several, wakeups, ends, orders>>

Stages == {"idle", "quota", "wakeup", "quality", "health"}

(* What a list of the quality check says of an account.                       *)
Verdicts == [id : Accounts, status : {"active", "cooldown", "exhausted", "disabled"},
             circuit : {"closed", "open", "half_open"}, channel : BOOLEAN,
             decision : {"isolate", "watch", "allow"}]

TypeOK ==
  /\ account \in [Accounts -> [status : {"active", "cooldown", "exhausted", "disabled"},
                               cooling : BOOLEAN, circuit : {"closed", "open", "half_open"}]]
  /\ quota \in [Accounts -> [snapshot : {"none", "failed", "unsupported"} \cup Levels,
                             window : {"none"} \cup Levels]]
  /\ job \in [Jobs -> [status : {"none", "pending", "running", "success", "failed"},
                       due : BOOLEAN, ids : SUBSET Accounts]]
  /\ \A p \in Workers \cup Admins :
       /\ task[p].stage \in Stages /\ task[p].job \in Jobs \cup {NoJob}
       /\ task[p].due \subseteq Jobs
       /\ task[p].todo \subseteq Accounts \cup Verdicts
  /\ allowed \subseteq {"quota", "wakeup", "health"}
  /\ several \in BOOLEAN /\ wakeups \in BOOLEAN /\ ends \in 0 .. MaxEnds /\ orders \in 0 .. MaxOrders

Idle == [stage |-> "idle", due |-> {}, job |-> NoJob, ids |-> {}, todo |-> {}, ok |-> 0, bad |-> 0]

(* several is FALSE with the connection strings of the repository: pgx then   *)
(* prepares a statement that has arguments, and the server refuses to prepare *)
(* more than one command.  default_query_exec_mode=simple_protocol allows it. *)
(* wakeups is seeded FALSE, and no handler writes it: who wants the worker to *)
(* run the jobs that are due changes the row of the database.                 *)
Init ==
  /\ account \in [Accounts -> {[status |-> "active", cooling |-> FALSE, circuit |-> "closed"],
                               [status |-> "cooldown", cooling |-> TRUE, circuit |-> "open"]}]
  /\ quota = [a \in Accounts |-> [snapshot |-> "none", window |-> "none"]]
  /\ job = [j \in Jobs |-> [status |-> "none", due |-> FALSE, ids |-> {}]]
  /\ task = [p \in Workers \cup Admins |-> Idle]
  /\ allowed = {"quota", "wakeup", "health"}
  /\ several \in BOOLEAN /\ wakeups \in BOOLEAN
  /\ ends = 0 /\ orders = 0

-----------------------------------------------------------------------------
(* The quality score: integers, rounded half up, as the floats round.         *)

Clamp(n) == IF n < 0 THEN 0 ELSE IF n > 100 THEN 100 ELSE n

Smaller(m, n) == IF m < n THEN m ELSE n

(* rate is how, times: round(part / whole * 35) *)
Share(part, whole) == (70 * part + whole) \div (2 * whole)

StatusCost(status) == CASE status = "active"    -> 0
                        [] status = "cooldown"  -> 25
                        [] status = "exhausted" -> 45
                        [] status = "disabled"  -> 60

CircuitCost(circuit) == CASE circuit = "closed"    -> 0
                          [] circuit = "half_open" -> 20
                          [] circuit = "open"      -> 40

Availability(a, m) ==
  Clamp(100 - StatusCost(account[a].status) - (IF m.channel THEN 0 ELSE 30)
            - CircuitCost(account[a].circuit) - (IF account[a].cooling THEN 15 ELSE 0))

Latency(m) ==
  IF m.last = "none" THEN 80
  ELSE IF m.last = "failed" THEN 35
  ELSE 95 - (IF m.ms >= 5000 THEN 35 ELSE IF m.ms >= 2000 THEN 20 ELSE IF m.ms >= 1000 THEN 10 ELSE 0)

LevelScore(level) == CASE level = "none"     -> 75
                       [] level = "empty"    -> 20
                       [] level = "critical" -> 45
                       [] level = "low"      -> 65
                       [] level = "ample"    -> 90

QuotaScore(a) ==
  IF quota[a].snapshot = "failed" THEN 45
  ELSE LevelScore(IF quota[a].snapshot \in Levels THEN quota[a].snapshot ELSE quota[a].window)

Errors(m) ==
  Clamp(100 - (IF m.badTests > 0 THEN Share(m.badTests, m.tests) ELSE 0)
            - (IF m.failures = 0 THEN 0
               ELSE IF m.successes + m.failures >= 5 THEN Share(m.failures, m.successes + m.failures)
               ELSE Smaller(5 * m.failures, 25))
            - Smaller(5 * m.circuitFailures, 20)
            - (IF m.runtimeError THEN 10 ELSE 0)
            - (IF m.testError THEN 8 ELSE 0))

Quality(a, m) ==
  Clamp((35 * Availability(a, m) + 20 * Latency(m) + 20 * QuotaScore(a) + 25 * Errors(m) + 50) \div 100)

Decision(score) == IF score < 40 THEN "isolate" ELSE IF score < 70 THEN "watch" ELSE "allow"

-----------------------------------------------------------------------------
(* The lists that a stage reads once.                                         *)

QuotaList == {a \in Accounts : account[a].status = "active" /\ "quota" \in allowed}

WakeList == {a \in Accounts : account[a].status \in {"cooldown", "exhausted"} /\ "wakeup" \in allowed}

HealthList == {a \in Accounts : account[a].status \in {"active", "cooldown"} /\ "health" \in allowed}

(* One verdict per account, for some sample of it.                            *)
QualityLists ==
  {{[id |-> a, status |-> account[a].status, circuit |-> account[a].circuit, channel |-> m[a].channel,
     decision |-> Decision(Quality(a, m[a]))] : a \in Accounts} : m \in [Accounts -> Samples]}

(* Seeded bug: a failed job is taken for one that is due.                    *)
DueJobs_Failed == {j \in Jobs : job[j].status = "failed" /\ job[j].due}

DueJobs == {j \in Jobs : job[j].status = "pending" /\ job[j].due}

Done(p) == task[p].todo = {} /\ task[p].due = {} /\ task[p].job = NoJob

Enter(p, stage, due, todo) ==
  task' = [task EXCEPT ![p] = [Idle EXCEPT !.stage = stage, !.due = due, !.todo = todo]]

(* The tick of a worker: each stage when it is enabled and due, then the      *)
(* next; wake-up jobs are due whenever one is, but run by hand only unless    *)
(* wakeups is TRUE.                                                           *)
Tick(p) ==
  /\ Done(p)
  /\ \/ /\ task[p].stage = "idle"
        /\ \E todo \in {{}, QuotaList} : Enter(p, "quota", {}, todo)
     \/ task[p].stage = "quota" /\ Enter(p, "wakeup", IF wakeups THEN DueJobs ELSE {}, {})
     \/ /\ task[p].stage = "wakeup"
        /\ \E todo \in QualityLists \cup {{}} : Enter(p, "quality", {}, todo)
     \/ /\ task[p].stage = "quality"
        /\ \E todo \in {{}, HealthList} : Enter(p, "health", {}, todo)
     \/ task[p].stage = "health" /\ task' = [task EXCEPT ![p] = Idle]
  /\ UNCHANGED <<account, quota, job, allowed, several, wakeups, ends, orders>>

(* A handler answers when its list is done.                                   *)
Answer(p) ==
  /\ task[p].stage # "idle" /\ Done(p)
  /\ task' = [task EXCEPT ![p] = Idle]
  /\ UNCHANGED <<account, quota, job, allowed, several, wakeups, ends, orders>>

(* The worker's 45 seconds are over, the client of a handler is gone, or the  *)
(* server stops: no later statement succeeds, and a claimed job stays         *)
(* 'running'.                                                                 *)
ContextEnds(p) ==
  /\ task[p].stage # "idle" /\ ends < MaxEnds
  /\ task' = [task EXCEPT ![p] = Idle]
  /\ ends' = ends + 1
  /\ UNCHANGED <<account, quota, job, allowed, several, wakeups, orders>>

-----------------------------------------------------------------------------
(* The stages *)

Without(p, x) == [task[p] EXCEPT !.todo = @ \ {x}]

(* What the sources know of an account: the metadata or an endpoint give a    *)
(* level, an endpoint without such fields or no source at all nothing.        *)
Discovered == {"failed", "unsupported"} \cup Levels

(* A snapshot, whatever the source said; a reading also replaces the latest   *)
(* window, or makes the first.                                                *)
Persisted(a, r) == [snapshot |-> r, window |-> IF r \in Levels THEN r ELSE quota[a].window]

RefreshQuota(p, a) ==
  /\ task[p].stage = "quota" /\ a \in task[p].todo
  /\ \E r \in Discovered : quota' = [quota EXCEPT ![a] = Persisted(a, r)]
  /\ task' = [task EXCEPT ![p] = Without(p, a)]
  /\ UNCHANGED <<account, job, allowed, several, wakeups, ends, orders>>

(* Seeded bug: a job that runs may be claimed again.                         *)
Claimable_Running(j) == job[j].status \in {"pending", "failed", "running"}

Claimable(j) == job[j].status \in {"pending", "failed"}

(* runWakeupJob claims; a job without accounts takes those that need it.      *)
ClaimJob(p, j) ==
  /\ task[p].stage = "wakeup" /\ j \in task[p].due
  /\ task[p].job = NoJob /\ Claimable(j)
  /\ job' = [job EXCEPT ![j].status = "running"]
  /\ LET ids == IF job[j].ids = {} THEN WakeList ELSE job[j].ids
     IN task' = [task EXCEPT ![p] = [task[p] EXCEPT !.due = @ \ {j}, !.job = j, !.ids = ids,
                                                    !.todo = ids, !.ok = 0, !.bad = 0]]
  /\ UNCHANGED <<account, quota, allowed, several, wakeups, ends, orders>>

(* Somebody else has it, or it has run: an error for the handler, a warning   *)
(* in the worker's log.                                                       *)
NotRetryable(p, j) ==
  /\ task[p].stage = "wakeup" /\ j \in task[p].due
  /\ task[p].job = NoJob /\ ~Claimable(j)
  /\ task' = [task EXCEPT ![p].due = @ \ {j}]
  /\ UNCHANGED <<account, quota, job, allowed, several, wakeups, ends, orders>>

Restored == [status |-> "active", cooling |-> FALSE, circuit |-> "closed"]

Cooled(a) == [account[a] EXCEPT !.status = IF @ = "active" THEN "cooldown" ELSE @, !.cooling = TRUE]

(* A probe that calls the endpoint with a key fails on every error; one that  *)
(* only asks for a path fails when the server breaks or refuses the key.      *)
Healthy(real, answer) ==
  answer \notin {"no answer", "server error", "unauthorized"} /\ (real => answer # "client error")

Answers == {"ok", "client error", "unauthorized", "server error", "no answer"}

(* The probe, then markAccountWakeupSuccess or markAccountWakeupFailed, whose *)
(* two commands go in one call; that they fail is put in the result.  The job *)
(* counts the probe.                                                          *)
WakeAccount(p, a) ==
  /\ task[p].stage = "wakeup" /\ task[p].job # NoJob /\ a \in task[p].todo
  /\ \E real \in BOOLEAN, answer \in Answers : LET healthy == Healthy(real, answer) IN
       /\ account' = IF ~several THEN account
                     ELSE [account EXCEPT ![a] = IF healthy THEN Restored ELSE Cooled(a)]
       /\ task' = [task EXCEPT ![p] = [Without(p, a) EXCEPT !.ok = IF healthy THEN @ + 1 ELSE @,
                                                            !.bad = IF healthy THEN @ ELSE @ + 1]]
  /\ UNCHANGED <<quota, job, allowed, several, wakeups, ends, orders>>

(* The end of the job remembers the accounts it took: a retry takes the same. *)
FinishJob(p, j) ==
  /\ task[p].job = j /\ task[p].todo = {}
  /\ job' = [job EXCEPT ![j].status = IF task[p].ok = 0 /\ task[p].bad > 0 THEN "failed" ELSE "success",
                         ![j].ids = task[p].ids]
  /\ task' = [task EXCEPT ![p].job = NoJob, ![p].ids = {}]
  /\ UNCHANGED <<account, quota, allowed, several, wakeups, ends, orders>>

Isolated(a) == [status |-> "disabled", cooling |-> FALSE, circuit |-> "open"]

(* A verdict of the list: the isolation goes by the status as it was read.    *)
Judge(p, v) ==
  /\ task[p].stage = "quality" /\ v \in task[p].todo
  /\ account' = IF v.decision = "isolate" /\ v.status # "disabled"
                THEN [account EXCEPT ![v.id] = Isolated(v.id)] ELSE account
  /\ task' = [task EXCEPT ![p] = Without(p, v)]
  /\ UNCHANGED <<quota, job, allowed, several, wakeups, ends, orders>>

(* Seeded bug: the health check restores whatever the status.                *)
Checked_Blind(a, healthy) == IF healthy THEN Restored ELSE Cooled(a)

(* What runScheduledAccountHealth makes of an account.                        *)
Checked(a, healthy) ==
  IF healthy THEN [Restored EXCEPT !.status = IF account[a].status = "cooldown" THEN "active" ELSE account[a].status]
  ELSE Cooled(a)

(* Where the call with two commands is refused, the first account ends the    *)
(* check: the others of the list are not looked at.                           *)
CheckHealth(p, a) ==
  /\ task[p].stage = "health" /\ a \in task[p].todo
  /\ IF several
     THEN /\ \E answer \in Answers : account' = [account EXCEPT ![a] = Checked(a, Healthy(FALSE, answer))]
          /\ task' = [task EXCEPT ![p] = Without(p, a)]
     ELSE /\ task' = [task EXCEPT ![p].todo = {}]
          /\ UNCHANGED account
  /\ UNCHANGED <<quota, job, allowed, several, wakeups, ends, orders>>

-----------------------------------------------------------------------------
(* The administrators *)

Order(p) == task[p] = Idle /\ orders < MaxOrders /\ orders' = orders + 1

Pending(ids, due) == [status |-> "pending", due |-> due, ids |-> ids]

(* adminCreateWakeupJob: for now, run by the handler itself, for later, or    *)
(* left to the worker.                                                        *)
CreateJob(p, j) ==
  /\ Order(p) /\ job[j].status = "none"
  /\ \E ids \in SUBSET Accounts, due, now \in BOOLEAN :
       /\ due \/ ~now
       /\ job' = [job EXCEPT ![j] = Pending(IF now /\ ids = {} THEN WakeList ELSE ids, due)]
       /\ IF now THEN Enter(p, "wakeup", {j}, {}) ELSE UNCHANGED task
  /\ UNCHANGED <<account, quota, allowed, several, wakeups, ends>>

ComesDue(j) ==
  /\ job[j].status = "pending" /\ ~job[j].due
  /\ job' = [job EXCEPT ![j].due = TRUE]
  /\ UNCHANGED <<account, quota, task, allowed, several, wakeups, ends, orders>>

(* runQuotaRefresh: the accounts asked for, or all that are active.           *)
RefreshByHand(p) ==
  \E ids \in SUBSET Accounts :
    Enter(p, "quota", {}, IF ids = {} THEN {a \in Accounts : account[a].status = "active"} ELSE ids)

(* adminRunWakeupJob, adminRefreshAccountsQuota, adminRecomputeAccountQuality *)
StartByHand(p) ==
  /\ Order(p)
  /\ \/ \E j \in Jobs : job[j].status # "none" /\ Enter(p, "wakeup", {j}, {})
     \/ RefreshByHand(p)
     \/ \E todo \in QualityLists : Enter(p, "quality", {}, todo)
  /\ UNCHANGED <<account, quota, job, allowed, several, wakeups, ends>>

(* adminAccountBatch and adminPatchAccount set a status and leave the rest;   *)
(* wakeup and restore clear the rest too; a cooldown keeps who is disabled.   *)
SetAccount(p, a) ==
  /\ Order(p)
  /\ \E r \in {[account[a] EXCEPT !.status = s] : s \in {"active", "disabled", "cooldown", "exhausted"}}
              \cup {Restored, Isolated(a)}
              \cup {[account[a] EXCEPT !.status = IF @ = "disabled" THEN @ ELSE "cooldown", !.cooling = TRUE]} :
       account' = [account EXCEPT ![a] = r]
  /\ UNCHANGED <<quota, job, task, allowed, several, wakeups, ends>>

PutPlatformConfig(p) ==
  /\ Order(p)
  /\ allowed' \in SUBSET {"quota", "wakeup", "health"}
  /\ UNCHANGED <<account, quota, job, task, several, wakeups, ends>>

Step(p) ==
  \/ \E a \in Accounts : RefreshQuota(p, a) \/ WakeAccount(p, a) \/ CheckHealth(p, a)
  \/ \E j \in Jobs : ClaimJob(p, j) \/ NotRetryable(p, j) \/ FinishJob(p, j)
  \/ \E v \in task[p].todo \cap Verdicts : Judge(p, v)

Next ==
  \/ \E p \in Workers : Tick(p)
  \/ \E p \in Admins : Answer(p) \/ StartByHand(p) \/ PutPlatformConfig(p)
  \/ \E p \in Admins, j \in Jobs : CreateJob(p, j)
  \/ \E p \in Admins, a \in Accounts : SetAccount(p, a)
  \/ \E p \in Workers \cup Admins : Step(p) \/ ContextEnds(p)
  \/ \E j \in Jobs : ComesDue(j)

(* The ticker keeps ticking and a tick works through its lists.               *)
Spec == Init /\ [][Next]_vars /\ \A p \in Workers : WF_vars(Tick(p)) /\ WF_vars(Step(p))

-----------------------------------------------------------------------------
(* A job is run by one worker or handler at a time, whoever else has it in a  *)
(* list read before (runWakeupJob's claim): its end is written without a      *)
(* look at the status it has by then.                                         *)
JobsRunOnce ==
  \A j \in Jobs :
    /\ Cardinality({p \in Workers \cup Admins : task[p].job = j}) <= 1
    /\ (\E p \in Workers \cup Admins : task[p].job = j) => job[j].status = "running"

(* Whatever its tests, quota and counters say, scoreAccountQuality does not   *)
(* isolate, under the default threshold of 40, an account that has a channel, *)
(* is active and whose circuit is closed.                                     *)
OnlyBrokenIsIsolated ==
  \A p \in Workers \cup Admins : \A v \in task[p].todo \cap Verdicts :
    v.decision = "isolate" => v.status # "active" \/ v.circuit # "closed" \/ ~v.channel

(* Of what runs by itself, only a wake-up job brings a disabled account back; *)
(* a health check whose list is older than the order to disable it does not.  *)
DisabledStays ==
  [][\A a \in Accounts :
       account[a].status = "disabled" /\ account'[a].status # "disabled"
         => \/ task' = task
            \/ \E p \in Workers \cup Admins : task[p].stage = "wakeup" /\ task'[p] # task[p]]_vars

(* Where the worker's wake-up stage is enabled, a pending job that is due is  *)
(* run, though ticks may run out of time before they come to it.              *)
DueJobsRun ==
  \A j \in Jobs : wakeups /\ job[j].status = "pending" /\ job[j].due ~> job[j].status # "pending"

=============================================================================
