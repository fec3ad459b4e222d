----------------------------- MODULE Catalogue -----------------------------
(* The model catalogue: models and their prices, aliases, what each channel   *)
(* says it can serve, and the jobs that ask the upstreams for their models.   *)
(* A writer is a run of one HTTP request of an administrator; a lock is that  *)
(* of a row of model_catalog, held until its transaction ends.                *)
EXTENDS Integers, FiniteSets

CONSTANTS Names, Endpoints, Channels, Writers,
          Orders,        \* bodies of a model: [mode, expr, aliases, status, visible, caps]
          Answers,       \* what an upstream lists: sets of [name, endpoints]
          Defaults,      \* defaultSyncEndpoints of the provider
          Settings,      \* catalogues to begin with: [model, price, channel, ability]
          NoName, Nobody, MaxRequests

VARIABLES model,    \* [Names -> [status, visible, caps]]: model_catalog
          price,    \* [Names -> [mode, expr]]: model_pricing_overrides
          alias,    \* [Names -> Names]: model_aliases, or NoName
          channel,  \* [Channels -> status], or "none"
          ability,  \* [Channels \X Names \X Endpoints -> upstream_model], or NoName
          lock,     \* [Names -> Writers], or Nobody
          job,      \* [Writers -> the model_sync_job it made last]
          task,     \* [Writers -> [stage, name, order, rest, channel, found, report]]
          requests

vars == <<model, price, alias, channel, ability, lock, job, task, requests>>

Keep      == "keep"          \* a field that the body leaves out; {} for a list, or {list}
Exprs     == {"", "bad", "good"}
Modes     == {"standard", "tiered_expr"}
Abilities == Channels \X Names \X Endpoints

NoModel  == [status |-> "none", visible |-> "hidden", caps |-> {}]
NoReport == [added |-> {}, updated |-> {}, missing |-> {}, kept |-> {}]

Standard == [mode |-> "standard", expr |-> ""]

(* calm: no other request wrote abilities of the channel since the job read   *)
(* them.                                                                      *)
Unasked == [status |-> "none", channel |-> "none", report |-> NoReport, calm |-> FALSE]
Idle  == [stage |-> "idle", name |-> NoName, order |-> NoName, rest |-> {},
          channel |-> "none", found |-> {}, report |-> NoReport]

Exists(n) == model[n].status # "none"
Free(n)   == lock[n] = Nobody

ModelRows == [status : {"none", "active", "disabled"}, visible : {"public", "hidden"}, caps : SUBSET Endpoints]
PriceRows == [mode : Modes, expr : Exprs]
Offers    == {"none", "active", "disabled", "cooldown"}

TypeOK ==
  /\ model \in [Names -> ModelRows] /\ price \in [Names -> PriceRows]
  /\ \A n \in Names : alias[n] \in Names \cup {NoName} /\ lock[n] \in Writers \cup {Nobody}
  /\ channel \in [Channels -> Offers]
  /\ ability \in [Abilities -> Names \cup {NoName}]
  /\ \A w \in Writers : /\ job[w].status \in {"none", "pending", "running", "success", "failed"}
                        /\ task[w].rest \subseteq Channels
  /\ requests \in 0 .. MaxRequests

Init ==
  /\ \E s \in Settings : /\ model = s.model /\ price = s.price
                          /\ channel = s.channel /\ ability = s.ability
  /\ alias = [n \in Names |-> NoName]
  /\ lock = [n \in Names |-> Nobody] /\ job = [w \in Writers |-> Unasked]
  /\ task = [w \in Writers |-> Idle] /\ requests = 0

Request     == requests < MaxRequests /\ requests' = requests + 1
Go(w, t)    == task' = [task EXCEPT ![w] = t]
Begin(w, t) == Request /\ task[w] = Idle /\ Go(w, t)
In(w, st)   == task[w].stage = st /\ UNCHANGED requests

-----------------------------------------------------------------------------
(* upsertModel.                                                               *)
Given(x, old)  == IF x = Keep THEN old ELSE x
Listed(x, old) == IF x = {} THEN old ELSE UNION x

(* An alias that another model has is taken from it; its own name is skipped. *)
Aliased(n, names) ==
  [s \in Names |-> IF s \in UNION names \ {n} THEN n
                   ELSE IF names # {} /\ alias[s] = n THEN NoName ELSE alias[s]]

Prices(o)      == o.mode # Keep \/ o.expr # Keep
Repriced(o, p) == [mode |-> Given(o.mode, p.mode), expr |-> Given(o.expr, p.expr)]
Usable(p)      == p.mode = "tiered_expr" => p.expr = "good"
Written(o, m)  == [status |-> Given(o.status, m.status), visible |-> Given(o.visible, m.visible),
                   caps |-> Listed(o.caps, m.caps)]

CreateModel(n, o) ==
  /\ Request /\ ~Exists(n) /\ Usable(Repriced(o, Standard))
  /\ model' = [model EXCEPT ![n] = Written(o, [status |-> "active", visible |-> "public", caps |-> {}])]
  /\ price' = [price EXCEPT ![n] = Repriced(o, Standard)]
  /\ alias' = Aliased(n, o.aliases)
  /\ UNCHANGED <<channel, ability, lock, job, task>>

(* The UPDATE of the model comes first and waits for the row.                 *)
LockModel_AfterPrice(w, n, o) ==
  /\ Exists(n)
  /\ Begin(w, [Idle EXCEPT !.stage = "price", !.name = n, !.order = o])
  /\ UNCHANGED <<model, price, alias, channel, ability, lock, job>>

LockModel(w, n, o) ==
  /\ Exists(n) /\ Free(n)
  /\ Begin(w, [Idle EXCEPT !.stage = "price", !.name = n, !.order = o])
  /\ lock' = [lock EXCEPT ![n] = w]
  /\ UNCHANGED <<model, price, alias, channel, ability, job>>

(* What the body leaves out is read, and the two together must be usable.     *)
ReadPrice(w) ==
  LET t == task[w]
  IN  /\ In(w, "price")
      /\ ~Prices(t.order) \/ Usable(Repriced(t.order, price[t.name]))
      /\ Go(w, [t EXCEPT !.stage = "commit"])
      /\ UNCHANGED <<model, price, alias, channel, ability, lock, job>>

(* Only the fields of the body are written.                                   *)
CommitModel(w) ==
  LET n == task[w].name
      o == task[w].order
  IN  /\ In(w, "commit") /\ Go(w, Idle)
      /\ model' = [model EXCEPT ![n] = Written(o, @)]
      /\ price' = [price EXCEPT ![n] = Repriced(o, @)]
      /\ alias' = Aliased(n, o.aliases)
      /\ lock' = [lock EXCEPT ![n] = Nobody]
      /\ UNCHANGED <<channel, ability, job>>

(* adminModelBatch: names it does not know are passed over.                   *)
BatchModels(ns, status, visible) ==
  /\ Request /\ \A n \in ns : Free(n)
  /\ model' = [n \in Names |->
                 IF n \in ns /\ Exists(n)
                 THEN [model[n] EXCEPT !.status = Given(status, @), !.visible = Given(visible, @)]
                 ELSE model[n]]
  /\ UNCHANGED <<price, alias, channel, ability, lock, job, task>>

-----------------------------------------------------------------------------
(* Channels and what they serve.                                              *)
Discovered(n, es) ==
  [model EXCEPT ![n] = IF Exists(n) THEN [model[n] EXCEPT !.caps = @ \cup es]
                       ELSE [NoModel EXCEPT !.status = "active", !.caps = es]]

Disturbed(c) == [w \in Writers |-> IF job[w].channel = c THEN [job[w] EXCEPT !.calm = FALSE] ELSE job[w]]

(* In one transaction, or without abilities.                                  *)
CreateChannel(c, n, e, up) ==
  /\ Request /\ channel[c] = "none" /\ Free(n)
  /\ channel' = [channel EXCEPT ![c] = "active"]
  /\ model' = Discovered(n, {e})
  /\ ability' = [ability EXCEPT ![<<c, n, e>>] = up]
  /\ UNCHANGED <<price, alias, lock, job, task>>

PatchChannel(c, status) ==
  /\ Request /\ channel[c] # "none"
  /\ channel' = [channel EXCEPT ![c] = status]
  /\ UNCHANGED <<model, price, alias, ability, lock, job, task>>

(* adminPatchChannel: each statement for itself.                              *)
EnsureModel(w, c, n, e, up) ==
  /\ channel[c] # "none" /\ Free(n)
  /\ Begin(w, [Idle EXCEPT !.stage = "ability", !.channel = c, !.name = n, !.found = {<<n, e, up>>}])
  /\ model' = Discovered(n, {e})
  /\ UNCHANGED <<price, alias, channel, ability, lock, job>>

PutAbility(w) ==
  LET c == task[w].channel
  IN  /\ In(w, "ability") /\ Go(w, Idle)
      /\ \E f \in task[w].found : ability' = [ability EXCEPT ![<<c, f[1], f[2]>>] = f[3]]
      /\ job' = Disturbed(c)
      /\ UNCHANGED <<model, price, alias, channel, lock>>

(* adminMissingModels and adminModelSyncFromChannels.                         *)
Missing == {ability[k] : k \in {k \in Abilities : ability[k] # NoName /\ ~Exists(ability[k])}}

SyncFromChannels ==
  /\ Request
  /\ model' = [n \in Names |->
                 IF n \in Missing
                 THEN [NoModel EXCEPT !.status = "active",
                                      !.caps = {k[3] : k \in {k \in Abilities : ability[k] = n}}]
                 ELSE model[n]]
  /\ UNCHANGED <<price, alias, channel, ability, lock, job, task>>

-----------------------------------------------------------------------------
(* Jobs, one channel after the other; a list without channels is that of the  *)
(* active ones.                                                               *)
Listing(items) ==
  UNION {{i.name} \X (IF i.endpoints = {} THEN Defaults ELSE i.endpoints) :
           i \in {i \in items : i.name # NoName}}

RunJobs(w, cs) ==
  /\ Begin(w, [Idle EXCEPT !.stage = "jobs",
                 !.rest = IF cs = {} THEN {c \in Channels : channel[c] = "active"} ELSE cs])
  /\ UNCHANGED <<model, price, alias, channel, ability, lock, job>>

CreateJob(w) ==
  /\ In(w, "jobs")
  /\ \E c \in task[w].rest :
       /\ channel[c] # "none"
       /\ job' = [job EXCEPT ![w] = [Unasked EXCEPT !.status = "pending", !.channel = c]]
       /\ Go(w, [task[w] EXCEPT !.stage = "start", !.channel = c, !.rest = @ \ {c}])
  /\ UNCHANGED <<model, price, alias, channel, ability, lock>>

EndJobs(w) ==
  /\ In(w, "jobs") /\ \A c \in task[w].rest : channel[c] = "none"
  /\ Go(w, Idle)
  /\ UNCHANGED <<model, price, alias, channel, ability, lock, job>>

StartJob(w) ==
  /\ In(w, "start") /\ Go(w, [task[w] EXCEPT !.stage = "discover"])
  /\ job' = [job EXCEPT ![w].status = "running"]
  /\ UNCHANGED <<model, price, alias, channel, ability, lock>>

FailJob(w) ==
  /\ task[w].stage \in {"discover", "apply"} /\ UNCHANGED requests
  /\ Go(w, [Idle EXCEPT !.stage = "jobs", !.rest = task[w].rest])
  /\ job' = [job EXCEPT ![w].status = "failed"]
  /\ UNCHANGED <<model, price, alias, channel, ability, lock>>

(* diffChannelModels                                                          *)
Differences(c, found) ==
  LET has   == {x \in Names \X Endpoints : ability[<<c, x[1], x[2]>>] # NoName}
      maps(x) == ability[<<c, x[1], x[2]>>] = x[1]
  IN  [added |-> found \ has, updated |-> {x \in found \cap has : ~maps(x)},
       kept |-> {x \in found \cap has : maps(x)}, missing |-> has \ found]

(* The answer, and the abilities as they are then, outside of the transaction *)
(* that applies it.                                                           *)
Discover(w, items) ==
  LET c == task[w].channel
  IN  /\ In(w, "discover")
      /\ Go(w, [task[w] EXCEPT !.stage = "apply", !.found = Listing(items),
                               !.report = Differences(c, Listing(items))])
      /\ job' = [job EXCEPT ![w].calm = TRUE]
      /\ UNCHANGED <<model, price, alias, channel, ability, lock>>

(* A model that is there keeps its status, its visibility, its price and what *)
(* it is said to be capable of; a mapping made by hand is overwritten.        *)
ApplySync(w) ==
  LET t == task[w]
      names == {x[1] : x \in t.found}
  IN  /\ In(w, "apply") /\ \A n \in names : Free(n)
      /\ model' = [n \in Names |->
                     IF n \in names /\ ~Exists(n)
                     THEN [NoModel EXCEPT !.status = "active",
                                          !.caps = {x[2] : x \in {x \in t.found : x[1] = n}}]
                     ELSE model[n]]
      /\ ability' = [k \in Abilities |->
                       IF k[1] = t.channel /\ <<k[2], k[3]>> \in t.found THEN k[2] ELSE ability[k]]
      /\ job' = [Disturbed(t.channel) EXCEPT
                   ![w] = [job[w] EXCEPT !.status = "success", !.report = t.report]]
      /\ Go(w, [Idle EXCEPT !.stage = "jobs", !.rest = t.rest])
      /\ UNCHANGED <<price, alias, channel, lock>>

(* A refusal or a failing statement rolls back; a request that dies leaves    *)
(* its job as it is.                                                          *)
Drop(w) ==
  /\ task[w].stage # "idle" /\ Go(w, Idle)
  /\ lock' = [n \in Names |-> IF lock[n] = w THEN Nobody ELSE lock[n]]
  /\ UNCHANGED <<model, price, alias, channel, ability, job, requests>>

-----------------------------------------------------------------------------
Work(w) ==
  \/ ReadPrice(w) \/ CommitModel(w) \/ PutAbility(w) \/ Drop(w)
  \/ CreateJob(w) \/ EndJobs(w) \/ StartJob(w) \/ FailJob(w) \/ ApplySync(w)
  \/ \E items \in Answers : Discover(w, items)

Asked(w) ==
  \/ \E cs \in SUBSET Channels : RunJobs(w, cs)
  \/ \E n \in Names, o \in Orders : LockModel(w, n, o)
  \/ \E c \in Channels, n \in Names, e \in Endpoints, up \in Names : EnsureModel(w, c, n, e, up)

AtOnce ==
  \/ SyncFromChannels
  \/ \E n \in Names, o \in Orders : CreateModel(n, o)
  \/ \E ns \in SUBSET Names, s \in {Keep, "active", "disabled"}, v \in {Keep, "public", "hidden"} :
       BatchModels(ns, s, v)
  \/ \E c \in Channels :
       \/ \E s \in {"active", "disabled", "cooldown"} : PatchChannel(c, s)
       \/ \E n \in Names, e \in Endpoints, up \in Names : CreateChannel(c, n, e, up)

Next == AtOnce \/ \E w \in Writers : Asked(w) \/ Work(w)

Spec == Init /\ [][Next]_vars

-----------------------------------------------------------------------------
(* Two patches of a model never leave it priced by an expression that is not  *)
(* there or does not evaluate, though each checks only what it read and writes*)
(* only what it was given (upsertModelPricingOverrideTx).                     *)
PricingIsUsable == \A n \in Names : Usable(price[n])

(* The report of a sync that nobody disturbed tells the channel's abilities:  *)
(* what was found is there under its own name, and the missing is left        *)
(* (runChannelModelSync, diffChannelModels).                                  *)
ReportsAreTrue ==
  \A w \in Writers :
    LET j == job[w]
        r == j.report
        found == r.added \cup r.updated \cup r.kept
        at(x) == ability[<<j.channel, x[1], x[2]>>]
    IN  j.status = "success" /\ j.calm =>
          /\ \A x \in found : at(x) = x[1]
          /\ {x \in Names \X Endpoints : at(x) # NoName} = found \cup r.missing
          /\ found \cap r.missing = {}

CatalogueIsUsable == PricingIsUsable /\ ReportsAreTrue
=============================================================================
