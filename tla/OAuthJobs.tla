------------------------------ MODULE OAuthJobs ------------------------------
(***************************************************************************)
(* The OAuth jobs of one account (oauth_jobs, oauth.go) and the worker      *)
(* processes that lease them (runner.mjs): a worker claims a job, runs it    *)
(* outside the database, and reports its end under its lease.  Meanwhile the *)
(* lease expires, the worker dies, answers are lost, and the account's owner *)
(* and administrators queue, cancel and replace jobs.                       *)
(***************************************************************************)
EXTENDS Naturals

CONSTANTS Jobs,          \* rows of oauth_jobs, one for each idempotency key
          Kind,          \* job_type of each
          Workers,       \* worker processes
          Owner,         \* the lease_owner each worker sends
          MaxAttempts,   \* max_attempts
          AdminStatuses, \* bound: the auth states administrators set
          NoJob, NoOwner, NoBundle

JobTypes == {"onboarding", "refresh", "reauth", "revoke"}

(* validateAuthStatus *)
AuthStatuses == {"pending", "active", "refresh_due", "reauth_required",
                 "revoked", "failed", "disabled"}

ASSUME OAuthAssumption == /\ Kind \in [Jobs -> JobTypes]
                          /\ AdminStatuses \subseteq AuthStatuses
                          /\ \A w \in Workers : Owner[w] # NoOwner
                          /\ MaxAttempts \in Nat \ {0}
                          /\ {NoJob, NoBundle} \cap Jobs = {}

VARIABLES status, holder, attempts,  \* status, lease_owner, attempt_count
          lease,        \* leased_until: NULL, still to come, or past
          auth,         \* account_auth_states.auth_status
          account,      \* accounts.status
          vault,        \* the job whose tokens the account has
          task,         \* the job each worker has been given
          turn,         \* the attempt_count it was given with
          doing         \* what the worker does next: run or report an error

rowVars == <<status, holder, attempts, lease>>

accountVars == <<auth, account, vault>>

workerVars == <<task, turn, doing>>

vars == <<rowVars, accountVars, workerVars>>

JobStatuses == {"queued", "leased", "succeeded", "failed", "canceled"}

TypeOK == /\ status \in [Jobs -> JobStatuses \cup {"none"}]
          /\ holder \in [Jobs -> {Owner[w] : w \in Workers} \cup {NoOwner}]
          /\ attempts \in [Jobs -> 0 .. MaxAttempts]
          /\ lease \in [Jobs -> {"null", "live", "expired"}]
          /\ auth \in AuthStatuses
          /\ account \in {"active", "disabled"}
          /\ vault \in Jobs \cup {NoBundle, "owner"}
          /\ task \in [Workers -> Jobs \cup {NoJob}]
          /\ turn \in [Workers -> 0 .. MaxAttempts]
          /\ doing \in [Workers -> {"run", "fail"}]

(* portalCreateOAuthAccount: with the owner's tokens, or with a job to get    *)
(* them.                                                                     *)
Init == /\ \/ /\ auth = "active" /\ vault = "owner"
              /\ status = [j \in Jobs |-> "none"]
           \/ /\ auth = "pending" /\ vault = NoBundle
              /\ status = [j \in Jobs |-> IF Kind[j] = "onboarding" THEN "queued" ELSE "none"]
        /\ account = "active"
        /\ holder = [j \in Jobs |-> NoOwner]
        /\ attempts = [j \in Jobs |-> 0]
        /\ lease = [j \in Jobs |-> "null"]
        /\ task = [w \in Workers |-> NoJob]
        /\ turn = [w \in Workers |-> 0]
        /\ doing = [w \in Workers |-> "run"]

(* A job leaves its lease with the given status.                             *)
Unlease(j, s) ==
  /\ status' = [status EXCEPT ![j] = s]
  /\ holder' = [holder EXCEPT ![j] = NoOwner]
  /\ lease' = [lease EXCEPT ![j] = "null"]
  /\ UNCHANGED attempts

Insert(j) == status[j] = "none" /\ Unlease(j, "queued")

-----------------------------------------------------------------------------
(* A worker claims a job *)

(* Seeded bugs: attempts are not limited; an expired lease is not taken over. *)
Claimable_Unlimited(j) == status[j] = "queued"

Claimable_NoTakeOver(j) == status[j] = "queued" /\ attempts[j] < MaxAttempts

Claimable(j) ==
  /\ status[j] = "queued" \/ (status[j] = "leased" /\ lease[j] = "expired")
  /\ attempts[j] < MaxAttempts

Lease(w, j) ==
  /\ Claimable(j)
  /\ status' = [status EXCEPT ![j] = "leased"]
  /\ holder' = [holder EXCEPT ![j] = Owner[w]]
  /\ lease' = [lease EXCEPT ![j] = "live"]
  /\ attempts' = [attempts EXCEPT ![j] = @ + 1]

(* oauthClaimJob.  The order of the queue is left open.                      *)
Claim(w, j) ==
  /\ task[w] = NoJob
  /\ Lease(w, j)
  /\ task' = [task EXCEPT ![w] = j]
  /\ turn' = [turn EXCEPT ![w] = attempts[j] + 1]
  /\ doing' = [doing EXCEPT ![w] = "run"]
  /\ UNCHANGED accountVars

(* The job is leased but the answer does not arrive: the worker exits.        *)
ClaimLost(w, j) ==
  /\ task[w] = NoJob
  /\ Lease(w, j)
  /\ UNCHANGED <<accountVars, workerVars>>

-----------------------------------------------------------------------------
(* A worker ends its job *)

(* The worker forgets the job, after its report or because it has exited     *)
(* (runLoop catches nothing) and been started again.                         *)
Drop(w) == /\ task' = [task EXCEPT ![w] = NoJob]
           /\ turn' = [turn EXCEPT ![w] = 0]
           /\ doing' = [doing EXCEPT ![w] = "run"]

(* Once its complete has failed, the worker reports an error (runOnce).      *)
Err(w) == doing' = [doing EXCEPT ![w] = "fail"] /\ UNCHANGED <<task, turn>>

(* Seeded bug: the lease is looked for by the job's id alone.                 *)
Leases_Anyone(w, j) == status[j] = "leased"

Leases(w, j) == status[j] = "leased" /\ holder[j] = Owner[w]

(* oauthJobComplete: tokens are stored and the account is active, or its     *)
(* revocation is recorded.                                                   *)
ApplyComplete(j) ==
  /\ Unlease(j, "succeeded")
  /\ IF Kind[j] = "revoke"
     THEN auth' = "revoked" /\ account' = "disabled" /\ UNCHANGED vault
     ELSE auth' = "active" /\ vault' = j /\ UNCHANGED account

(* The report may commit without its answer arriving at the worker.          *)
Complete(w) == \E j \in Jobs :
  /\ task[w] = j /\ doing[w] = "run"
  /\ Leases(w, j) /\ lease[j] = "live"
  /\ ApplyComplete(j)
  /\ Drop(w) \/ Err(w)

(* The job fails, or its completion is refused: the lease has ended, the     *)
(* bundle has no token, or the transaction fails.                            *)
RunFails(w) ==
  /\ task[w] # NoJob /\ doing[w] = "run"
  /\ Err(w)
  /\ UNCHANGED <<rowVars, accountVars>>

(* oauthJobFail: it does not look at leased_until.  A revocation without a   *)
(* token is reported as "revoked" (strategies.mjs).                          *)
Fail(w) == \E j \in Jobs, terminal \in BOOLEAN :
  /\ task[w] = j /\ doing[w] = "fail"
  /\ Leases(w, j)
  /\ Unlease(j, IF terminal \/ attempts[j] >= MaxAttempts THEN "failed" ELSE "queued")
  /\ auth' = "reauth_required" \/ (Kind[j] = "revoke" /\ terminal /\ auth' = "revoked")
  /\ Drop(w)
  /\ UNCHANGED <<account, vault>>

(* oauthJobFail answers "OAuth job lease is not active", or the report is    *)
(* lost, or the worker dies at any point of its job.                         *)
Exit(w) ==
  /\ task[w] # NoJob
  /\ Drop(w)
  /\ UNCHANGED <<rowVars, accountVars>>

LeaseExpires(j) ==
  /\ lease[j] = "live"
  /\ lease' = [lease EXCEPT ![j] = "expired"]
  /\ UNCHANGED <<status, holder, attempts, accountVars, workerVars>>

-----------------------------------------------------------------------------
(* The account's owner and the administrators *)

(* adminCreateOAuthJob: an existing row keeps its status and loses its lease. *)
CreateJob(j) ==
  /\ Insert(j) \/ (status[j] # "none" /\ Unlease(j, status[j]))
  /\ UNCHANGED <<accountVars, workerVars>>

(* adminPatchOAuthJob *)
PatchJob(j, s) ==
  /\ status[j] # "none" /\ s \in {"queued", "canceled"}
  /\ Unlease(j, s)
  /\ UNCHANGED <<accountVars, workerVars>>

(* queueJobTypeForStatus *)
TypeForStatus(s) == CASE s = "revoked"         -> "revoke"
                      [] s = "reauth_required" -> "reauth"
                      [] s = "refresh_due"     -> "refresh"
                      [] OTHER                 -> "onboarding"

(* adminPatchAccountAuthState, with or without a job under a key of its own.  *)
PatchAuth(s) ==
  /\ auth' = s
  /\ \/ UNCHANGED rowVars
     \/ \E j \in Jobs : Kind[j] = TypeForStatus(s) /\ Insert(j)
  /\ UNCHANGED <<account, vault, workerVars>>

(* adminPatchAccount *)
PatchAccount(s) ==
  /\ account' = s
  /\ UNCHANGED <<auth, vault, rowVars, workerVars>>

(* portalReauthOAuthAccount: the one row for this account and auth mode is   *)
(* queued again, whatever became of it; attempt_count stays.                 *)
Reauth(j) ==
  /\ Kind[j] = "reauth"
  /\ auth' = "reauth_required"
  /\ Unlease(j, "queued")
  /\ UNCHANGED <<account, vault, workerVars>>

(* portalRevokeOAuthAccount: a row that exists is left as it is.             *)
Revoke(j) ==
  /\ Kind[j] = "revoke"
  /\ account' = "disabled" /\ auth' = "revoked"
  /\ Insert(j) \/ (status[j] # "none" /\ UNCHANGED rowVars)
  /\ UNCHANGED <<vault, workerVars>>

-----------------------------------------------------------------------------
Work(w) == \/ \E j \in Jobs : Claim(w, j)
           \/ Complete(w) \/ RunFails(w) \/ Fail(w) \/ Exit(w)

Manage == \/ \E j \in Jobs : \/ CreateJob(j) \/ Reauth(j) \/ Revoke(j)
                             \/ \E s \in {"queued", "canceled"} : PatchJob(j, s)
          \/ \E s \in AdminStatuses : PatchAuth(s)
          \/ \E s \in {"active", "disabled"} : PatchAccount(s)

Next == \/ \E w \in Workers : Work(w) \/ \E j \in Jobs : ClaimLost(w, j)
        \/ \E j \in Jobs : LeaseExpires(j)
        \/ Manage

Spec == Init /\ [][Next]_vars

(* While there is work for any worker, some worker does some of it: it polls *)
(* (runLoop) and comes to the end of what it runs (device codes and callbacks *)
(* time out).  A worker exits on a refused report and nothing in the         *)
(* repository starts it again: this assumes that its operator does.          *)
ServedSpec == Spec /\ WF_vars(\E w \in Workers : Work(w))

-----------------------------------------------------------------------------
(* Properties *)

OwnName(w) == \A v \in Workers : Owner[v] = Owner[w] => v = w

(* The job a worker was given has been taken by another worker, queued       *)
(* again, canceled, or ended.                                                *)
Stale(w) == task[w] # NoJob /\ (status[task[w]] # "leased" \/ attempts[task[w]] # turn[w])

(* Whatever a stale worker reports (oauthJobComplete, oauthJobFail), it       *)
(* touches neither the job nor the account, provided that no other worker    *)
(* uses its lease_owner: also when its own completion was committed and it    *)
(* then reports an error because the answer was lost.                        *)
StaleWorkersChangeNothing ==
  [][\A w \in Workers :
       OwnName(w) /\ Stale(w) /\ <<task[w], doing[w]>>' # <<task[w], doing[w]>>
         => UNCHANGED <<rowVars, accountVars>>]_vars

Waiting(j) == /\ status[j] = "queued" \/ lease[j] = "expired"
              /\ attempts[j] < MaxAttempts

(* A job with attempts left that is queued, or whose worker has let the lease *)
(* pass, is claimed (oauthClaimJob), unless it is ended or canceled first.    *)
WaitingIsTaken == \A j \in Jobs : Waiting(j) ~> ~ Waiting(j)

(* The portal says of Reauth "added to the re-authorization queue": then the *)
(* job leaves the queue some time.                                           *)
QueuedIsTaken == \A j \in Jobs : status[j] = "queued" ~> status[j] # "queued"

=============================================================================
