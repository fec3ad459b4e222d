--------------------------- MODULE OAuthJobsProofs ---------------------------
(* Stale workers change nothing: a worker whose lease_owner is still on the   *)
(* row holds its latest attempt.                                             *)
EXTENDS OAuthJobs, TLAPS

(* Types: one lemma for each of the updates that the actions share.           *)
LEMMA UnleaseTypes ==
  ASSUME TypeOK, NEW j \in Jobs, NEW s \in JobStatuses, Unlease(j, s)
  PROVE  /\ status' \in [Jobs -> JobStatuses \cup {"none"}]
         /\ holder' \in [Jobs -> {Owner[w] : w \in Workers} \cup {NoOwner}]
         /\ attempts' \in [Jobs -> 0 .. MaxAttempts]
         /\ lease' \in [Jobs -> {"null", "live", "expired"}]
BY DEF TypeOK, Unlease

(* A worker that drops its task keeps the types.                              *)
LEMMA DropTypes ==
  ASSUME TypeOK, NEW w \in Workers, Drop(w)
  PROVE  /\ task' \in [Workers -> Jobs \cup {NoJob}]
         /\ turn' \in [Workers -> 0 .. MaxAttempts]
         /\ doing' \in [Workers -> {"run", "fail"}]
BY OAuthAssumption DEF TypeOK, Drop

(* So does one whose task has failed.                                         *)
LEMMA ErrTypes ==
  ASSUME TypeOK, NEW w \in Workers, Err(w)
  PROVE  /\ task' \in [Workers -> Jobs \cup {NoJob}]
         /\ turn' \in [Workers -> 0 .. MaxAttempts]
         /\ doing' \in [Workers -> {"run", "fail"}]
BY DEF TypeOK, Err

(* A lease is given to one of the workers, for one attempt more.              *)
LEMMA LeaseTypes ==
  ASSUME TypeOK, NEW w \in Workers, NEW j \in Jobs, Lease(w, j)
  PROVE  /\ status' \in [Jobs -> JobStatuses \cup {"none"}]
         /\ holder' \in [Jobs -> {Owner[v] : v \in Workers} \cup {NoOwner}]
         /\ attempts' \in [Jobs -> 0 .. MaxAttempts]
         /\ lease' \in [Jobs -> {"null", "live", "expired"}]
         /\ attempts[j] + 1 \in 0 .. MaxAttempts
<1>1. attempts[j] + 1 \in 0 .. MaxAttempts
  BY OAuthAssumption DEF TypeOK, Lease, Claimable
<1>2. attempts' \in [Jobs -> 0 .. MaxAttempts]
  BY <1>1 DEF TypeOK, Lease
<1>3. /\ status' \in [Jobs -> JobStatuses \cup {"none"}]
      /\ holder' \in [Jobs -> {Owner[v] : v \in Workers} \cup {NoOwner}]
      /\ lease' \in [Jobs -> {"null", "live", "expired"}]
  BY DEF TypeOK, Lease, JobStatuses
<1> QED BY <1>1, <1>2, <1>3

(* The types hold before the first job.                                       *)
LEMMA InitTypes == Init => TypeOK
BY OAuthAssumption DEF Init, TypeOK, JobStatuses, AuthStatuses

(* Every step keeps them.                                                     *)
LEMMA NextTypes == TypeOK /\ [Next]_vars => TypeOK'
<1> SUFFICES ASSUME TypeOK, [Next]_vars PROVE TypeOK'
  OBVIOUS
<1> USE DEF rowVars, accountVars, workerVars
<1>1. ASSUME NEW w \in Workers, NEW j \in Jobs, Claim(w, j) PROVE TypeOK'
  <2>1. Lease(w, j) BY <1>1 DEF Claim
  <2>2. turn' \in [Workers -> 0 .. MaxAttempts]
    BY <1>1, <2>1, LeaseTypes DEF Claim, TypeOK
  <2> QED BY <1>1, <2>1, <2>2, LeaseTypes DEF Claim, TypeOK
<1>2. ASSUME NEW w \in Workers, NEW j \in Jobs, ClaimLost(w, j) PROVE TypeOK'
  <2>1. Lease(w, j) BY <1>2 DEF ClaimLost
  <2> QED BY <1>2, <2>1, LeaseTypes DEF ClaimLost, TypeOK
<1>3. ASSUME NEW w \in Workers, Complete(w) PROVE TypeOK'
  <2>1. PICK j \in Jobs : ApplyComplete(j) /\ (Drop(w) \/ Err(w))
    BY <1>3 DEF Complete
  <2>2. Unlease(j, "succeeded") BY <2>1 DEF ApplyComplete
  <2>3. /\ auth' \in AuthStatuses /\ account' \in {"active", "disabled"}
        /\ vault' \in Jobs \cup {NoBundle, "owner"}
    BY <2>1 DEF ApplyComplete, TypeOK, AuthStatuses
  <2> QED BY <2>1, <2>2, <2>3, UnleaseTypes, DropTypes, ErrTypes DEF TypeOK, JobStatuses
<1>4. ASSUME NEW w \in Workers, RunFails(w) PROVE TypeOK'
  BY <1>4, ErrTypes DEF RunFails, TypeOK
<1>5. ASSUME NEW w \in Workers, Fail(w) PROVE TypeOK'
  <2>1. PICK j \in Jobs, s \in JobStatuses : Unlease(j, s) /\ Drop(w)
    BY <1>5 DEF Fail, JobStatuses
  <2>2. auth' \in AuthStatuses /\ UNCHANGED <<account, vault>>
    BY <1>5 DEF Fail, AuthStatuses
  <2> QED BY <2>1, <2>2, UnleaseTypes, DropTypes DEF TypeOK
<1>6. ASSUME NEW w \in Workers, Exit(w) PROVE TypeOK'
  BY <1>6, DropTypes DEF Exit, TypeOK
<1>7. ASSUME NEW j \in Jobs, LeaseExpires(j) PROVE TypeOK'
  BY <1>7 DEF LeaseExpires, TypeOK
<1>8. ASSUME Manage PROVE TypeOK'
  <2>1. ASSUME NEW j \in Jobs, CreateJob(j) PROVE TypeOK'
    <3>1. PICK s \in JobStatuses : Unlease(j, s)
      BY <2>1 DEF CreateJob, Insert, TypeOK, JobStatuses
    <3> QED BY <2>1, <3>1, UnleaseTypes DEF CreateJob, TypeOK
  <2>2. ASSUME NEW j \in Jobs, Reauth(j) PROVE TypeOK'
    BY <2>2, UnleaseTypes DEF Reauth, TypeOK, JobStatuses, AuthStatuses
  <2>3. ASSUME NEW j \in Jobs, Revoke(j) PROVE TypeOK'
    <3>1. Unlease(j, "queued") \/ UNCHANGED rowVars
      BY <2>3 DEF Revoke, Insert
    <3> QED BY <2>3, <3>1, UnleaseTypes DEF Revoke, TypeOK, JobStatuses, AuthStatuses
  <2>4. ASSUME NEW j \in Jobs, NEW s \in {"queued", "canceled"}, PatchJob(j, s) PROVE TypeOK'
    BY <2>4, UnleaseTypes DEF PatchJob, TypeOK, JobStatuses
  <2>5. ASSUME NEW s \in AdminStatuses, PatchAuth(s) PROVE TypeOK'
    <3>1. UNCHANGED rowVars \/ \E j \in Jobs : Unlease(j, "queued")
      BY <2>5 DEF PatchAuth, Insert
    <3> QED BY <2>5, <3>1, UnleaseTypes, OAuthAssumption DEF PatchAuth, TypeOK, JobStatuses
  <2>6. ASSUME NEW s \in {"active", "disabled"}, PatchAccount(s) PROVE TypeOK'
    BY <2>6 DEF PatchAccount, TypeOK
  <2> QED BY <1>8, <2>1, <2>2, <2>3, <2>4, <2>5, <2>6 DEF Manage
<1>9. ASSUME UNCHANGED vars PROVE TypeOK'
  BY <1>9 DEF vars, TypeOK
<1> QED BY <1>1, <1>2, <1>3, <1>4, <1>5, <1>6, <1>7, <1>8, <1>9 DEF Next, Work

(* The columns of oauth_jobs and of the account keep their types; no job is   *)
(* claimed more often than max_attempts (oauthClaimJob).                     *)
THEOREM OAuthTypes == Spec => []TypeOK
<1>1. Init => TypeOK BY InitTypes
<1>2. TypeOK /\ [Next]_vars => TypeOK' BY NextTypes
<1> QED BY <1>1, <1>2, PTL DEF Spec

-----------------------------------------------------------------------------
(* A worker whose name is on the lease of its job has the latest attempt.    *)
LatestAttempt ==
  \A w \in Workers : OwnName(w) =>
    \A j \in Jobs : task[w] = j /\ Leases(w, j) => attempts[j] = turn[w]

(* Nobody has a lease at first.                                               *)
LEMMA InitLatest == Init => LatestAttempt
BY OAuthAssumption DEF Init, LatestAttempt

(* A row that leaves its lease satisfies it, whoever is at work.             *)
LEMMA UnleaseLatest ==
  ASSUME TypeOK, LatestAttempt, NEW j \in Jobs, NEW s, Unlease(j, s),
         \A w \in Workers : task'[w] = NoJob \/ (task'[w] = task[w] /\ turn'[w] = turn[w])
  PROVE  LatestAttempt'
<1> SUFFICES ASSUME NEW w \in Workers, OwnName(w), NEW i \in Jobs, task'[w] = i, Leases(w, i)'
             PROVE  attempts'[i] = turn'[w]
  BY DEF LatestAttempt, OwnName
<1>1. holder'[i] = Owner[w] /\ status'[i] = "leased" BY DEF Leases
<1>2. i # j
  <2> SUFFICES ASSUME i = j PROVE FALSE
    OBVIOUS
  <2>1. holder'[j] = NoOwner BY DEF Unlease, TypeOK
  <2> QED BY <1>1, <2>1, OAuthAssumption
<1>3. task[w] = i /\ turn'[w] = turn[w]
  BY OAuthAssumption
<1>4. Leases(w, i)
  BY <1>1, <1>2 DEF Unlease, TypeOK, Leases
<1>5. attempts[i] = turn[w] BY <1>3, <1>4 DEF LatestAttempt
<1> QED BY <1>3, <1>5 DEF Unlease

(* Only a claim writes a name on a lease, with its attempt.                   *)
LEMMA NextLatest == TypeOK /\ LatestAttempt /\ [Next]_vars => LatestAttempt'
<1> SUFFICES ASSUME TypeOK, LatestAttempt, [Next]_vars PROVE LatestAttempt'
  OBVIOUS
<1> USE DEF rowVars, accountVars, workerVars
<1> DEFINE Kept == \A w \in Workers :
             task'[w] = NoJob \/ (task'[w] = task[w] /\ turn'[w] = turn[w])
<1>a. ASSUME UNCHANGED workerVars PROVE Kept
  BY <1>a
<1>b. ASSUME NEW w \in Workers, Drop(w) \/ Err(w) PROVE Kept
  BY <1>b DEF Drop, Err, TypeOK
<1>c. ASSUME Kept, UNCHANGED <<status, holder, attempts>> PROVE LatestAttempt'
  <2> SUFFICES ASSUME NEW w \in Workers, OwnName(w), NEW i \in Jobs, task'[w] = i, Leases(w, i)'
               PROVE  attempts'[i] = turn'[w]
    BY DEF LatestAttempt, OwnName
  <2>1. task[w] = i /\ turn'[w] = turn[w] BY <1>c, OAuthAssumption
  <2>2. Leases(w, i) BY <1>c DEF Leases
  <2> QED BY <1>c, <2>1, <2>2 DEF LatestAttempt
<1>d. ASSUME NEW w \in Workers, NEW j \in Jobs, Lease(w, j), task[w] = NoJob,
             \A v \in Workers : v # w => task'[v] = task[v] /\ turn'[v] = turn[v],
             task'[w] = NoJob \/ (task'[w] = j /\ turn'[w] = attempts[j] + 1)
      PROVE  LatestAttempt'
  <2> SUFFICES ASSUME NEW v \in Workers, OwnName(v), NEW i \in Jobs, task'[v] = i, Leases(v, i)'
               PROVE  attempts'[i] = turn'[v]
    BY DEF LatestAttempt, OwnName
  <2>1. CASE i = j
    <3>1. holder'[j] = Owner[w] /\ attempts'[j] = attempts[j] + 1
      BY <1>d DEF Lease, TypeOK
    <3>2. Owner[v] = Owner[w] BY <2>1, <3>1 DEF Leases
    <3>3. v = w BY <3>2 DEF OwnName
    <3> QED BY <1>d, <2>1, <3>1, <3>3, OAuthAssumption
  <2>2. CASE i # j
    <3>1. v # w BY <1>d, <2>2, OAuthAssumption
    <3>2. task[v] = i /\ turn'[v] = turn[v] BY <1>d, <3>1
    <3>3. Leases(v, i) /\ attempts'[i] = attempts[i]
      BY <1>d, <2>2 DEF Leases, Lease, TypeOK
    <3> QED BY <3>2, <3>3 DEF LatestAttempt
  <2> QED BY <2>1, <2>2
<1>1. ASSUME NEW w \in Workers, NEW j \in Jobs, Claim(w, j) PROVE LatestAttempt'
  <2>1. task'[w] = j /\ turn'[w] = attempts[j] + 1 BY <1>1 DEF Claim, TypeOK
  <2>2. \A v \in Workers : v # w => task'[v] = task[v] /\ turn'[v] = turn[v]
    BY <1>1 DEF Claim, TypeOK
  <2> QED BY <1>1, <2>1, <2>2, <1>d DEF Claim
<1>2. ASSUME NEW w \in Workers, NEW j \in Jobs, ClaimLost(w, j) PROVE LatestAttempt'
  BY <1>2, <1>d DEF ClaimLost
<1>3. ASSUME NEW w \in Workers, Complete(w) PROVE LatestAttempt'
  BY <1>3, <1>b, UnleaseLatest DEF Complete, ApplyComplete
<1>4. ASSUME NEW w \in Workers, RunFails(w) \/ Exit(w) PROVE LatestAttempt'
  BY <1>4, <1>b, <1>c DEF RunFails, Exit
<1>5. ASSUME NEW w \in Workers, Fail(w) PROVE LatestAttempt'
  BY <1>5, <1>b, UnleaseLatest DEF Fail
<1>6. ASSUME NEW j \in Jobs, LeaseExpires(j) PROVE LatestAttempt'
  BY <1>6, <1>a, <1>c DEF LeaseExpires
<1>7. ASSUME Manage PROVE LatestAttempt'
  <2>1. Kept BY <1>7, <1>a DEF Manage, CreateJob, Reauth, Revoke, PatchJob, PatchAuth, PatchAccount
  <2>2. UNCHANGED rowVars \/ \E j \in Jobs : \E s : Unlease(j, s)
    BY <1>7 DEF Manage, CreateJob, Insert, Reauth, Revoke, PatchJob, PatchAuth, PatchAccount
  <2> QED BY <2>1, <2>2, <1>c, UnleaseLatest
<1>8. ASSUME UNCHANGED vars PROVE LatestAttempt'
  BY <1>8, <1>a, <1>c DEF vars
<1> QED BY <1>1, <1>2, <1>3, <1>4, <1>5, <1>6, <1>7, <1>8 DEF Next, Work

-----------------------------------------------------------------------------
(* A stale worker's lease_owner is on no lease of its job.                    *)
LEMMA StaleHasNoLease ==
  ASSUME LatestAttempt, NEW w \in Workers, OwnName(w), Stale(w), NEW j \in Jobs, task[w] = j
  PROVE  ~ Leases(w, j)
BY DEF LatestAttempt, Stale, Leases

(* A step in which a worker's task or what it does changes is its own.       *)
LEMMA StepStale ==
  ASSUME TypeOK, LatestAttempt, [Next]_vars, NEW w \in Workers, OwnName(w), Stale(w),
         <<task[w], doing[w]>>' # <<task[w], doing[w]>>
  PROVE  UNCHANGED <<rowVars, accountVars>>
<1> USE DEF rowVars, accountVars, workerVars
<1>0. task[w] # NoJob BY DEF Stale
<1>1. ASSUME NEW v \in Workers, v # w, Work(v) PROVE FALSE
  BY <1>1 DEF Work, Claim, Complete, RunFails, Fail, Exit, Drop, Err, TypeOK
<1>2. ASSUME NEW v \in Workers, NEW j \in Jobs, ClaimLost(v, j) PROVE FALSE
  BY <1>2 DEF ClaimLost
<1>3. ASSUME \/ \E j \in Jobs : LeaseExpires(j)
             \/ Manage
             \/ UNCHANGED vars
      PROVE  FALSE
  BY <1>3 DEF LeaseExpires, Manage, CreateJob, Reauth, Revoke, PatchJob, PatchAuth,
              PatchAccount, vars
<1>4. ASSUME Work(w) PROVE UNCHANGED <<rowVars, accountVars>>
  <2>1. ASSUME NEW j \in Jobs, Claim(w, j) PROVE FALSE
    BY <1>0, <2>1 DEF Claim
  <2>2. ~ Complete(w) BY StaleHasNoLease DEF Complete
  <2>3. ~ Fail(w) BY StaleHasNoLease DEF Fail
  <2> QED BY <1>4, <2>1, <2>2, <2>3 DEF Work, RunFails, Exit
<1> QED BY <1>1, <1>2, <1>3, <1>4 DEF Next

(* Nothing a stale worker reports touches its job or the account             *)
(* (oauthJobComplete, oauthJobFail), for any number of workers, jobs and     *)
(* attempts.                                                                 *)
THEOREM StaleWorkersAreHarmless == Spec => StaleWorkersChangeNothing
<1>1. Init => TypeOK /\ LatestAttempt BY InitTypes, InitLatest
<1>2. TypeOK /\ LatestAttempt /\ [Next]_vars => TypeOK' /\ LatestAttempt'
  BY NextTypes, NextLatest
<1>3. TypeOK /\ LatestAttempt /\ [Next]_vars
        => [\A w \in Workers :
              OwnName(w) /\ Stale(w) /\ <<task[w], doing[w]>>' # <<task[w], doing[w]>>
                => UNCHANGED <<rowVars, accountVars>>]_vars
  BY StepStale
<1> QED BY <1>1, <1>2, <1>3, PTL DEF Spec, StaleWorkersChangeNothing

=============================================================================
