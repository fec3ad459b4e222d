----------------------------- MODULE Northbound -----------------------------
(***************************************************************************)
(* A relay call from end to end (northboundProxy and streamUpstream in      *)
(* northbound.go): its request id is claimed, money is reserved (module      *)
(* Wallet), an upstream account is used (module AccountPool), the           *)
(* reservation is settled or released, and the outcome is written to        *)
(* usage_records and to the claim.  Each of these is a transaction of its    *)
(* own; a fault between any two leaves the earlier ones in place.           *)
(***************************************************************************)
EXTENDS Integers, FiniteSets

CONSTANTS Calls,        \* HTTP calls that reach a handler
          Ids,          \* request ids (with one API key)
          Sent,         \* [Calls -> Ids], the X-Request-Id of each call
          Streaming,    \* the calls that ask for a stream
          NoUsage,      \* no usage record
          MaxAmount, MaxBalance,                                  \* of Wallet
          Accounts, NoAccount, MaxConcurrency, Threshold,
          MaxAttempts, MaxQuota                                   \* of AccountPool

Finals == {"success", "failed", "rejected"}

Costs == 0 .. MaxAmount

UsageRows == [call : Calls, status : Finals, cost : Costs]

ASSUME NorthboundAssumption ==
  /\ Sent \in [Calls -> Ids]
  /\ Streaming \subseteq Calls
  /\ IsFiniteSet(Calls) /\ IsFiniteSet(Accounts)
  /\ NoAccount \notin Accounts /\ NoUsage \notin UsageRows
  /\ MaxAmount \in Nat /\ MaxBalance \in Nat
  /\ MaxConcurrency \in [Accounts -> Nat \ {0}]
  /\ {Threshold, MaxAttempts, MaxQuota} \subseteq Nat \ {0}

VARIABLES step,         \* where the handler of each call is
          result,       \* the status it is going to record
          cost,         \* the actual cost it is going to record
          relayed,      \* the calls whose stream reached the client
          claim,        \* northbound_idempotency_keys.status, "none" without a row
          expired,      \* the ids whose row has been deleted (not in the code)
          usage         \* usage_records, unique by request id

VARIABLES balance, reserved, stage, hold, entries                 \* of Wallet

VARIABLES inService, active, cooling, circuit, probeable, failures, quota,
          phase, route, excluded, answered, lost                  \* of AccountPool

W == INSTANCE Wallet WITH Requests <- Calls

P == INSTANCE AccountPool WITH Requests <- Calls

walletVars == <<balance, reserved, stage, hold, entries>>

poolVars == <<inService, active, cooling, circuit, probeable, failures, quota,
              phase, route, excluded, answered, lost>>

handlerVars == <<step, result, cost, relayed>>

recordVars == <<claim, expired, usage>>

vars == <<handlerVars, recordVars, walletVars, poolVars>>

Steps == {"new", "refused", "admit", "route", "drain", "record", "complete", "end"}

TypeOK == /\ step \in [Calls -> Steps]
          /\ result \in [Calls -> Finals \cup {"none"}]
          /\ cost \in [Calls -> Costs]
          /\ relayed \subseteq Streaming
          /\ claim \in [Ids -> Finals \cup {"none", "processing"}]
          /\ expired \subseteq Ids
          /\ usage \in [Ids -> UsageRows \cup {NoUsage}]
          /\ W!TypeOK
          /\ P!TypeOK

Init == /\ step = [c \in Calls |-> "new"]
        /\ result = [c \in Calls |-> "none"]
        /\ cost = [c \in Calls |-> 0]
        /\ relayed = {}
        /\ claim = [i \in Ids |-> "none"]
        /\ expired = {}
        /\ usage = [i \in Ids |-> NoUsage]
        /\ W!Init
        /\ P!Init

Goto(c, next) == step' = [step EXCEPT ![c] = next]

Outcome(c, status) == result' = [result EXCEPT ![c] = status]

-----------------------------------------------------------------------------
(* Admission *)

(* Seeded bugs: the insert takes over a row that is processing, or finished.  *)
Claim_TakesOver(c) ==
  /\ step[c] = "new"
  /\ claim[Sent[c]] \notin Finals
  /\ claim' = [claim EXCEPT ![Sent[c]] = "processing"]
  /\ Goto(c, "admit")
  /\ UNCHANGED <<result, cost, relayed, expired, usage, walletVars, poolVars>>

Claim_Reopens(c) ==
  /\ step[c] = "new"
  /\ claim[Sent[c]] # "processing"
  /\ claim' = [claim EXCEPT ![Sent[c]] = "processing"]
  /\ Goto(c, "admit")
  /\ UNCHANGED <<result, cost, relayed, expired, usage, walletVars, poolVars>>

(* claimIdempotency: the INSERT ... ON CONFLICT DO NOTHING.                  *)
Claim(c) ==
  /\ step[c] = "new"
  /\ claim[Sent[c]] = "none"
  /\ claim' = [claim EXCEPT ![Sent[c]] = "processing"]
  /\ Goto(c, "admit")
  /\ UNCHANGED <<result, cost, relayed, expired, usage, walletVars, poolVars>>

(* "Duplicate request_id is already ...", whatever the row's status.         *)
ClaimRefused(c) ==
  /\ step[c] = "new"
  /\ claim[Sent[c]] # "none"
  /\ Goto(c, "refused")
  /\ UNCHANGED <<result, cost, relayed, recordVars, walletVars, poolVars>>

(* evaluateRisk or resolveEffectivePolicy returns an error: so does the      *)
(* handler, without completing the claim.                                    *)
Abandon(c) ==
  /\ step[c] = "admit"
  /\ Goto(c, "end")
  /\ UNCHANGED <<result, cost, relayed, recordVars, walletVars, poolVars>>

(* Risk rules, unknown model, model scope, group access, spend limits or     *)
(* policy limits reject the call.                                            *)
Reject(c) ==
  /\ step[c] = "admit"
  /\ Outcome(c, "rejected")
  /\ Goto(c, "record")
  /\ UNCHANGED <<cost, relayed, recordVars, walletVars, poolVars>>

Reserve(c) ==
  /\ step[c] = "admit"
  /\ \/ /\ W!ReserveNothing(c) \/ \E amount \in W!Amounts : W!ReserveWallet(c, amount)
        /\ Goto(c, "route")
        /\ UNCHANGED result
     \/ /\ \E amount \in W!Amounts : W!ReserveRefused(c, amount)
        /\ Outcome(c, "rejected")
        /\ Goto(c, "record")
  /\ UNCHANGED <<cost, relayed, recordVars, poolVars>>

-----------------------------------------------------------------------------
(* The upstream *)

(* callUpstreamWithRetry, or the opening of a stream with its retries: a     *)
(* stream keeps its route until it has been copied to the client.            *)
Route(c) ==
  /\ step[c] = "route"
  /\ P!RouteStep(c)
  /\ c \in Streaming => c \notin answered'
  /\ UNCHANGED <<handlerVars, recordVars, walletVars>>

Release(c) == W!ReleaseReservation(c) \/ W!CloseNothing(c)

(* Seeded bugs: the status is not set; the estimate is recorded as the cost.  *)
Settle_NoStatus(c) == \E n \in Costs :
  /\ step[c] = "route" /\ phase[c] = "done" /\ c \in answered
  /\ W!SettleReservation(c, n) \/ W!CloseNothing(c)
  /\ cost' = [cost EXCEPT ![c] = n]
  /\ Goto(c, "record")
  /\ UNCHANGED <<result, relayed, recordVars, poolVars>>

Settle_RecordsEstimate(c) == \E n \in Costs :
  /\ step[c] = "route" /\ phase[c] = "done" /\ c \in answered
  /\ W!SettleReservation(c, n) \/ W!CloseNothing(c)
  /\ cost' = [cost EXCEPT ![c] = hold[c]]
  /\ Outcome(c, "success")
  /\ Goto(c, "record")
  /\ UNCHANGED <<relayed, recordVars, poolVars>>

(* A final answer with a 2xx status is settled at its actual cost.  A        *)
(* reservation without a wallet (the estimate was 0) takes nothing, whatever *)
(* the cost is.                                                              *)
Settle(c) == \E n \in Costs :
  /\ step[c] = "route" /\ phase[c] = "done" /\ c \in answered
  /\ W!SettleReservation(c, n) \/ W!CloseNothing(c)
  /\ cost' = [cost EXCEPT ![c] = n]
  /\ Outcome(c, "success")
  /\ Goto(c, "record")
  /\ UNCHANGED <<relayed, recordVars, poolVars>>

(* The settlement is refused: the handler returns the error and nothing else. *)
SettleRefused(c) ==
  /\ step[c] = "route" /\ phase[c] = "done" /\ c \in answered
  /\ \E n \in Costs : W!SettleRefused(c, n)
  /\ Goto(c, "end")
  /\ UNCHANGED <<result, cost, relayed, recordVars, poolVars>>

(* Seeded bug: a failure keeps its reservation.                              *)
Fail_KeepsReservation(c) ==
  /\ step[c] = "route" /\ phase[c] = "done"
  /\ Outcome(c, "failed")
  /\ Goto(c, "record")
  /\ UNCHANGED <<cost, relayed, recordVars, walletVars, poolVars>>

(* No account, no answer, or an answer with an error status.  A stream that  *)
(* found no account at all is recorded as rejected.                          *)
Fail(c) ==
  /\ step[c] = "route" /\ phase[c] = "done"
  /\ Release(c)
  /\ \/ Outcome(c, "failed")
     \/ c \in Streaming /\ excluded[c] = {} /\ Outcome(c, "rejected")
  /\ Goto(c, "record")
  /\ UNCHANGED <<cost, relayed, recordVars, poolVars>>

(* providerAdapterFor does not know the account's provider: the reservation  *)
(* is released, the claim is not completed.                                  *)
NoAdapter(c) ==
  /\ step[c] = "route" /\ phase[c] = "done" /\ c \in answered
  /\ Release(c)
  /\ Goto(c, "end")
  /\ UNCHANGED <<result, cost, relayed, recordVars, poolVars>>

(* streamUpstream, after the copy: it settles first, goes on if that is      *)
(* refused (the error is logged), and records a stream that broke midway as  *)
(* failed with its cost.  Without a usable count the cost is the estimate.   *)
StreamEnds(c) == \E n \in Costs :
  /\ step[c] = "route" /\ c \in Streaming /\ phase[c] = "call"
  /\ hold[c] > 0 => n > 0
  /\ W!SettleReservation(c, n) \/ W!SettleRefused(c, n) \/ W!CloseNothing(c)
  /\ cost' = [cost EXCEPT ![c] = n]
  /\ relayed' = relayed \cup {c}
  /\ Outcome(c, "success") \/ Outcome(c, "failed")
  /\ Goto(c, "drain")
  /\ UNCHANGED <<recordVars, poolVars>>

(* streamUpstream: an error status, an undecodable body, or a stream that    *)
(* broke before its first byte.                                              *)
StreamRejected(c) ==
  /\ step[c] = "route" /\ c \in Streaming /\ phase[c] = "call"
  /\ Release(c)
  /\ Outcome(c, "failed")
  /\ Goto(c, "drain")
  /\ UNCHANGED <<cost, relayed, recordVars, poolVars>>

(* The stream's route is completed after its money; it is not tried again.   *)
Drain(c) ==
  /\ step[c] = "drain"
  /\ \/ P!RouteSucceeds(c)
     \/ c \notin relayed /\ P!RouteFails(c)
     \/ P!CountRequest(c)
     \/ P!ApplyHeaderSignals(c)
     \/ P!StopRetrying(c)
  /\ UNCHANGED <<handlerVars, recordVars, walletVars>>

-----------------------------------------------------------------------------
(* The records *)

Recording(c) == step[c] = "record" \/ (step[c] = "drain" /\ phase[c] = "done")

(* recordUsage: the INSERT ... ON CONFLICT DO NOTHING on the request id.     *)
Record(c) ==
  /\ Recording(c)
  /\ usage' = [usage EXCEPT ![Sent[c]] =
                 IF @ = NoUsage
                 THEN [call |-> c, status |-> result[c], cost |-> cost[c]]
                 ELSE @]
  /\ Goto(c, "complete")
  /\ UNCHANGED <<result, cost, relayed, claim, expired, walletVars, poolVars>>

(* A stream whose body cannot be decoded is not recorded.                    *)
SkipRecord(c) ==
  /\ Recording(c)
  /\ c \in Streaming \ relayed /\ result[c] = "failed"
  /\ Goto(c, "complete")
  /\ UNCHANGED <<result, cost, relayed, recordVars, walletVars, poolVars>>

(* completeIdempotency: an UPDATE by request id, of whoever's claim is there. *)
Complete(c) ==
  /\ step[c] = "complete"
  /\ claim' = [claim EXCEPT ![Sent[c]] = IF @ = "none" THEN @ ELSE result[c]]
  /\ Goto(c, "end")
  /\ UNCHANGED <<result, cost, relayed, expired, usage, walletVars, poolVars>>
-----------------------------------------------------------------------------
(* Faults *)

(* A transaction on the wallet, a completion of a route, or the writing of a *)
(* record fails or commits unacknowledged; its error is dropped.             *)
WalletFault(c) ==
  \/ /\ step[c] = "admit"
     /\ \E amount \in W!Amounts : W!ReserveUnacknowledged(c, amount)
     /\ Outcome(c, "rejected")
     /\ Goto(c, "record")
     /\ UNCHANGED <<cost, relayed, recordVars, poolVars>>
  \/ /\ step[c] = "route" /\ phase[c] = "done"
     /\ W!CloseFails(c)
     /\ \/ Outcome(c, "failed") /\ Goto(c, "record")
        \/ c \in answered /\ Goto(c, "end") /\ UNCHANGED result
     /\ UNCHANGED <<cost, relayed, recordVars, poolVars>>

StreamWalletFault(c) ==
  /\ step[c] = "route" /\ c \in Streaming /\ phase[c] = "call"
  /\ W!CloseFails(c)
  /\ \/ \E n \in W!Amounts : /\ cost' = [cost EXCEPT ![c] = n]
                             /\ relayed' = relayed \cup {c}
                             /\ Outcome(c, "success") \/ Outcome(c, "failed")
     \/ Outcome(c, "failed") /\ UNCHANGED <<cost, relayed>>
  /\ Goto(c, "drain")
  /\ UNCHANGED <<recordVars, poolVars>>

RouteFault(c) ==
  /\ \/ step[c] = "route" /\ P!LeakStep(c) /\ (c \in Streaming => c \notin answered')
     \/ step[c] = "drain" /\ P!CompletionFails(c)
  /\ UNCHANGED <<handlerVars, recordVars, walletVars>>

RecordFault(c) ==
  /\ \/ Recording(c) /\ Goto(c, "complete")
     \/ step[c] = "complete" /\ Goto(c, "end")
  /\ UNCHANGED <<result, cost, relayed, recordVars, walletVars, poolVars>>

(* The gateway process stops with all its handlers.                          *)
Crash == LET dead == {c \in Calls : step[c] \notin {"new", "refused", "end"}} IN
  /\ dead # {}
  /\ step' = [c \in Calls |-> IF c \in dead THEN "end" ELSE step[c]]
  /\ IF \E c \in Calls : stage[c] = "open" THEN W!Crash ELSE UNCHANGED walletVars
  /\ P!StopHandlers(dead)
  /\ UNCHANGED <<result, cost, relayed, recordVars>>

(* cleanupExpiredNorthboundState deletes a claim after 24 hours, also of a   *)
(* call that is still running (a realtime session has no time limit).  Bound: *)
(* once for each id.                                                         *)
Expire(i) ==
  /\ claim[i] # "none" /\ i \notin expired
  /\ claim' = [claim EXCEPT ![i] = "none"]
  /\ expired' = expired \cup {i}
  /\ UNCHANGED <<handlerVars, usage, walletVars, poolVars>>

Time(a) == P!TimeStep(a) /\ UNCHANGED <<handlerVars, recordVars, walletVars>>

-----------------------------------------------------------------------------
Handle(c) == \/ Abandon(c) \/ Reject(c) \/ Reserve(c)
             \/ Route(c) \/ Settle(c) \/ SettleRefused(c) \/ Fail(c) \/ NoAdapter(c)
             \/ StreamEnds(c) \/ StreamRejected(c) \/ Drain(c)
             \/ Record(c) \/ SkipRecord(c) \/ Complete(c)

Arrive(c) == Claim(c) \/ ClaimRefused(c)

Fault(c) == WalletFault(c) \/ StreamWalletFault(c) \/ RouteFault(c) \/ RecordFault(c)

CalmNext == \/ \E c \in Calls : Arrive(c) \/ Handle(c)
            \/ \E a \in Accounts : Time(a)

UnexpiredNext == CalmNext \/ (\E c \in Calls : Fault(c)) \/ Crash

Next == UnexpiredNext \/ \E i \in Ids : Expire(i)

Spec == Init /\ [][Next]_vars

(* Without faults, and with the fairness of Go's scheduler: a handler that   *)
(* can take a step takes one, since upstream calls have a timeout.           *)
CalmSpec == Init /\ [][CalmNext]_vars /\ \A c \in Calls : WF_vars(Handle(c))

-----------------------------------------------------------------------------
(* Properties *)

Debited(c) == W!Entry("debit", c) \in entries

(* Within the life of a claim one request id is served by one handler, also  *)
(* when its copies arrive together or after a crash (claimIdempotency).      *)
ServedOnce ==
  \A c, d \in Calls :
    c # d /\ Sent[c] = Sent[d] /\ Sent[c] \notin expired =>
      {step[c], step[d]} \cap {"new", "refused"} # {}

(* Within the life of a claim its final status is not overwritten            *)
(* (completeIdempotency, which does not look at the row's status).           *)
FinalStatusStands ==
  [][\A i \in Ids : i \notin expired' /\ claim[i] \in Finals => claim'[i] = claim[i]]_<<claim, expired>>

(* Nobody pays for a call that is reported as rejected or failed, unless     *)
(* part of a stream had reached the client.                                  *)
FailuresAreFree ==
  \A c \in Calls : result[c] \in {"failed", "rejected"} /\ c \notin relayed => ~ Debited(c)

(* A usage record of a success that had a reservation, other than a          *)
(* stream's, shows a cost exactly when its wallet was debited.               *)
UsageIsPaid ==
  \A i \in Ids : LET u == usage[i] IN
    u # NoUsage /\ u.status = "success" /\ u.call \notin Streaming
      /\ W!Entry("reserve", u.call) \in entries
      => (u.cost > 0 <=> Debited(u.call))

(* A handler never records an outcome while it still holds or has still to   *)
(* account for its upstream route.                                           *)
RouteClosed ==
  \A c \in Calls : step[c] \in {"record", "complete", "end"} =>
    phase[c] \notin {"call", "count", "signal"}

(* What a handler records of a call is true of its money and its route.       *)
OutcomesAreTrue == FailuresAreFree /\ UsageIsPaid /\ RouteClosed

(* Without faults, what the wallet was debited for is in the usage records.  *)
DebitsAreRecorded ==
  \A c \in Calls : step[c] = "end" /\ Debited(c) =>
    usage[Sent[c]] # NoUsage /\ usage[Sent[c]].call = c

(* Without faults, the only reservation a handler leaves behind is one whose *)
(* settlement was refused.                                                   *)
ReservationsReturned ==
  \A c \in Calls : step[c] = "end" /\ hold[c] > 0 => c \in answered

(* Without faults what a call was debited for is in the usage records, and   *)
(* the only reservation left behind is one whose settlement was refused.     *)
BooksAgree == DebitsAreRecorded /\ ReservationsReturned

(* Without faults every claimed call comes to its end.                       *)
HandlersEnd == \A c \in Calls : step[c] = "admit" ~> step[c] = "end"

(* A duplicate is told that its request "is already processing": then some   *)
(* handler is processing it.                                                 *)
ProcessingMeansRunning ==
  \A i \in Ids : claim[i] = "processing" =>
    \E c \in Calls : Sent[c] = i /\ step[c] \notin {"new", "refused", "end"}

=============================================================================
