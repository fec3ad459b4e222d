----------------------------- MODULE WebSockets -----------------------------
(* Sessions over WebSockets: the realtime and the Responses endpoint, the     *)
(* subscription to a Claude Code sidecar, and beside them the sidecar's plain *)
(* calls, which go through the same steps without sockets.  A session claims  *)
(* its request id, reserves, checks an account out, dials the upstream with   *)
(* retries, and then two goroutines copy frames until one of the two          *)
(* connections ends; the handler waits for both and settles.                  *)
(*                                                                            *)
(* What a slot, a reservation and a claim are is the business of AccountPool, *)
(* Wallet and Northbound: here a session has at most one of each.  The        *)
(* transactions whose errors the handlers ignore succeed; settleReservation   *)
(* may be refused.                                                            *)
EXTENDS Integers, FiniteSets

CONSTANTS Sessions, Accounts,
          NoAccount,      \* the route of a session that holds none
          MaxConcurrency, \* of every account
          MaxAttempts,    \* upstreamMaxAttemptsFromRoute
          Meetings        \* which kinds of sessions meet: functions on Sessions

VARIABLES ses,    \* [Sessions -> the record of a session]
          active  \* [Accounts -> account_runtime_states.current_concurrency]

vars == <<ses, active>>

Kinds == {"realtime", "responses", "sidecar", "call"}

(* The record of a session: where its handler stands; claim, usage record and *)
(* reservation; its account and those that failed it; the connections of the  *)
(* client and of the upstream ("left", "ended" and "broken": by the other     *)
(* side, "closed": by this one); the two copying goroutines; whether a frame  *)
(* with the provider's usage was relayed; what it was settled for.            *)
SessionRecords ==
  [kind : Kinds,
   pc : {"start", "claimed", "checks", "reserved", "dial", "dialed", "relay", "settled", "end"},
   claim : {"none", "processing", "rejected", "failed", "success"},
   usage : {"none", "rejected", "failed", "success"},
   hold : {"none", "held", "released", "settled", "refused"},
   route : Accounts \cup {NoAccount}, failed : SUBSET Accounts, slot : BOOLEAN,
   client : {"none", "open", "left", "closed"},
   upstream : {"none", "open", "ended", "broken", "closed"},
   toUpstream : {"none", "copying", "done"}, toClient : {"none", "copying", "done"},
   relayed : BOOLEAN, cost : {"none", "usage", "estimate"}]

TypeOK ==
  /\ ses \in [Sessions -> SessionRecords]
  /\ active \in [Accounts -> 0 .. MaxConcurrency]

Init ==
  /\ \E kinds \in Meetings :
       ses = [s \in Sessions |->
         [kind |-> kinds[s], pc |-> "start", claim |-> "none", usage |-> "none", hold |-> "none",
          route |-> NoAccount, failed |-> {}, slot |-> FALSE, client |-> "none",
          upstream |-> "none", toUpstream |-> "none", toClient |-> "none",
          relayed |-> FALSE, cost |-> "none"]]
  /\ active = [a \in Accounts |-> 0]

At(s, pc) == ses[s].pc = pc

Update(s, r) == ses' = [ses EXCEPT ![s] = r]

(* Seeded bug: the counter is not kept from falling below zero.                 *)
SlotBack_Unclamped(s) == active' = [active EXCEPT ![ses[s].route] = @ - 1]

(* completeRoute and releaseRouteCheckout: GREATEST(current_concurrency - 1, 0). *)
SlotBack(s) ==
  active' = [active EXCEPT ![ses[s].route] = IF @ > 0 THEN @ - 1 ELSE 0]

-----------------------------------------------------------------------------
(* Admission *)

(* No upgrade, key or model, a key of the wrong routing mode, or a request id *)
(* already claimed: the handler returns.  The Responses endpoint upgrades     *)
(* first and reads its request from the first frame, so it closes instead.    *)
TurnedAway(s) ==
  /\ At(s, "start")
  /\ Update(s, [ses[s] EXCEPT !.pc = "end",
                              !.client = IF ses[s].kind = "responses" THEN "closed" ELSE "none"])
  /\ UNCHANGED active

(* claimIdempotency inserts the id.                                           *)
Claim(s) ==
  /\ At(s, "start")
  /\ Update(s, [ses[s] EXCEPT
       !.pc = IF ses[s].kind \in {"sidecar", "call"} THEN "reserved" ELSE "claimed",
       !.claim = "processing",
       !.client = IF ses[s].kind = "responses" THEN "open" ELSE "none"])
  /\ UNCHANGED active

(* The connection of a session that ends: the Responses endpoint closes it,   *)
(* the others answer an ordinary HTTP error.                                  *)
Hangup(s) == IF ses[s].client = "none" THEN "none" ELSE "closed"

(* An error of evaluateRisk or of resolveEffectivePolicy (a database error):  *)
(* the handler returns and leaves its claim.                                  *)
CheckBreaks(s) ==
  /\ At(s, "claimed")
  /\ Update(s, [ses[s] EXCEPT !.pc = "end", !.client = Hangup(s)])
  /\ UNCHANGED active

(* The risk rules, the model, the key's scope, the policy, the limits or the  *)
(* wallet refuse: usage 'rejected', then the claim.                           *)
Rejected(s) ==
  /\ At(s, "claimed")
  /\ Update(s, [ses[s] EXCEPT !.pc = "end", !.usage = "rejected", !.claim = "rejected",
                              !.client = Hangup(s)])
  /\ UNCHANGED active

(* reserveWallet; a BYO key's reservation is of 0.                            *)
Reserve(s) ==
  /\ At(s, "claimed")
  /\ \E h \in {"none", "held"} : Update(s, [ses[s] EXCEPT !.pc = "reserved", !.hold = h])
  /\ UNCHANGED active

Released(s) == IF ses[s].hold = "held" THEN "released" ELSE ses[s].hold

(* checkoutRouteAttempt or checkoutClaudeCodeSidecarRoute *)
Checkout(s, a) ==
  /\ At(s, "reserved") /\ ses[s].kind # "call"
  /\ active[a] < MaxConcurrency
  /\ Update(s, [ses[s] EXCEPT !.pc = "dial", !.route = a, !.slot = TRUE])
  /\ active' = [active EXCEPT ![a] = @ + 1]

(* No account is free and healthy.                                            *)
CheckoutRefused(s) ==
  /\ At(s, "reserved") /\ ses[s].kind # "call"
  /\ Update(s, [ses[s] EXCEPT !.pc = "end", !.hold = Released(s), !.usage = "rejected",
                              !.claim = "rejected", !.client = Hangup(s)])
  /\ UNCHANGED active

(* northboundClaudeCodeProxy: callClaudeCodeSidecarWithRetry, which gives its *)
(* slots back itself, then the record and the claim.                          *)
SidecarCall(s) ==
  /\ At(s, "reserved") /\ ses[s].kind = "call"
  /\ \E status \in {"success", "failed"} :
       Update(s, [ses[s] EXCEPT !.pc = "end", !.usage = status, !.claim = status])
  /\ UNCHANGED active

-----------------------------------------------------------------------------
(* Dialing: openWebSocketWithRetry, and openWebSocket, which tries once *)

(* The handler's last steps when there is no session: the reservation is      *)
(* released, usage and claim are 'failed', and the client is answered.        *)
Failed(s) == [ses[s] EXCEPT !.pc = "end", !.hold = Released(s), !.usage = "failed",
                            !.claim = "failed", !.slot = FALSE, !.client = Hangup(s)]

Connect(s) ==
  /\ At(s, "dial")
  /\ Update(s, [ses[s] EXCEPT !.pc = "dialed", !.upstream = "open"])
  /\ UNCHANGED active

(* A refusal with a status that is not retried, or an attempt that was the    *)
(* last: the account's slot is given back (by the loop, or by the handler     *)
(* when the upstream answered) and the session fails.                         *)
DialFails(s) ==
  /\ At(s, "dial")
  /\ Update(s, Failed(s))
  /\ SlotBack(s)

(* An attempt that is not the last: its account gives its slot back and is    *)
(* excluded ...                                                               *)
DialAgain(s) ==
  /\ At(s, "dial") /\ ses[s].kind # "sidecar"
  /\ Cardinality(ses[s].failed) + 1 < MaxAttempts
  /\ Update(s, [ses[s] EXCEPT !.pc = "checks", !.failed = @ \cup {ses[s].route}, !.slot = FALSE])
  /\ SlotBack(s)

(* ... and checkoutRouteAttemptExcluding finds another one, ...               *)
NextAccount(s, a) ==
  /\ At(s, "checks") /\ a \notin ses[s].failed /\ active[a] < MaxConcurrency
  /\ Update(s, [ses[s] EXCEPT !.pc = "dial", !.route = a, !.slot = TRUE])
  /\ active' = [active EXCEPT ![a] = @ + 1]

(* ... or none, or an affinity rule forbids to look for one.                  *)
NoNextAccount(s) ==
  /\ At(s, "checks")
  /\ Update(s, Failed(s))
  /\ UNCHANGED active

(* Seeded bug: the slot of a client that cannot be upgraded is kept.          *)
NoSession_KeepSlot(s) ==
  /\ At(s, "dialed")
  /\ Update(s, [Failed(s) EXCEPT !.upstream = "closed"])
  /\ UNCHANGED active

(* The client cannot be upgraded; or, for Responses, the first frame cannot   *)
(* be written to the upstream.                                                *)
NoSession(s) ==
  /\ At(s, "dialed")
  /\ Update(s, [Failed(s) EXCEPT !.upstream = "closed"])
  /\ SlotBack(s)

-----------------------------------------------------------------------------
(* The session *)

(* The client is upgraded and both goroutines start.  The Responses handler   *)
(* has upgraded before, sends the first frame, and calls completeRoute here   *)
(* already: the session keeps its account, the account has its slot back.     *)
StartCopying(s) ==
  /\ At(s, "dialed")
  /\ Update(s, [ses[s] EXCEPT !.pc = "relay", !.client = "open",
                              !.toUpstream = "copying", !.toClient = "copying"])
  /\ IF ses[s].kind = "responses" THEN SlotBack(s) ELSE UNCHANGED active

(* The client sends a close frame or its connection breaks.                   *)
ClientLeaves(s) ==
  /\ At(s, "relay") /\ ses[s].client = "open"
  /\ Update(s, [ses[s] EXCEPT !.client = "left"])
  /\ UNCHANGED active

UpstreamEnds(s) ==
  /\ At(s, "relay") /\ ses[s].upstream = "open"
  /\ \E how \in {"ended", "broken"} : Update(s, [ses[s] EXCEPT !.upstream = how])
  /\ UNCHANGED active

(* copyWebSocketMessages relays a frame of the upstream: recordFrame parses   *)
(* its usage before it is written.  (Frames of the client and frames without  *)
(* usage change nothing here.)                                                *)
RelayUsage(s) ==
  /\ ses[s].toClient = "copying" /\ ses[s].upstream = "open"
  /\ Update(s, [ses[s] EXCEPT !.relayed = TRUE])
  /\ UNCHANGED active

(* Seeded bug: the goroutine returns without closing the upstream.            *)
EndToUpstream_LeaveOpen(s) == [ses[s] EXCEPT !.toUpstream = "done"]

(* The goroutine that copies to the upstream closes it when it ends, the one  *)
(* that copies to the client closes the client (after telling it "Upstream    *)
(* WebSocket interrupted." where shouldCloseWebSocketWithUpstreamError says   *)
(* so): that makes the other one's read fail.                                 *)
EndToUpstream(s) == [ses[s] EXCEPT !.toUpstream = "done", !.upstream = "closed"]

EndToClient(s) == [ses[s] EXCEPT !.toClient = "done", !.client = "closed"]

ClientReadFails(s) ==
  /\ ses[s].toUpstream = "copying" /\ ses[s].client # "open"
  /\ Update(s, EndToUpstream(s))
  /\ UNCHANGED active

UpstreamReadFails(s) ==
  /\ ses[s].toClient = "copying" /\ ses[s].upstream # "open"
  /\ Update(s, EndToClient(s))
  /\ UNCHANGED active

(* A frame was read and cannot be written.                                    *)
UpstreamWriteFails(s) ==
  /\ ses[s].toUpstream = "copying" /\ ses[s].client = "open" /\ ses[s].upstream # "open"
  /\ Update(s, EndToUpstream(s))
  /\ UNCHANGED active

ClientWriteFails(s) ==
  /\ ses[s].toClient = "copying" /\ ses[s].upstream = "open" /\ ses[s].client # "open"
  /\ \E seen \in {ses[s].relayed, TRUE} :
       Update(s, [EndToClient(s) EXCEPT !.relayed = seen])
  /\ UNCHANGED active

BothDone(s) == ses[s].toUpstream = "done" /\ ses[s].toClient = "done"

(* wg.Wait, then the provider's usage is priced, or what was reserved (or one *)
(* request).  settleReservation may be refused: that is logged and the        *)
(* handler goes on.  A sidecar's session costs nothing.                       *)
Settle(s) ==
  /\ At(s, "relay") /\ BothDone(s)
  /\ \E h \in IF ses[s].hold = "held" THEN {"settled", "refused"} ELSE {ses[s].hold} :
       Update(s, [ses[s] EXCEPT
                  !.pc = "settled", !.hold = h,
                  !.cost = IF ses[s].kind = "sidecar" THEN "none"
                           ELSE IF ses[s].relayed THEN "usage" ELSE "estimate"])
  /\ UNCHANGED active

(* completeRoute (for Responses a second time), applyUpstreamHeaderSignals,   *)
(* the usage record and the claim.                                            *)
Finish(s) ==
  /\ At(s, "settled")
  /\ Update(s, [ses[s] EXCEPT !.pc = "end", !.slot = FALSE, !.usage = "success", !.claim = "success"])
  /\ SlotBack(s)

-----------------------------------------------------------------------------
Handler(s) ==
  \/ TurnedAway(s) \/ Claim(s) \/ CheckBreaks(s) \/ Rejected(s) \/ Reserve(s)
  \/ CheckoutRefused(s) \/ SidecarCall(s)
  \/ Connect(s) \/ DialFails(s) \/ DialAgain(s) \/ NoNextAccount(s)
  \/ NoSession(s) \/ StartCopying(s) \/ Settle(s) \/ Finish(s)
  \/ \E a \in Accounts : Checkout(s, a) \/ NextAccount(s, a)

Copiers(s) == \/ RelayUsage(s)
              \/ ClientReadFails(s) \/ UpstreamReadFails(s)
              \/ UpstreamWriteFails(s) \/ ClientWriteFails(s)

Peers(s) == ClientLeaves(s) \/ UpstreamEnds(s)

Next == \E s \in Sessions : Handler(s) \/ Copiers(s) \/ Peers(s)

(* The runtime runs every goroutine that can proceed; clients and upstreams   *)
(* need never end or send anything.                                           *)
Fairness == \A s \in Sessions :
  WF_vars(Handler(s)) /\ WF_vars(ClientReadFails(s)) /\ WF_vars(UpstreamReadFails(s))

Spec == Init /\ [][Next]_vars /\ Fairness

-----------------------------------------------------------------------------
(* Properties *)

Holders(a) == {s \in Sessions : ses[s].slot /\ ses[s].route = a}

(* Whatever way a session ends, its account has its slot back: a counter is   *)
(* never above the sessions that hold a slot, and equal to them where no      *)
(* Responses session completes its route twice (completeRoute in every exit   *)
(* of the handlers, openWebSocketWithRetry).                                  *)
SlotsReturned ==
  \A a \in Accounts :
    /\ active[a] <= Cardinality(Holders(a))
    /\ (\A s \in Sessions : ses[s].kind # "responses") => active[a] = Cardinality(Holders(a))

(* An ended session that got past its checks has left nothing open: its claim *)
(* says what its usage record says, and its reservation is settled (or its    *)
(* settlement was refused) exactly if it took place.                          *)
EndedIsClosed ==
  \A s \in Sessions : At(s, "end") /\ ses[s].usage # "none" =>
    /\ ses[s].claim = ses[s].usage
    /\ ses[s].hold # "held"
    /\ ses[s].kind # "call" => ((ses[s].usage = "success") <=> (ses[s].toClient = "done"))
    /\ ses[s].hold \in {"settled", "refused"} => ses[s].usage = "success"

(* A session that was told its provider's usage is charged by it, not by the  *)
(* estimate: the settlement comes after the last relayed frame (wg.Wait,      *)
(* hasProviderUsage).                                                         *)
RelayedUsageIsCharged ==
  \A s \in Sessions : ses[s].relayed => ses[s].cost # "estimate"

(* When either side ends its connection the session ends: each goroutine      *)
(* closes the connection the other one reads.                                 *)
SessionsEnd ==
  \A s \in Sessions : (ses[s].client = "left" \/ ses[s].upstream \in {"ended", "broken"}) ~> At(s, "end")

=============================================================================
