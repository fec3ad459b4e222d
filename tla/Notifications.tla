--------------------------- MODULE Notifications ---------------------------
(* Notification events and the webhooks that hear of them.  Every server       *)
(* instance runs a dispatcher that claims one due event at a time and keeps    *)
(* the others off it for a minute, sends it to the channels that want it and   *)
(* writes the outcome by the event's id, whatever became of the row meanwhile. *)
(* Delivery is at least once: a claim that dies comes due again.               *)
EXTENDS Integers, FiniteSets

CONSTANTS Events, Channels, Dispatchers,
          Kinds,        \* [Events -> [type, severity]]
          Edits,        \* what administrators write: [status, min, types, sealed]
          NoEvent,
          MaxAttempts,  \* notificationMaxAttempts
          MaxTroubles   \* instances that die, and orders of the administrators

VARIABLES event,    \* [Events -> [status, due, attempts]]: notification_events
          channel,  \* [Channels -> notification_channels, status "none" before it exists]
          task,     \* [Dispatchers -> [stage, event, attempts, todo, ok, bad]]
          heard,    \* [Events -> [Channels -> times the webhook answered 2xx]], up to two
          slow,     \* a dispatch may outlive the minute of its claim
          crashes, orders

vars == <<event, channel, task, heard, slow, crashes, orders>>

Idle == [stage |-> "idle", event |-> NoEvent, attempts |-> 0, todo |-> {}, ok |-> {}, bad |-> {}]
NoChannel == [status |-> "none", min |-> "info", types |-> {}, sealed |-> FALSE]

Sealed(x) == [x EXCEPT !.sealed = TRUE]

TypeOK ==
  /\ event \in [Events -> [status : {"none", "pending", "sent", "failed", "suppressed"},
                           due : BOOLEAN, attempts : 0 .. MaxAttempts + 1]]
  /\ channel \in [Channels -> Edits \cup {Sealed(x) : x \in Edits} \cup {NoChannel}]
  /\ \A d \in Dispatchers : /\ task[d].stage \in {"idle", "claimed", "sending"}
                            /\ task[d].event \in Events \cup {NoEvent}
                            /\ task[d].todo \cup task[d].ok \cup task[d].bad \subseteq Channels
  /\ heard \in [Events -> [Channels -> 0 .. 2]]
  /\ slow \in BOOLEAN /\ crashes + orders \in 0 .. MaxTroubles

Init ==
  /\ event = [e \in Events |-> [status |-> "none", due |-> FALSE, attempts |-> 0]]
  /\ channel \in [Channels -> Edits \cup {NoChannel}]
  /\ task = [d \in Dispatchers |-> Idle]
  /\ heard = [e \in Events |-> [c \in Channels |-> 0]]
  /\ slow \in BOOLEAN /\ crashes = 0 /\ orders = 0

-----------------------------------------------------------------------------
(* emitNotification: the row is due at once.                                  *)
Emit(e) ==
  /\ event[e].status = "none"
  /\ event' = [event EXCEPT ![e] = [status |-> "pending", due |-> TRUE, attempts |-> 0]]
  /\ UNCHANGED <<channel, task, heard, slow, crashes, orders>>

Claimable(e) == event[e].status = "pending" /\ event[e].due

(* Attempts beyond the last are all the same.                                 *)
More(n) == IF n > MaxAttempts THEN n ELSE n + 1

(* The claim counts as an attempt and puts the next one off by a minute.      *)
Leased(e) == [event[e] EXCEPT !.attempts = More(@), !.due = FALSE]

Claim(d, e) ==
  /\ task[d].stage = "idle" /\ Claimable(e)
  /\ event' = [event EXCEPT ![e] = Leased(e)]
  /\ task' = [task EXCEPT ![d] = [Idle EXCEPT !.stage = "claimed", !.event = e,
                                              !.attempts = Leased(e).attempts]]
  /\ UNCHANGED <<channel, heard, slow, crashes, orders>>

Rank(severity) == CASE severity = "critical" -> 3 [] severity = "warning" -> 2 [] OTHER -> 1

(* No types means all of them.                                                *)
AllowsType(c, e) == channel[c].types = {} \/ Kinds[e].type \in channel[c].types

ChannelsFor(e) ==
  {c \in Channels : /\ channel[c].status = "active"
                    /\ Rank(Kinds[e].severity) >= Rank(channel[c].min)
                    /\ AllowsType(c, e)}

Dispatch(d) ==
  LET e == task[d].event
  IN  /\ task[d].stage = "claimed"
      /\ IF ChannelsFor(e) = {}
         THEN /\ event' = [event EXCEPT ![e].status = "suppressed"]
              /\ task' = [task EXCEPT ![d] = Idle]
         ELSE /\ task' = [task EXCEPT ![d].stage = "sending", ![d].todo = ChannelsFor(e)]
              /\ UNCHANGED event
      /\ UNCHANGED <<channel, heard, slow, crashes, orders>>

(* One channel after the other, in any order; a row without a signing secret  *)
(* is not sent to.  A time-out may come after the webhook has heard.          *)
Send(d) ==
  LET e == task[d].event
      bump(c) == [heard EXCEPT ![e][c] = IF @ = 2 THEN 2 ELSE @ + 1]
  IN  /\ task[d].stage = "sending"
      /\ \E c \in task[d].todo :
           \/ /\ channel[c].sealed /\ heard' = bump(c)
              /\ task' = [task EXCEPT ![d].todo = @ \ {c}, ![d].ok = @ \cup {c}]
           \/ /\ task' = [task EXCEPT ![d].todo = @ \ {c}, ![d].bad = @ \cup {c}]
              /\ UNCHANGED heard
      /\ UNCHANGED <<event, channel, slow, crashes, orders>>

Spent(n) == n >= MaxAttempts

(* One channel that heard is enough: the others are not tried again.          *)
Outcome(d) ==
  IF task[d].ok # {} THEN "sent" ELSE IF Spent(task[d].attempts) THEN "failed" ELSE "pending"

(* The outcome, by the event's id: the next attempt is put off anew.          *)
Finish(d) ==
  /\ task[d].stage = "sending" /\ task[d].todo = {}
  /\ event' = [event EXCEPT ![task[d].event].status = Outcome(d),
                            ![task[d].event].due = (Outcome(d) = "sent") /\ @]
  /\ task' = [task EXCEPT ![d] = Idle]
  /\ UNCHANGED <<channel, heard, slow, crashes, orders>>

(* The instance dies or shuts down; so do a failing read and a failing write. *)
Crash(d) ==
  /\ task[d].stage # "idle" /\ crashes + orders < MaxTroubles
  /\ crashes' = crashes + 1
  /\ task' = [task EXCEPT ![d] = Idle]
  /\ UNCHANGED <<event, channel, heard, slow, orders>>

(* next_attempt_at passes: while the event is being sent only when that takes *)
(* longer than the claim lasts.                                               *)
ComesDue(e) ==
  /\ event[e].status = "pending" /\ ~event[e].due
  /\ slow \/ \A d \in Dispatchers : task[d].event # e
  /\ event' = [event EXCEPT ![e].due = TRUE]
  /\ UNCHANGED <<channel, task, heard, slow, crashes, orders>>

Order == crashes + orders < MaxTroubles /\ orders' = orders + 1

Retryable == {"pending", "failed", "suppressed"}

RetryEvent(e) ==
  /\ Order /\ event[e].status \in Retryable
  /\ event' = [event EXCEPT ![e] = [status |-> "pending", due |-> TRUE, attempts |-> 0]]
  /\ UNCHANGED <<channel, task, heard, slow, crashes>>

(* The whole row is written over, from a reading that may be older than the   *)
(* last write: any row that was ever asked for.  A new one, and one that had  *)
(* none, gets a secret.                                                       *)
UpsertChannel(c, edit) ==
  /\ Order
  /\ channel' = [channel EXCEPT ![c] = Sealed(edit)]
  /\ UNCHANGED <<event, task, heard, slow, crashes>>

-----------------------------------------------------------------------------
Work(d) == Dispatch(d) \/ Send(d) \/ Finish(d)

Next ==
  \/ \E e \in Events : Emit(e) \/ ComesDue(e) \/ RetryEvent(e) \/ \E d \in Dispatchers : Claim(d, e)
  \/ \E d \in Dispatchers : Work(d) \/ Crash(d)
  \/ \E c \in Channels, edit \in Edits : UpsertChannel(c, edit)

(* The ticker of some instance, the clock, and the work that was begun.       *)
Spec ==
  /\ Init /\ [][Next]_vars
  /\ \A d \in Dispatchers : WF_vars(Work(d))
  /\ \A e \in Events : WF_vars(\E d \in Dispatchers : Claim(d, e)) /\ WF_vars(ComesDue(e))

-----------------------------------------------------------------------------
(* As long as no dispatch outlives its claim, no instance dies and nobody     *)
(* retries by hand, a webhook hears of an event once at most, and an event    *)
(* that some webhook heard of ends as sent.                                   *)
CalmIsExactlyOnce ==
  ~slow /\ crashes = 0 /\ orders = 0 =>
    \A e \in Events :
      /\ \A c \in Channels : heard[e][c] <= 1
      /\ (\E c \in Channels : heard[e][c] > 0) /\ (\A d \in Dispatchers : task[d].event # e)
           => event[e].status = "sent"

(* Every event ends as sent, failed or suppressed: dying dispatchers and late *)
(* writes that make it pending again cannot keep it there.                    *)
EventsSettle == \A e \in Events : event[e].status = "pending" ~> event[e].status # "pending"
==============================================================================
