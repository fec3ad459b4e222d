---------------------------- MODULE StreamRelay ----------------------------
(* How one streaming call is copied to its client: streamUpstream with its    *)
(* retries, the copy loops of copyStreamAndMeterForRoute, the commit writer   *)
(* and the goroutine that writes keep-alive comments beside it.               *)
(*                                                                            *)
(* An upstream answers with Events events.  Each is two pieces, its data line *)
(* and the blank line that ends it; a read brings one or two pieces, since    *)
(* chunks have nothing to do with events.  What the client has been sent is a *)
(* sequence of tokens: pieces (with the attempt they come from), keep-alive   *)
(* comments, and the error event.  Money, routes and records are Northbound's *)
(* business.                                                                  *)
EXTENDS Integers, Sequences, FiniteSets

CONSTANTS Events,       \* events in an upstream's answer
          MaxAttempts,  \* upstreamMaxAttemptsFromRoute
          MaxTicks      \* bound: ticks of the keep-alive timer

VARIABLES
  mode,      \* how this route is copied, one of Modes
  sticky,    \* an affinity rule forbids going to another account
  pc,        \* where streamUpstream stands
  attempt,   \* attempt.Attempt, counted from 0
  pos,       \* pieces read from the upstream of this attempt
  out,       \* pieces read, transformed or framed, and not yet written
  copyErr,   \* what ended the copy: "none", "upstream" or "client"
  committed, \* streamCommitWriter.committed
  written,   \* streamCommitWriter.written, in pieces
  done,      \* streamCommitWriter.done: "nil", "open", and "closed" once Close took it
  ticker,    \* the goroutine: "none", "running", "ended"
  ticks,     \* ticks so far
  metered,   \* events of this attempt given to ParseStreamEvent
  client,    \* what the client has been sent
  reply      \* "none", "stream", or "error": the JSON of writeError

writerVars == <<committed, written, done, ticker>>
copyVars   == <<pos, out, copyErr, metered>>
vars == <<mode, sticky, pc, attempt, copyVars, writerVars, ticks, client, reply>>

(* copyStreamAndMeterForRoute: bytes as they come; the Responses framer;      *)
(* a transformer of events; a transformer of raw chunks.                      *)
Modes == {"raw", "framed", "events", "chunks"}

Pieces == 1 .. 2 * Events

EventOf(p) == (p + 1) \div 2

Tokens == [kind : {"piece"}, from : 0 .. MaxAttempts, piece : Pieces]
            \cup {[kind |-> "keepalive"], [kind |-> "error"]}

TypeOK ==
  /\ mode \in Modes /\ sticky \in BOOLEAN
  /\ pc \in {"open", "copy", "decide", "close", "closed", "end"}
  /\ attempt \in 0 .. MaxAttempts
  /\ pos \in 0 .. 2 * Events
  /\ out \in Seq(Pieces) /\ Len(out) <= 2 * Events
  /\ copyErr \in {"none", "upstream", "client"}
  /\ committed \in BOOLEAN /\ written \in Nat
  /\ done \in {"nil", "open", "closed"} /\ ticker \in {"none", "running", "ended"}
  /\ ticks \in 0 .. MaxTicks
  /\ metered \subseteq 1 .. Events
  /\ client \in Seq(Tokens)
  /\ reply \in {"none", "stream", "error"}

Init ==
  /\ mode \in Modes /\ sticky \in BOOLEAN
  /\ pc = "open" /\ attempt = 0
  /\ pos = 0 /\ out = <<>> /\ copyErr = "none" /\ metered = {}
  /\ committed = FALSE /\ written = 0 /\ done = "nil" /\ ticker = "none"
  /\ ticks = 0 /\ client = <<>> /\ reply = "none"

-----------------------------------------------------------------------------
(* The attempts *)

(* openStreamWithRetryFromState returns a response: a new writer, a new        *)
(* accumulator, nothing read.                                                 *)
Open ==
  /\ pc = "open"
  /\ pc' = "copy"
  /\ pos' = 0 /\ out' = <<>> /\ copyErr' = "none" /\ metered' = {}
  /\ committed' = FALSE /\ written' = 0 /\ done' = "nil" /\ ticker' = "none"
  /\ UNCHANGED <<mode, sticky, attempt, ticks, client, reply>>

(* It returns an error, or an answer that is no stream: writeError or         *)
(* copyRouteResponse.                                                         *)
OpenFails ==
  /\ pc = "open"
  /\ pc' = "end" /\ reply' = "error"
  /\ UNCHANGED <<mode, sticky, attempt, copyVars, writerVars, ticks, client>>

(* Seeded bug: a stream is retried after its headers.                         *)
CanRetry_AfterCommit(err) ==
  err = "upstream" /\ ~ sticky /\ attempt + 1 < MaxAttempts

(* canRetryStreamBootstrap                                                    *)
CanRetry(err) ==
  /\ err = "upstream"
  /\ ~ committed /\ written = 0
  /\ ~ sticky
  /\ attempt + 1 < MaxAttempts

(* prepareStreamBootstrapRetry and closeStreamAttempt                         *)
RetryFrom ==
  /\ attempt' = attempt + 1
  /\ pc' = "open"
  /\ done' = IF done = "open" THEN "closed" ELSE done
  /\ UNCHANGED <<mode, sticky, copyVars, committed, written, ticker, ticks, client, reply>>

(* upstreamResponseBodyReader fails: nothing can have been committed.         *)
Undecodable ==
  /\ pc = "copy" /\ pos = 0 /\ ~ committed
  /\ IF CanRetry("upstream") THEN RetryFrom
     ELSE /\ pc' = "end" /\ reply' = "error"
          /\ UNCHANGED <<mode, sticky, attempt, copyVars, writerVars, ticks, client>>

-----------------------------------------------------------------------------
(* The copy loops *)

Span(a, b) == [i \in 1 .. b - a + 1 |-> a + i - 1]

(* Events whose blank line is among the first p pieces.                       *)
Whole(p) == {e \in 1 .. Events : 2 * e <= p}

(* What a read of the pieces up to p lets the loop write: a raw copy all of   *)
(* them, the others only whole events.                                        *)
Ready(p) == IF mode = "raw" THEN Span(pos + 1, p)
            ELSE Span(2 * Cardinality(Whole(pos)) + 1, 2 * Cardinality(Whole(p)))

(* src.Read.  With a transformer of events an event is metered as soon as it  *)
(* is whole, before it is written.                                            *)
Read ==
  /\ pc = "copy" /\ out = <<>> /\ copyErr = "none"
  /\ \E p \in {pos + 1, pos + 2} \cap Pieces :
       /\ pos' = p
       /\ out' = Ready(p)
       /\ metered' = IF mode = "events" THEN metered \cup Whole(p) ELSE metered
  /\ UNCHANGED <<mode, sticky, pc, attempt, copyErr, writerVars, ticks, client, reply>>

(* The upstream's connection breaks, the framer meets an event that is no     *)
(* JSON, or the transformer fails: the loop returns and what it had not       *)
(* written is lost.                                                           *)
ReadFails ==
  /\ pc = "copy" /\ copyErr = "none" /\ out = <<>>
  /\ copyErr' = "upstream" /\ pc' = "decide"
  /\ UNCHANGED <<mode, sticky, attempt, pos, out, metered, writerVars, ticks, client, reply>>

(* The client's context is canceled while the upstream is being read.         *)
Canceled ==
  /\ pc = "copy" /\ out = <<>>
  /\ copyErr' = "client" /\ pc' = "decide"
  /\ UNCHANGED <<mode, sticky, attempt, pos, out, metered, writerVars, ticks, client, reply>>

(* The upstream ends, perhaps after the data line of its last event: a raw    *)
(* copy has sent that and never meters it; the framer completes the event,    *)
(* the transformers process it.                                               *)
Eof ==
  /\ pc = "copy" /\ out = <<>> /\ copyErr = "none"
  /\ pos \in {2 * Events, 2 * Events - 1}
  /\ IF pos = 2 * Events - 1 /\ mode # "raw"
     THEN /\ out' = <<pos, pos + 1>>
          /\ pos' = pos + 1
          /\ metered' = IF mode = "events" THEN metered \cup {Events} ELSE metered
          /\ pc' = "copy"
     ELSE pc' = "decide" /\ UNCHANGED <<pos, out, metered>>
  /\ UNCHANGED <<mode, sticky, attempt, copyErr, writerVars, ticks, client, reply>>

-----------------------------------------------------------------------------
(* streamCommitWriter.  Write and the goroutine's tick hold the mutex from    *)
(* beginning to end, so each is one step.                                     *)

Sent(ps) == [i \in DOMAIN ps |-> [kind |-> "piece", from |-> attempt, piece |-> ps[i]]]

(* commitLocked: the first one sends the headers and starts the goroutine     *)
(* (without one when the interval is 0).                                      *)
CommitLocked ==
  /\ committed' = TRUE
  /\ IF committed \/ done = "open" THEN UNCHANGED <<done, ticker>>
     ELSE \/ done' = "open" /\ ticker' = "running"
          \/ UNCHANGED <<done, ticker>>

(* How much of out one Write takes: a transformer writes one event at a time, *)
(* the raw copy what it has read, and the framer's reader what fits into its  *)
(* buffer.                                                                    *)
Portions ==
  CASE mode = "raw"    -> {Len(out)}
    [] mode = "framed" -> 1 .. Len(out)
    [] OTHER           -> {2}

(* sseMeteringParser.feed, next to each Write: it sees an event when it sees  *)
(* its blank line.                                                            *)
Fed(n) ==
  IF mode = "events" THEN {}
  ELSE {EventOf(out[i]) : i \in {j \in 1 .. n : out[j] % 2 = 0}}

Write == \E n \in Portions :
  /\ pc = "copy" /\ out # <<>>
  /\ CommitLocked
  /\ client' = client \o Sent(SubSeq(out, 1, n))
  /\ written' = written + n
  /\ metered' = metered \cup Fed(n)
  /\ out' = SubSeq(out, n + 1, Len(out))
  /\ reply' = "stream"
  /\ UNCHANGED <<mode, sticky, pc, attempt, pos, copyErr, ticks>>

(* The client is gone: its headers may be written, its data is not.           *)
WriteFails ==
  /\ pc = "copy" /\ out # <<>>
  /\ CommitLocked
  /\ copyErr' = "client" /\ pc' = "decide"
  /\ reply' = "stream"
  /\ metered' = IF mode = "events" THEN metered ELSE metered \cup Fed(Len(out))
  /\ UNCHANGED <<mode, sticky, attempt, pos, out, written, ticks, client>>

(* Seeded bug: the goroutine does not look at writer.done again.              *)
Tick_Blind ==
  /\ ticker = "running" /\ ticks < MaxTicks
  /\ ticks' = ticks + 1
  /\ client' = Append(client, [kind |-> "keepalive"])
  /\ UNCHANGED <<mode, sticky, pc, attempt, copyVars, committed, written, done, ticker, reply>>

(* The timer fires: under the mutex the goroutine looks at writer.done again, *)
(* and writes; if that fails it gives up for good.                            *)
Tick ==
  /\ ticker = "running" /\ ticks < MaxTicks
  /\ ticks' = ticks + 1
  /\ IF done # "open" THEN ticker' = "ended" /\ UNCHANGED <<client, done>>
     ELSE \/ client' = Append(client, [kind |-> "keepalive"]) /\ UNCHANGED <<ticker, done>>
          \/ done' = "nil" /\ ticker' = "ended" /\ UNCHANGED client
  /\ UNCHANGED <<mode, sticky, pc, attempt, copyVars, committed, written, reply>>

(* It receives from the channel that Close closed.                            *)
TickerStops ==
  /\ ticker = "running" /\ done = "closed"
  /\ ticker' = "ended"
  /\ UNCHANGED <<mode, sticky, pc, attempt, copyVars, committed, written, done, ticks, client, reply>>

-----------------------------------------------------------------------------
(* After the copy *)

Retry == pc = "decide" /\ CanRetry(copyErr) /\ RetryFrom

(* Nothing was sent and there is no attempt left: an ordinary error answer.   *)
FailUnsent ==
  /\ pc = "decide" /\ copyErr # "none" /\ ~ CanRetry(copyErr)
  /\ ~ committed /\ written = 0
  /\ pc' = "end" /\ reply' = "error"
  /\ UNCHANGED <<mode, sticky, attempt, copyVars, writerVars, ticks, client>>

(* An empty stream is committed without a byte; an upstream that broke midway *)
(* is reported by an error event (whose Write may fail too).                  *)
Finish ==
  /\ pc = "decide" /\ (committed \/ copyErr = "none")
  /\ ~ CanRetry(copyErr)
  /\ CommitLocked
  /\ reply' = "stream"
  /\ \/ copyErr = "upstream" /\ client' = Append(client, [kind |-> "error"])
     \/ UNCHANGED client
  /\ pc' = "close"
  /\ UNCHANGED <<mode, sticky, attempt, copyVars, written, ticks>>

(* streamWriter.Close takes the channel under the mutex ...                   *)
Close ==
  /\ pc = "close"
  /\ done' = IF done = "open" THEN "closed" ELSE done
  /\ pc' = "closed"
  /\ UNCHANGED <<mode, sticky, attempt, copyVars, committed, written, ticker, ticks, client, reply>>

(* ... and the handler settles, records and returns while the goroutine may   *)
(* still be there.                                                            *)
Return ==
  /\ pc = "closed"
  /\ pc' = "end"
  /\ UNCHANGED <<mode, sticky, attempt, copyVars, writerVars, ticks, client, reply>>

Handler == \/ Open \/ OpenFails \/ Undecodable \/ Read \/ ReadFails \/ Canceled \/ Eof
           \/ Write \/ WriteFails \/ Retry \/ FailUnsent \/ Finish \/ Close \/ Return

Next == Handler \/ Tick \/ TickerStops

Spec == Init /\ [][Next]_vars

-----------------------------------------------------------------------------
(* Properties *)

IsPiece(i) == client[i].kind = "piece"

(* A client sees one answer: all its pieces come from the attempt under way,  *)
(* in order and without a gap, and an ordinary error answer is only given to  *)
(* a client that has been sent nothing (canRetryStreamBootstrap, and the      *)
(* branches of streamUpstream after the copy).                                *)
OneAnswer ==
  /\ \A i \in DOMAIN client : IsPiece(i) =>
       /\ client[i].from = attempt
       /\ \A p \in 1 .. client[i].piece : \E j \in 1 .. i : IsPiece(j) /\ client[j].piece = p
       /\ \A j \in 1 .. i - 1 : IsPiece(j) => client[j].piece < client[i].piece
  /\ reply = "error" => client = <<>>

(* Nothing is written to the connection once streamWriter.Close has returned: *)
(* net/http takes it back when the handler returns, whatever the goroutine    *)
(* does (startKeepAliveLocked, Close).                                        *)
SilentAfterClose == [][(pc \in {"closed", "end"}) => (client' = client)]_vars

(* A transformed stream is never cut: neither a keep-alive comment nor the    *)
(* error event comes between the two pieces of an event (Write of one event   *)
(* under the mutex).                                                          *)
TransformedEventsStayWhole ==
  mode \in {"events", "chunks"} =>
    \A i \in DOMAIN client :
      client[i].kind = "piece" /\ client[i].piece % 2 = 1 =>
        i < Len(client) /\ client[i + 1].kind = "piece"

(* Every event the client has been sent whole has been metered: what it is    *)
(* charged for includes the usage it was told (copyStreamAndMeterForRoute).   *)
RelayedIsMetered ==
  \A i \in DOMAIN client :
    client[i].kind = "piece" /\ client[i].piece % 2 = 0 => EventOf(client[i].piece) \in metered

=============================================================================
