------------------------------- MODULE Relay -------------------------------
(* What happens to one call between the wallet and the upstream, a part at a  *)
(* time: a behaviour belongs to the part that is drawn when it begins, and    *)
(* the variables of the other parts are Off.  The parts share no state in the *)
(* code either; each has its own module.                                      *)
EXTENDS Integers, Sequences, FiniteSets

CONSTANTS StreamEvents, StreamAttempts, StreamTicks
CONSTANTS Sessions, Accounts, NoAccount, MaxConcurrency, DialAttempts, Meetings
CONSTANTS GeminiEvents, KiroFrames, MaxEvents, MaxFrames
CONSTANTS Sayings, Options, Ids, NoRequest, MaxMessages
CONSTANTS Histories, Bodies, Clients, Routes, Globals, Statuses, MaxItems, RouteAttempts, MaxOps, MaxLines
CONSTANTS Nodes, Lookups, Administrators, Drafts, Utterances, Lifetime, MaxTime, MaxSaves, MaxLookups

(* An answer has some number of events, an answer is asked for some number of *)
(* times, and the bound on the ticks is a number.                             *)
ASSUME StreamAssumption ==
  StreamEvents \in Nat /\ StreamAttempts \in Nat /\ StreamTicks \in Nat

(* There are finitely many sessions, every one of a kind, and no account is   *)
(* what stands for the lack of one.                                           *)
ASSUME SessionAssumption ==
  /\ IsFiniteSet(Sessions)
  /\ NoAccount \notin Accounts
  /\ MaxConcurrency \in Nat
  /\ Meetings \subseteq [Sessions -> {"realtime", "responses", "sidecar", "call"}]

(* A copy lives for some time.  A turn's names are those it was written with, *)
(* of which there are finitely many, and settings say which rules hold.       *)
ASSUME SettingAssumption ==
  /\ Lifetime \in Nat /\ MaxTime \in Nat
  /\ Nodes # {}
  /\ Drafts \subseteq [digest : BOOLEAN, items : Int,
                       rule : [header : BOOLEAN, fields : BOOLEAN, model : BOOLEAN]]
  /\ Utterances \subseteq [header : STRING, query : STRING, root : SUBSET STRING,
                           below : SUBSET STRING, input : BOOLEAN, text : STRING,
                           trace : STRING, model : STRING]
  /\ \A t \in Utterances : IsFiniteSet(t.root) /\ IsFiniteSet(t.below)

VARIABLE part

(* Of StreamRelay, WebSockets, Transformers, Conversations, Overrides and     *)
(* ProxySettings.                                                             *)
VARIABLES mode, sticky, pc, attempt, pos, out, copyErr, committed, written, done,
          ticker, ticks, metered, client, reply
VARIABLES ses, active
VARIABLES dialect, input, halves, st, chunks, over
VARIABLES told, gemini, agy, kiro, names, options, request
VARIABLES history, asking, route, try, stage, doc, todo, header, audit, lines, status, answer
VARIABLES saved, when, racing, clock, cache, lookup, save, keys

streamVars   == <<mode, sticky, pc, attempt, pos, out, copyErr, committed, written, done,
                  ticker, ticks, metered, client, reply>>
sessionVars  == <<ses, active>>
answerVars   == <<dialect, input, halves, st, chunks, over>>
requestVars  == <<told, gemini, agy, kiro, names, options, request>>
overrideVars == <<history, asking, route, try, stage, doc, todo, header, audit, lines,
                  status, answer>>
settingVars  == <<saved, when, racing, clock, cache, lookup, save, keys>>
vars == <<part, streamVars, sessionVars, answerVars, requestVars, overrideVars, settingVars>>

-----------------------------------------------------------------------------
R == INSTANCE StreamRelay WITH
       Events <- StreamEvents, MaxAttempts <- StreamAttempts, MaxTicks <- StreamTicks

W == INSTANCE WebSockets WITH MaxAttempts <- DialAttempts

T == INSTANCE Transformers

C == INSTANCE Conversations WITH Messages <- Sayings

O == INSTANCE Overrides WITH
       client <- asking, attempt <- try, done <- lines, Settings <- Globals, MaxAttempts <- RouteAttempts

S == INSTANCE ProxySettings WITH
       request <- lookup, Requests <- Lookups, Settings <- Drafts, Turns <- Utterances,
       MaxRequests <- MaxLookups

(* What an operation or a rule writes has a place below the document, which   *)
(* is a map, and at least one item of a history is kept.                      *)
OverridesWellFormed ==
  /\ MaxItems \in Nat \ {0} /\ MaxLines \in Nat
  /\ Histories \subseteq Seq([kind : {"plain", "calls", "answers"}, ids : SUBSET Nat])
  /\ \A d \in Bodies : <<>> \in DOMAIN d /\ d[<<>>] = O!Map
  /\ \A r \in Routes :
       /\ r.ops \in Seq([op : STRING, path : Seq(STRING), from : Seq(STRING), to : Seq(STRING), value : STRING])
       /\ \A k \in DOMAIN r.ops :
            LET o == r.ops[k]
            IN  \/ O!HeaderOp(o) \/ O!Unsupported(o)
                \/ o.op \in {"copy", "move"} /\ o.from # <<>> /\ o.to # <<>>
                \/ o.op \in {"set", "delete", "append", "prepend", "replace"} /\ o.path # <<>>
  /\ \A s \in Globals :
       /\ s.overrides \in Seq([op : STRING, path : Seq(STRING), from : Seq(STRING), to : Seq(STRING), value : STRING])
       /\ \A k \in DOMAIN s.overrides : s.overrides[k].path # <<>>

ASSUME OverrideAssumption == OverridesWellFormed

(* An upstream's events and frames, and a client's messages, are what they    *)
(* are said to be, and a call's id is one of those there are.                 *)
Pieces == [kind : {"content", "reasoning", "call", "empty"}, value : STRING]

TranslationWellFormed ==
  /\ MaxEvents \in Nat /\ MaxFrames \in Nat /\ MaxMessages \in Nat
  /\ GeminiEvents \subseteq Seq([index : T!Indexes, parts : Seq(Pieces), reason : STRING])
  /\ KiroFrames \subseteq [kind : STRING, value : STRING, args : Seq(STRING), stop : BOOLEAN]
  /\ Sayings \subseteq [role : STRING, text : BOOLEAN, image : STRING, calls : Seq([id : Ids, name : STRING]),
                        block : STRING, id : Ids, name : STRING, args : STRING]
  /\ \A o \in Options : /\ o.functions \in BOOLEAN
                        /\ o.effort = "absent" \/ o.effort \in DOMAIN C!Efforts

ASSUME TranslationAssumption == TranslationWellFormed

-----------------------------------------------------------------------------
Off == "off"

StreamOff == /\ mode = Off /\ sticky = Off /\ pc = Off /\ attempt = Off /\ pos = Off
             /\ out = Off /\ copyErr = Off /\ committed = Off /\ written = Off /\ done = Off
             /\ ticker = Off /\ ticks = Off /\ metered = Off /\ client = Off /\ reply = Off

SessionOff == /\ ses = [s \in Sessions |-> [pc |-> Off, client |-> Off, upstream |-> Off]]
              /\ active = Off

AnswerOff == dialect = Off /\ input = Off /\ halves = Off /\ st = Off /\ chunks = Off /\ over = Off

RequestOff == /\ told = Off /\ gemini = Off /\ agy = Off /\ kiro = Off /\ names = Off
              /\ options = Off /\ request = Off

OverrideOff == /\ history = Off /\ asking = Off /\ route = Off /\ try = Off /\ stage = Off
               /\ doc = Off /\ todo = Off /\ header = Off /\ audit = Off /\ lines = Off
               /\ status = Off /\ answer = Off

SettingOff == /\ saved = Off /\ when = Off /\ racing = Off /\ clock = Off /\ cache = Off
              /\ lookup = Off /\ save = Off /\ keys = Off

Init ==
  /\ part \in {"stream", "session", "answer", "request", "override", "setting"}
  /\ IF part = "stream" THEN R!Init ELSE StreamOff
  /\ IF part = "session" THEN W!Init ELSE SessionOff
  /\ IF part = "answer" THEN T!Init ELSE AnswerOff
  /\ IF part = "request" THEN C!Init ELSE RequestOff
  /\ IF part = "override" THEN O!Init ELSE OverrideOff
  /\ IF part = "setting" THEN S!Init ELSE SettingOff

Session(A) ==
  /\ part = "session" /\ A
  /\ UNCHANGED <<part, streamVars, answerVars, requestVars, overrideVars, settingVars>>

Next ==
  \/ /\ part = "stream" /\ R!Next
     /\ UNCHANGED <<part, sessionVars, answerVars, requestVars, overrideVars, settingVars>>
  \/ Session(W!Next)
  \/ /\ part = "answer" /\ T!Next
     /\ UNCHANGED <<part, streamVars, sessionVars, requestVars, overrideVars, settingVars>>
  \/ /\ part = "request" /\ C!Next
     /\ UNCHANGED <<part, streamVars, sessionVars, answerVars, overrideVars, settingVars>>
  \/ /\ part = "override" /\ O!Next
     /\ UNCHANGED <<part, streamVars, sessionVars, answerVars, requestVars, settingVars>>
  \/ /\ part = "setting" /\ S!Next
     /\ UNCHANGED <<part, streamVars, sessionVars, answerVars, requestVars, overrideVars>>

(* Of the parts only the sessions need fairness.                              *)
Spec ==
  /\ Init /\ [][Next]_vars
  /\ \A s \in Sessions : /\ WF_vars(Session(W!Handler(s)))
                         /\ WF_vars(Session(W!ClientReadFails(s)))
                         /\ WF_vars(Session(W!UpstreamReadFails(s)))

-----------------------------------------------------------------------------
(* The state of the part that runs has its type.                              *)
TypeOK ==
  CASE part = "stream"   -> R!TypeOK
    [] part = "session"  -> W!TypeOK
    [] part = "answer"   -> T!TypeOK
    [] part = "request"  -> C!TypeOK
    [] part = "override" -> O!TypeOK
    [] part = "setting"  -> S!TypeOK

(* A streaming client sees one answer, whose transformed events are never cut *)
(* by another writer, and every event it has been sent whole is metered       *)
(* (streamUpstream, streamCommitWriter, copyStreamAndMeterForRoute).          *)
StreamIsOneAnswer ==
  part = "stream" => R!OneAnswer /\ R!TransformedEventsStayWhole /\ R!RelayedIsMetered

(* Nothing is written once streamWriter.Close has returned, whatever the      *)
(* keep-alive goroutine does.                                                 *)
SilentAfterClose == R!SilentAfterClose

(* However a WebSocket session ends, its account has its slot back, its claim *)
(* and usage record agree with its reservation, and the usage it was told of  *)
(* is what it is charged by (northboundRealtimeWebSocket and its like).       *)
SessionsSettle ==
  part = "session" => W!SlotsReturned /\ W!EndedIsClosed /\ W!RelayedUsageIsCharged

(* When either side ends its connection the session ends.                     *)
SessionsEnd == W!SessionsEnd

(* A client that streams is told the texts, thoughts and calls that one that  *)
(* does not is told, in chunks with one role and one finish reason (of any    *)
(* value) per choice: geminiCLIChatSSETransformer and kiroRawStreamTransformer*)
(* against the rewriting of a whole answer.  Kiro hears every turn once and   *)
(* in alternation, a tool's answer is named after its call, and thoughts are  *)
(* asked for when there is a budget (kiroOpenAIChatRequestBody and its like). *)
TranslationIsFaithful ==
  /\ part = "answer"  => T!StreamTellsTheAnswer /\ T!ChunksAreWellFormed
  /\ part = "request" => /\ C!KiroHearsEverything /\ C!KiroTakesTurns
                         /\ C!AnswersNameTheirCall /\ C!ThoughtsHaveABudget

(* Every attempt rewrites what the client sent, for its own route: no earlier *)
(* attempt leaves a trace but its audit lines; the route's model is asked for *)
(* and dropped betas stay dropped; a history is cut only once, at its front,  *)
(* and not between a call and the answers that follow it directly             *)
(* (applyReverseProxyParamOverrides, rewriteRequestModel, replay_guard.go).   *)
AttemptsStartAfresh ==
  part = "override" => /\ O!RetriesStartAfresh /\ O!AuditTellsWhatWasDone
                       /\ O!RouteModelIsAsked /\ O!DroppedBetasAreDropped
                       /\ O!CutsSpareTheLastCall

(* The replay guard trims a history preserving the tool boundary: no answer   *)
(* is left without its call                                                   *)
(* (TestReplayGuardTrimsLongMessagesPreservingToolBoundary).                  *)
TrimmingKeepsToolBoundaries == part = "override" => O!AnswersHaveTheirCalls

(* No request works by settings replaced longer ago than a copy lives, and    *)
(* turns of one conversation have one routing key (reverseProxySettings,      *)
(* responseRouteAffinityDigest).                                              *)
SettingsAreFresh ==
  part = "setting" => S!SettingsAreFresh /\ S!OneKeyPerConversation
=============================================================================
