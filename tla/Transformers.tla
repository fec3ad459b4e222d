---------------------------- MODULE Transformers ----------------------------
(* Streams of Gemini CLI, Antigravity and Kiro accounts are rewritten into    *)
(* OpenAI chat chunks, event by event; an answer that is not streamed is      *)
(* rewritten as a whole.  This module runs both on one upstream answer: the   *)
(* state machine of the streaming transformer and, as the reference, the      *)
(* function that rewrites the whole answer.                                   *)
(*                                                                            *)
(* A Gemini answer is a sequence of events, each a sequence of candidates     *)
(* [index, parts, reason].  A Kiro answer is a sequence of frames, which      *)
(* arrive cut anywhere: each is two halves.  Texts, names and arguments are   *)
(* values that can be told apart.                                             *)
EXTENDS Integers, Sequences, FiniteSets, SequencesExt

CONSTANTS GeminiEvents,   \* the events an upstream may send
          KiroFrames,     \* the frames an upstream may send
          MaxEvents, MaxFrames

VARIABLES dialect,  \* "gemini" or "kiro"
          input,    \* events or frames sent so far
          halves,   \* Kiro: halves of frames sent
          st,       \* the transformer
          chunks,   \* what it has written
          over      \* Finish was called

vars == <<dialect, input, halves, st, chunks, over>>

Indexes == 0 .. 1

-----------------------------------------------------------------------------
(* geminiCLIChatSSETransformer *)

GeminiStart == [seen |-> <<>>, role |-> {}, finish |-> [i \in Indexes |-> ""], tools |-> 0]

(* geminiCLIMapFinishReason *)
MapFinishReason(reason, hasToolCalls) ==
  IF hasToolCalls THEN "tool_calls"
  ELSE IF reason \in {"", "STOP"} THEN "stop"
  ELSE IF reason = "MAX_TOKENS" THEN "length"
  ELSE "content_filter"

MarkIndex(t, i) == IF i \in ToSet(t.seen) THEN t ELSE [t EXCEPT !.seen = Append(@, i)]

(* A transformer and what it has written, after one more chunk: the first of  *)
(* a choice carries the role.                                                 *)
Chunk(r, i, delta) ==
  [t   |-> [r.t EXCEPT !.role = @ \cup {i}],
   out |-> Append(r.out, [index |-> i, role |-> i \notin r.t.role, delta |-> delta, finish |-> ""])]

Delta(kind, value, n) == [kind |-> kind, value |-> value, n |-> n]

(* One part: a function call has its own chunk, index and finish reason; a    *)
(* text without characters is skipped.                                        *)
PutPart(r, i, part) ==
  CASE part.kind = "empty" -> r
    [] part.kind = "call"  ->
         LET c == Chunk(r, i, Delta("call", part.value, r.t.tools))
         IN  [t |-> [c.t EXCEPT !.tools = @ + 1, !.finish[i] = "tool_calls"], out |-> c.out]
    [] OTHER -> Chunk(r, i, Delta(part.kind, part.value, 0))

(* A candidate's finish reason is stored before its parts are looked at.      *)
PutCandidate(r, c) ==
  LET marked == MarkIndex(r.t, c.index)
      t      == IF c.reason = "" THEN marked
                ELSE [marked EXCEPT !.finish[c.index] = MapFinishReason(c.reason, FALSE)]
  IN  FoldLeft(LAMBDA q, p : PutPart(q, c.index, p), [t |-> t, out |-> r.out], c.parts)

GeminiEvent(event) == FoldLeft(PutCandidate, [t |-> st, out |-> chunks], event)

(* Finish: one chunk with the reasons of all choices, then [DONE].            *)
GeminiFinish ==
  LET t == IF st.seen = <<>> THEN MarkIndex(st, 0) ELSE st
  IN  [k \in DOMAIN t.seen |->
         [index |-> t.seen[k], role |-> FALSE, delta |-> Delta("none", "", 0),
          finish |-> IF t.finish[t.seen[k]] = "" THEN "stop" ELSE t.finish[t.seen[k]]]]

-----------------------------------------------------------------------------
(* kiroEventStreamParser and kiroRawStreamTransformer *)

NoTool == [name |-> "", args |-> <<>>]

KiroStart == [half |-> 0, last |-> "", open |-> FALSE, tool |-> NoTool, calls |-> <<>>, role |-> FALSE]

(* finalizeToolCall: a tool without a name is dropped; arguments that are no  *)
(* JSON become {}.                                                            *)
Finalize(t) ==
  [t EXCEPT !.open = FALSE, !.tool = NoTool,
            !.calls = IF ~ t.open \/ t.tool.name = "" THEN @
                      ELSE Append(@, [name |-> t.tool.name,
                                      args |-> IF "broken" \in ToSet(t.tool.args) THEN <<>> ELSE t.tool.args])]

(* Seeded bug: a new tool replaces the one that is open.                      *)
KiroProcess_Replace(t, f) ==
  CASE f.kind = "content" -> IF f.value \in {"", t.last} THEN t ELSE [t EXCEPT !.last = f.value]
    [] f.kind = "start" ->
         LET s == [t EXCEPT !.open = TRUE, !.tool = [name |-> f.value, args |-> f.args]]
         IN  IF f.stop THEN Finalize(s) ELSE s
    [] f.kind = "input" -> IF t.open THEN [t EXCEPT !.tool.args = @ \o f.args] ELSE t
    [] f.kind = "stop"  -> Finalize(t)
    [] OTHER            -> t

(* process: a text that repeats the last one is skipped; a tool starts, is    *)
(* given input, and is finalized by a stop or by the next start.              *)
KiroProcess(t, f) ==
  CASE f.kind = "content" -> IF f.value \in {"", t.last} THEN t ELSE [t EXCEPT !.last = f.value]
    [] f.kind = "start" ->
         LET s == [Finalize(t) EXCEPT !.open = TRUE, !.tool = [name |-> f.value, args |-> f.args]]
         IN  IF f.stop THEN Finalize(s) ELSE s
    [] f.kind = "input" -> IF t.open THEN [t EXCEPT !.tool.args = @ \o f.args] ELSE t
    [] f.kind = "stop"  -> Finalize(t)
    [] OTHER            -> t

(* TransformChunk for one complete frame: only texts are written at once.     *)
KiroFrame(r, f) ==
  LET t    == KiroProcess(r.t, f)
      text == f.kind = "content" /\ f.value \notin {"", r.t.last}
  IN  [t   |-> [t EXCEPT !.role = @ \/ text],
       out |-> IF ~ text THEN r.out
               ELSE Append(r.out, [index |-> 0, role |-> ~ r.t.role,
                                   delta |-> Delta("content", f.value, 0), finish |-> ""])]

(* Feed keeps what is not complete: after n halves the first n \div 2 frames  *)
(* have been processed.                                                       *)
KiroFeed(n) == FoldLeft(KiroFrame, [t |-> [st EXCEPT !.half = n], out |-> chunks],
                        SubSeq(input, st.half \div 2 + 1, n \div 2))

(* Finish: the open tool is finalized, all calls go out in one chunk, then    *)
(* the reason and [DONE].                                                     *)
KiroFinish ==
  LET t == Finalize(st)
      calls == [k \in DOMAIN t.calls |->
                  [index |-> 0, role |-> k = 1 /\ ~ t.role,
                   delta |-> Delta("call", t.calls[k], k - 1), finish |-> ""]]
  IN  calls \o <<[index |-> 0, role |-> FALSE, delta |-> Delta("none", "", 0),
                  finish |-> IF t.calls = <<>> THEN "stop" ELSE "tool_calls"]>>

-----------------------------------------------------------------------------
TypeOK ==
  /\ dialect \in {"gemini", "kiro"} /\ over \in BOOLEAN
  /\ input \in Seq(IF dialect = "gemini" THEN GeminiEvents ELSE KiroFrames)
  /\ Len(input) <= IF dialect = "gemini" THEN MaxEvents ELSE MaxFrames
  /\ halves \in 0 .. 2 * MaxFrames
  /\ dialect = "kiro" => st.half <= halves
  /\ \A k \in DOMAIN chunks :
       /\ chunks[k].index \in Indexes
       /\ chunks[k].finish \in {"", "stop", "length", "tool_calls", "content_filter"}

Init ==
  /\ dialect \in {"gemini", "kiro"}
  /\ input = <<>> /\ halves = 0 /\ chunks = <<>> /\ over = FALSE
  /\ st = IF dialect = "gemini" THEN GeminiStart ELSE KiroStart

(* TransformEvent; an event that is no JSON changes nothing.                  *)
TransformEvent ==
  /\ dialect = "gemini" /\ ~ over /\ Len(input) < MaxEvents
  /\ \E event \in GeminiEvents :
       /\ input' = Append(input, event)
       /\ st' = GeminiEvent(event).t
       /\ chunks' = GeminiEvent(event).out
  /\ UNCHANGED <<dialect, halves, over>>

(* The upstream of a Kiro account decides on its next frame ...               *)
SendFrame ==
  /\ dialect = "kiro" /\ ~ over /\ halves = 2 * Len(input) /\ Len(input) < MaxFrames
  /\ \E f \in KiroFrames, m \in 1 .. 2 : input' = Append(input, f) /\ halves' = halves + m
  /\ UNCHANGED <<dialect, st, chunks, over>>

SendRest ==
  /\ dialect = "kiro" /\ ~ over /\ halves = 2 * Len(input) - 1
  /\ halves' = halves + 1
  /\ UNCHANGED <<dialect, input, st, chunks, over>>

(* ... and TransformChunk gets what has come since the last time.             *)
TransformChunk ==
  /\ dialect = "kiro" /\ ~ over /\ halves > st.half
  /\ st' = KiroFeed(halves).t
  /\ chunks' = KiroFeed(halves).out
  /\ UNCHANGED <<dialect, input, halves, over>>

Finish ==
  /\ ~ over
  /\ dialect = "kiro" => halves = st.half /\ halves = 2 * Len(input)
  /\ over' = TRUE
  /\ chunks' = chunks \o (IF dialect = "gemini" THEN GeminiFinish ELSE KiroFinish)
  /\ UNCHANGED <<dialect, input, halves, st>>

Next == TransformEvent \/ SendFrame \/ SendRest \/ TransformChunk \/ Finish

Spec == Init /\ [][Next]_vars

-----------------------------------------------------------------------------
(* The reference: the same answer, not streamed *)

(* The elements of s whose field says v, in order.                            *)
Having(s, field, v) == FoldLeft(LAMBDA kept, x : IF x[field] = v THEN Append(kept, x) ELSE kept, <<>>, s)

(* Sequences, one after the other.                                            *)
Flat(ss) == FoldLeft(LAMBDA flat, s : flat \o s, <<>>, ss)

(* All candidates of index i, one after the other.                            *)
CandidatesOf(i) == Having(Flat(input), "index", i)

PartsOf(i) == Flat([k \in DOMAIN CandidatesOf(i) |-> CandidatesOf(i)[k].parts])

Pick(s, kind) == Having(s, "kind", kind)

Values(s) == [k \in DOMAIN s |-> s[k].value]

LastReason(i) == FoldLeft(LAMBDA last, c : IF c.reason = "" THEN last ELSE c.reason, "", CandidatesOf(i))

(* geminiCLIMessagePartsFromCandidate and geminiCLIChoiceFromCandidate        *)
GeminiChoice(i) ==
  [content |-> Values(Pick(PartsOf(i), "content")),
   reasoning |-> Values(Pick(PartsOf(i), "reasoning")),
   calls |-> Values(Pick(PartsOf(i), "call")),
   finish |-> MapFinishReason(LastReason(i), Pick(PartsOf(i), "call") # <<>>)]

(* kiroCollectStreamResult, from the frames and not from a parser: a text     *)
(* counts unless it is empty or repeats the one before ...                    *)
KiroTexts(frames) ==
  FoldLeft(LAMBDA texts, x : IF x = "" \/ (texts # <<>> /\ Last(texts) = x) THEN texts ELSE Append(texts, x),
           <<>>, Values(Pick(frames, "content")))

(* ... and a tool's arguments are those of the inputs up to the next start or *)
(* stop.                                                                      *)
Ranked(P, n) == {k \in P : Cardinality({j \in P : j <= k}) = n}

InOrder(P) == [n \in 1 .. Cardinality(P) |-> CHOOSE k \in Ranked(P, n) : TRUE]

InputsOf(frames, k) ==
  {j \in k + 1 .. Len(frames) :
     /\ frames[j].kind = "input" /\ ~ frames[k].stop
     /\ \A e \in k + 1 .. j : frames[e].kind \notin {"start", "stop"}}

KiroArgs(frames, k) ==
  LET order == InOrder(InputsOf(frames, k))
      args  == frames[k].args \o Flat([n \in DOMAIN order |-> frames[order[n]].args])
  IN  IF "broken" \in ToSet(args) THEN <<>> ELSE args

(* The calls that begin at the frames P.                                      *)
CallsAt(frames, P) ==
  [n \in DOMAIN InOrder(P) |->
     [name |-> frames[InOrder(P)[n]].value, args |-> KiroArgs(frames, InOrder(P)[n])]]

Starts(frames) == {k \in DOMAIN frames : frames[k].kind = "start" /\ frames[k].value # ""}

KiroChoice ==
  [content |-> KiroTexts(input), reasoning |-> <<>>, calls |-> CallsAt(input, Starts(input)),
   finish |-> IF Starts(input) = {} THEN "stop" ELSE "tool_calls"]

Choice(i) == IF dialect = "gemini" THEN GeminiChoice(i) ELSE KiroChoice

(* What a client puts together from the chunks of choice i.                   *)
ChunksOf(i) == Having(chunks, "index", i)

DeltasOf(s) == [k \in DOMAIN s |-> s[k].delta]

Deltas(i, kind) == Values(Pick(DeltasOf(ChunksOf(i)), kind))

-----------------------------------------------------------------------------
(* Properties *)

(* A client that streams is told the same texts, thoughts and tool calls, in  *)
(* the same order, as one that does not (TransformEvent, TransformChunk and   *)
(* Finish against the functions that rewrite a whole answer).                 *)
StreamTellsTheAnswer ==
  over => \A i \in Indexes :
    ChunksOf(i) # <<>> =>
      /\ Deltas(i, "content") = Choice(i).content
      /\ Deltas(i, "reasoning") = Choice(i).reasoning
      /\ Deltas(i, "call") = Choice(i).calls

(* The chunks are what an OpenAI client expects: the role once and first,     *)
(* one finish reason per choice and last, and no two tool calls of a choice   *)
(* with one index, by which the client would merge them.                      *)
ChunksAreWellFormed ==
  over => \A i \in Indexes :
    LET s == ChunksOf(i) IN
      \A k \in DOMAIN s :
        /\ s[k].role => k = 1
        /\ (k = 1 /\ s[k].delta.kind # "none") => s[k].role
        /\ (s[k].finish # "") <=> (k = Len(s))
        /\ \A l \in DOMAIN s :
             (k # l /\ s[k].delta.kind = "call" /\ s[l].delta.kind = "call")
               => s[k].delta.n # s[l].delta.n

=============================================================================
