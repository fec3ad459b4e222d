------------------------------- MODULE Overrides -------------------------------
(* What the gateway changes in one request on its way upstream and in the     *)
(* answer on its way back: the replay guard cuts long histories once, then     *)
(* every attempt rewrites the client's body by its route's system prompt and   *)
(* param override operations, gives it the route's model and headers, and the  *)
(* answer's status and text are mapped back.  A route that cannot be prepared  *)
(* ends the request.                                                           *)
(*                                                                             *)
(* A JSON document is a function from the paths it has (sequences of keys, <<>> *)
(* for itself) to what is there: Map, List or a text, which is <<"text">> and  *)
(* its pieces.  The children of a list are "0", "1", ...                       *)
EXTENDS Integers, Sequences, FiniteSets, SequencesExt

CONSTANTS Histories,     \* sequences of items [kind: plain, calls or answers; ids]
          Bodies,        \* documents
          Clients,       \* request headers: [HeaderNames -> sets of tokens]
          Routes,        \* [ops, allow, prompt, model, rules, never, also, map, texts]
          Settings,      \* of the gateway: [pass, overrides, drop], for the rules that match
          Statuses,      \* of upstream answers; 0 is no answer
          MaxItems,      \* replay_guard_max_items
          MaxAttempts,
          MaxOps, MaxLines  \* maxParamOverrideOperations, maxParamOverrideAuditLines

VARIABLES history,   \* [given, kept]: of the replay guard
          client,    \* [body, header, settings]
          route,     \* of the attempt
          attempt,
          stage,     \* "read", "route", "rewrite", "sent", "answered", "refused"
          doc,       \* the body as rewritten so far
          todo,      \* the operations left of this attempt
          header,    \* of the upstream request
          audit,     \* the lines r's context carries, of all attempts
          done,      \* the lines of this attempt
          status,    \* upstream's
          answer     \* [status, text, sized], to the client

vars == <<history, client, route, attempt, stage, doc, todo, header, audit, done, status, answer>>

Map == <<"map">>
List == <<"list">>
Text(s) == <<"text", s>>
IsText(node) == node[1] = "text"
HeaderNames == {"Anthropic-Beta", "X-Other"}
NoAnswer == [status |-> 0, text |-> <<>>, sized |-> TRUE]

-----------------------------------------------------------------------------
(* The replay guard.                                                          *)

NeedsPrevious(item) == item.kind = "answers"

PairNeedsPrevious(previous, item) == NeedsPrevious(item) /\ previous.kind = "calls"

(* The last item before n, or n itself, that needs none before it.            *)
Back(items, n) ==
  CHOOSE m \in 1 .. n : /\ m = 1 \/ ~NeedsPrevious(items[m])
                        /\ \A k \in m + 1 .. n : NeedsPrevious(items[k])

(* Back over calls that the kept answers belong to.                           *)
BackPairs(items, n) ==
  CHOOSE m \in 1 .. n : /\ m = 1 \/ ~PairNeedsPrevious(items[m - 1], items[m])
                        /\ \A k \in m + 1 .. n : PairNeedsPrevious(items[k - 1], items[k])

Trimmed(items) ==
  IF Len(items) <= MaxItems THEN items
  ELSE SubSeq(items, BackPairs(items, Back(items, Len(items) - MaxItems + 1)), Len(items))

-----------------------------------------------------------------------------
(* Documents.                                                                 *)

Under(d, p) == {q \in DOMAIN d : IsPrefix(p, q)}
Rest(p, q) == SubSeq(q, Len(p) + 1, Len(q))
At(d, p) == [r \in {Rest(p, q) : q \in Under(d, p)} |-> d[p \o r]]
Leaf(node) == [r \in {<<>>} |-> node]

Index == <<"0", "1", "2", "3", "4", "5">>
Place(k) == CHOOSE n \in DOMAIN Index : Index[n] = k
Count(d, p) == Cardinality({q \in Under(d, p) : Len(q) = Len(p) + 1})

(* A list on the way has no such index.                                       *)
BadIndex(d, p) ==
  \E n \in 0 .. Len(p) - 1 : LET q == SubSeq(p, 1, n)
                             IN  q \in DOMAIN d /\ d[q] = List /\ SubSeq(p, 1, n + 1) \notin DOMAIN d

(* setJSONPathAny: what is on the way and holds nothing becomes a map.         *)
Put(d, p, tree) ==
  LET way == {SubSeq(p, 1, n) : n \in 1 .. Len(p) - 1}
  IN  [q \in (DOMAIN d \ Under(d, p)) \cup way \cup {p \o r : r \in DOMAIN tree} |->
         IF IsPrefix(p, q) THEN tree[Rest(p, q)]
         ELSE IF q \in way /\ (q \notin DOMAIN d \/ IsText(d[q])) THEN Map ELSE d[q]]

(* The items of list l behind place n, one place down or up.                   *)
Moved(l, n, q, by) ==
  IF Len(q) > Len(l) /\ IsPrefix(l, q) /\ Place(q[Len(l) + 1]) >= n
    THEN [q EXCEPT ![Len(l) + 1] = Index[Place(@) + by]] ELSE q

(* deleteJSONPathAny: a list closes the gap.                                   *)
Delete(d, p) ==
  LET l == Front(p)
  IN  IF p \notin DOMAIN d THEN d
      ELSE IF d[l] # List THEN [q \in DOMAIN d \ Under(d, p) |-> d[q]]
      ELSE [q \in {Moved(l, Place(Last(p)) + 1, q, -1) : q \in DOMAIN d \ Under(d, p)} |->
              d[Moved(l, Place(Last(p)), q, 1)]]

(* A tree becomes item "0" of list l, or its last one.                         *)
InsertFirst(d, l, tree) ==
  [q \in {Moved(l, 1, r, 1) : r \in DOMAIN d} \cup {Append(l, "0") \o r : r \in DOMAIN tree} |->
     IF IsPrefix(Append(l, "0"), q) THEN tree[Rest(Append(l, "0"), q)] ELSE d[Moved(l, 2, q, -1)]]

InsertLast(d, l, tree) == Put(d, Append(l, Index[Count(d, l) + 1]), tree)

(* setJSONPathValue of the affinity rules knows maps only: a list or a text on *)
(* the way gives way to one.                                                   *)
PutMaps(d, p, tree) ==
  LET way == {SubSeq(p, 1, n) : n \in 1 .. Len(p) - 1}
      lost == UNION {Under(d, q) : q \in {r \in way \cap DOMAIN d : d[r] # Map}}
  IN  Put([q \in DOMAIN d \ lost |-> d[q]], p, tree)

-----------------------------------------------------------------------------
(* Param override operations: [op, path, from, to, value].                     *)

HeaderOp(o) == o.op \in {"set_header", "delete_header", "copy_header", "move_header", "pass_headers"}
Unsupported(o) == o.op = "unsupported"

Model == <<"model">>
KeyPaths == {Model, <<"service_tier">>}

TouchesModel(o) == Model \in {o.path, o.from, o.to}

Copied(d, o) == Put(d, o.to, At(d, o.from))

Fails(d, o) ==
  CASE o.op \in {"set", "delete"} -> BadIndex(d, o.path)
    [] o.op \in {"append", "prepend"} ->
         BadIndex(d, o.path) \/ (o.path \in DOMAIN d /\ d[o.path] = Map)
    [] o.op = "replace" -> BadIndex(d, o.path) \/ (o.path \in DOMAIN d /\ ~IsText(d[o.path]))
    [] OTHER -> \/ BadIndex(d, o.from)
                \/ o.from \in DOMAIN d /\ BadIndex(d, o.to)
                \/ o.from \in DOMAIN d /\ o.op = "move" /\ BadIndex(Copied(d, o), o.from)

Added(d, o) ==
  LET item == Leaf(Text(o.value))
      p == o.path
  IN  IF p \notin DOMAIN d THEN Put(d, p, InsertLast(Leaf(List), <<>>, item))
      ELSE IF d[p] = List THEN IF o.op = "append" THEN InsertLast(d, p, item) ELSE InsertFirst(d, p, item)
      ELSE [d EXCEPT ![p] = IF o.op = "append" THEN Append(@, o.value) ELSE Text(o.value) \o Tail(@)]

(* replaceJSONPath and regexReplaceJSONPath: every occurrence.                 *)
Replaced(d, o) ==
  IF o.path \notin DOMAIN d THEN d
  ELSE [d EXCEPT ![o.path] = [k \in DOMAIN @ |-> IF k > 1 /\ @[k] = o.from[1] THEN o.to[1] ELSE @[k]]]

Applied(d, o) ==
  CASE o.op = "set" -> Put(d, o.path, Leaf(Text(o.value)))
    [] o.op = "delete" -> Delete(d, o.path)
    [] o.op \in {"append", "prepend"} -> Added(d, o)
    [] o.op = "replace" -> Replaced(d, o)
    [] OTHER -> IF o.from \notin DOMAIN d THEN d
                ELSE IF o.op = "move" THEN Delete(Copied(d, o), o.from) ELSE Copied(d, o)

(* parseParamOverrideOperations: one it does not know refuses them all.        *)
Unparsable(r) == Len(r.ops) > MaxOps \/ \E k \in DOMAIN r.ops : Unsupported(r.ops[k])

(* The body's loop passes over what is for the headers, and over the model     *)
(* where the route does not allow it.                                          *)
Skipped(r, o) == \/ HeaderOp(o)
                 \/ ~r.allow /\ TouchesModel(o)

-----------------------------------------------------------------------------
(* The system prompt of the route.                                             *)

Messages == <<"messages">>
System == <<"system">>
Prompt == "prompt"

(* The places of the messages that are the system's.                          *)
SystemItems(d) == {n \in DOMAIN Index : LET role == <<"messages", Index[n], "role">>
                                        IN  role \in DOMAIN d /\ d[role] = Text("system")}

FirstSystem(d) == Append(Messages, Index[Min(SystemItems(d))])

SystemMessage == [q \in {<<>>, <<"role">>, <<"content">>} |->
                    IF q = <<>> THEN Map ELSE Text(IF q = <<"role">> THEN "system" ELSE Prompt)]

(* Content that is no text counts as none when the prompt is put before it.    *)
OpenAIPrompted(d, mode) ==
  LET content == Append(FirstSystem(d), "content")
  IN  IF SystemItems(d) = {} THEN InsertFirst(d, Messages, SystemMessage)
      ELSE IF mode = "if_absent" THEN d
      ELSE IF mode = "prepend" /\ content \in DOMAIN d /\ IsText(d[content])
        THEN [d EXCEPT ![content] = Text(Prompt) \o Tail(@)]
      ELSE Put(d, content, Leaf(Text(Prompt)))

AnthropicPrompted(d, mode) ==
  IF d[System] \in {<<"text">>, Map} \/ (Count(d, System) = 0 /\ d[System] = List)
    THEN Put(d, System, Leaf(Text(Prompt)))
  ELSE IF mode = "if_absent" THEN d
  ELSE IF mode = "replace" THEN Put(d, System, Leaf(Text(Prompt)))
  ELSE IF d[System] = List
    THEN InsertFirst(d, System, [q \in {<<>>, <<"text">>} |-> IF q = <<>> THEN Map ELSE Text(Prompt)])
  ELSE [d EXCEPT ![System] = Text(Prompt) \o Tail(@)]

Prompted(d, mode) ==
  IF mode = "none" THEN d
  ELSE IF Messages \in DOMAIN d /\ d[Messages] = List THEN OpenAIPrompted(d, mode)
  ELSE IF System \in DOMAIN d THEN AnthropicPrompted(d, mode)
  ELSE Put(d, System, Leaf(Text(Prompt)))

-----------------------------------------------------------------------------
(* The audit of the request.                                                   *)

Audited(o) == HeaderOp(o) \/ {o.path, o.to} \cap KeyPaths # {}

Line(o) == <<o.op, o.path, o.from, o.to>>
PromptLine(mode) == <<"system_prompt", <<mode>>, <<>>, <<>>>>

Recorded(lines, line) ==
  IF Contains(lines, line) \/ Len(lines) >= MaxLines THEN lines ELSE Append(lines, line)

HeaderRecorded(lines, o) == IF HeaderOp(o) THEN Recorded(lines, Line(o)) ELSE lines

-----------------------------------------------------------------------------
(* Headers.                                                                    *)

(* copyUpstreamRequestHeaders and the rules of the route: pass, set, remove.   *)
Ruled(r) ==
  [n \in HeaderNames |->
     IF n \in r.rules.remove THEN {}
     ELSE IF n \in r.rules.set THEN {Prompt}
     ELSE IF n \in r.rules.pass \cup {"Anthropic-Beta"} THEN client.header[n] ELSE {}]

(* The headers an affinity rule passes replace what is there.                  *)
PassedThrough(h) ==
  [n \in HeaderNames |-> IF n \in client.settings.pass /\ client.header[n] # {} THEN client.header[n] ELSE h[n]]

SourceValues(h, n) == IF h[n] = {} THEN client.header[n] ELSE h[n]

HeaderApplied(h, o) ==
  CASE ~HeaderOp(o) -> h
    [] o.op = "set_header" -> [h EXCEPT ![o.path[1]] = IF o.value = "" THEN {} ELSE {o.value}]
    [] o.op = "delete_header" -> [h EXCEPT ![o.path[1]] = {}]
    [] o.op = "pass_headers" ->
         [h EXCEPT ![o.path[1]] = IF client.header[o.path[1]] = {} THEN @ ELSE client.header[o.path[1]]]
    [] OTHER -> LET values == SourceValues(h, o.from[1])
                IN  IF values = {} THEN h
                    ELSE [n \in HeaderNames |-> IF o.op = "move_header" /\ n = o.from[1] THEN {}
                                                ELSE IF n = o.to[1] THEN values ELSE h[n]]

(* The beta policy of the gateway comes last.                                  *)
BetasLeft(h) == [n \in HeaderNames |-> IF n = "Anthropic-Beta" THEN h[n] \ client.settings.drop ELSE h[n]]

UpstreamHeader(r) == BetasLeft(FoldLeft(HeaderApplied, PassedThrough(Ruled(r)), r.ops))

-----------------------------------------------------------------------------
(* The attempts.                                                               *)

Init ==
  /\ history \in {[given |-> items, kept |-> items] : items \in Histories}
  /\ client \in [body : Bodies, header : Clients, settings : Settings]
  /\ route = CHOOSE r \in Routes : TRUE
  /\ attempt = 0 /\ stage = "read"
  /\ doc = client.body /\ todo = <<>> /\ header = client.header
  /\ audit = <<>> /\ done = {}
  /\ status = 0 /\ answer = NoAnswer

(* applyNorthboundReplayGuard, before the request is even looked at.           *)
Guard ==
  /\ stage = "read"
  /\ history' = [history EXCEPT !.kept = Trimmed(history.given)]
  /\ stage' = "route"
  /\ UNCHANGED <<client, route, attempt, doc, todo, header, audit, done, status, answer>>

(* Seeded bug: an attempt starts from what the last one left.                *)
StartsFrom_Last == doc

StartsFrom == client.body

(* An attempt takes a route, the same one again when the account is retried,   *)
(* and starts from the client's body: the prompt, then the operations.         *)
Attempt(r) ==
  /\ stage = "route" /\ attempt < MaxAttempts
  /\ LET d == Prompted(StartsFrom, r.prompt)
         lines == IF d = StartsFrom THEN {} ELSE {PromptLine(r.prompt)}
     IN  /\ route' = r /\ attempt' = attempt + 1
         /\ doc' = d
         /\ audit' = IF lines = {} THEN audit ELSE Recorded(audit, PromptLine(r.prompt))
         /\ done' = lines
         /\ todo' = r.ops
         /\ stage' = IF Unparsable(r) THEN "refused" ELSE "rewrite"
  /\ UNCHANGED <<history, client, header, status, answer>>

(* One operation, or the end of the request: other routes are not asked.       *)
Apply ==
  /\ stage = "rewrite" /\ todo # <<>>
  /\ LET o == Head(todo)
     IN  \/ /\ Skipped(route, o)
            /\ todo' = Tail(todo)
            /\ UNCHANGED <<doc, audit, done, stage>>
         \/ /\ ~Skipped(route, o) /\ Fails(doc, o)
            /\ stage' = "refused"
            /\ UNCHANGED <<doc, todo, audit, done>>
         \/ /\ ~Skipped(route, o) /\ ~Fails(doc, o)
            /\ doc' = Applied(doc, o) /\ todo' = Tail(todo)
            /\ audit' = IF Audited(o) THEN Recorded(audit, Line(o)) ELSE audit
            /\ done' = IF Audited(o) THEN done \cup {Line(o)} ELSE done
            /\ UNCHANGED stage
  /\ UNCHANGED <<history, client, route, attempt, header, status, answer>>

(* Affinity rules override parameters of their own, all but the model.         *)
Ruling(d, o) == IF o.path = Model THEN d ELSE PutMaps(d, o.path, Leaf(Text(o.value)))

RuleOverridden(d) == FoldLeft(Ruling, d, client.settings.overrides)

(* rewriteRequestModel: the route's model, where the body names one.           *)
WithModel(d, r) == IF r.model # "" /\ Model \in DOMAIN d THEN Put(d, Model, Leaf(Text(r.model))) ELSE d

Send ==
  /\ stage = "rewrite" /\ todo = <<>>
  /\ doc' = WithModel(RuleOverridden(doc), route)
  /\ header' = UpstreamHeader(route)
  /\ audit' = FoldLeft(HeaderRecorded, audit, route.ops)
  /\ done' = done \cup {Line(o) : o \in {p \in ToSet(route.ops) : HeaderOp(p)}}
  /\ stage' = "sent"
  /\ UNCHANGED <<history, client, route, attempt, todo, status, answer>>

Retryable(r, s) == s \notin r.never /\ (s \in r.also \/ s = 429 \/ s >= 500)

(* An upstream that does not answer, or answers what may be tried again.       *)
TryAgain(s) ==
  /\ stage = "sent" /\ attempt < MaxAttempts
  /\ s = 0 \/ Retryable(route, s)
  /\ status' = s /\ stage' = "route"
  /\ UNCHANGED <<history, client, route, attempt, doc, todo, header, audit, done, answer>>

ClientStatus(r, s) == IF \E m \in r.map : m[1] = s THEN (CHOOSE m \in r.map : m[1] = s)[2] ELSE s

Orders(S) == {f \in [1 .. Cardinality(S) -> S] : \A i, j \in 1 .. Cardinality(S) : i # j => f[i] # f[j]}

(* The rules are the members of a JSON object: they are applied in any order.  *)
Rewritings(r, text) ==
  {FoldLeft(LAMBDA t, rule : [k \in DOMAIN t |-> IF t[k] = rule[1] THEN rule[2] ELSE t[k]], text, order) :
     order \in Orders(r.texts)}

(* A text that changed loses its Content-Length, its Content-MD5, its ETag.    *)
Answer(s, text) ==
  /\ stage = "sent" /\ s # 0
  /\ Retryable(route, s) => attempt = MaxAttempts
  /\ status' = s
  /\ \E t \in Rewritings(route, text) :
       answer' = [status |-> ClientStatus(route, s), text |-> t, sized |-> t = text]
  /\ stage' = "answered"
  /\ UNCHANGED <<history, client, route, attempt, doc, todo, header, audit, done>>

GiveUp ==
  /\ stage = "sent" /\ attempt = MaxAttempts
  /\ status' = 0 /\ stage' = "refused"
  /\ UNCHANGED <<history, client, route, attempt, doc, todo, header, audit, done, answer>>

Next ==
  \/ Guard
  \/ \E r \in Routes : Attempt(r)
  \/ Apply
  \/ Send
  \/ \E s \in Statuses : TryAgain(s) \/ \E text \in {<<"here">>, <<"there", "else">>} : Answer(s, text)
  \/ GiveUp

Spec == Init /\ [][Next]_vars

-----------------------------------------------------------------------------

TypeOK ==
  /\ history.given \in Histories /\ route \in Routes
  /\ attempt \in 0 .. MaxAttempts
  /\ stage \in {"read", "route", "rewrite", "sent", "answered", "refused"}
  /\ \A q \in DOMAIN doc : q # <<>> => Front(q) \in DOMAIN doc /\ ~IsText(doc[Front(q)])
  /\ header \in [HeaderNames -> SUBSET UNION {h[n] : h \in Clients, n \in HeaderNames} \cup SUBSET {Prompt, "set"}]
  /\ Len(audit) <= MaxLines
  /\ status \in Statuses \cup {0}

(* What the route asks for is done to what the client sent, whatever earlier   *)
(* attempts asked for and however often the request was tried: the system      *)
(* prompt is told once, no route works on another's rewriting.                 *)
RetriesStartAfresh ==
  stage = "sent" =>
    LET Rewriting(d, o) == IF Skipped(route, o) THEN d ELSE Applied(d, o)
    IN  doc = WithModel(RuleOverridden(FoldLeft(Rewriting, Prompted(client.body, route.prompt), route.ops)), route)

(* The usage record of the request names everything audited that its last      *)
(* attempt did, once, unless its lines are full: with those of earlier         *)
(* attempts, whose routes did not serve it.                                    *)
AuditTellsWhatWasDone ==
  stage \in {"sent", "answered"} =>
    /\ done \subseteq ToSet(audit) \/ Len(audit) = MaxLines
    /\ IsInjective(audit)

(* A route that does not allow overriding the model is asked for its own model *)
(* by every request that names one: no operation takes it away, and one that   *)
(* writes below it is undone.                                                  *)
RouteModelIsAsked ==
  stage = "sent" /\ ~route.allow /\ route.model # "" /\ Model \in DOMAIN client.body =>
    Model \in DOMAIN doc /\ doc[Model] = Text(route.model)

(* What the replay guard leaves of a history is its end, no shorter than it     *)
(* must be, and no cut is made between a call and the answers that follow it   *)
(* directly.                                                                   *)
CutsSpareTheLastCall ==
  LET given == history.given
      cut == Len(given) - Len(history.kept)
  IN  /\ cut \in 0 .. Len(given)
      /\ history.kept = SubSeq(given, cut + 1, Len(given))
      /\ cut > 0 => Len(history.kept) >= MaxItems
      /\ \A c \in 1 .. cut, a \in cut + 1 .. Len(given) :
           given[c].kind = "calls" => \E k \in c + 1 .. a : given[k].kind # "answers"

(* Every answer the replay guard keeps has its call: trimming preserves the    *)
(* tool boundary.                                                              *)
AnswersHaveTheirCalls ==
  \A k \in DOMAIN history.kept :
    history.kept[k].kind = "answers" =>
      \A g \in DOMAIN history.given :
        /\ history.given[g].kind = "calls"
        /\ history.given[g].ids \cap history.kept[k].ids # {}
        => Contains(history.kept, history.given[g])

(* No beta the gateway's policy drops is asked of an upstream, whatever the    *)
(* route's rules, the affinity rules and the header operations bring back.     *)
DroppedBetasAreDropped ==
  stage = "sent" => header["Anthropic-Beta"] \cap client.settings.drop = {}
=============================================================================
