---------------------------- MODULE Conversations ----------------------------
(* How a chat completion request becomes the request of a provider that does  *)
(* not speak the protocol: the messages are read in order and each is told to *)
(* Gemini (Code Assist), to Antigravity and to Kiro in their own form.  Gemini *)
(* and Antigravity take contents and a separate system instruction; Kiro takes *)
(* a history in which user and assistant alternate and one current message,   *)
(* so entries are made up where a turn is missing.                            *)
(*                                                                            *)
(* A message says [role, text, image, calls, block, id, name, args]: whether   *)
(* it has text, what image, the tool calls [id, name], a block of its content *)
(* that uses a tool or gives its result, and of a tool's answer the call's id *)
(* and the tool's name.  A part remembers the message it is from.             *)
EXTENDS Integers, Sequences, FiniteSets, SequencesExt

CONSTANTS Messages,    \* what a client says
          Options,     \* what it asks for besides
          Ids,         \* of tool calls; "" is none
          NoRequest,
          MaxMessages

VARIABLES told,      \* the messages read so far
          gemini,    \* [contents, system]
          agy,       \* [contents, system], of Antigravity
          kiro,      \* [entries, system]
          names,     \* toolCallNames: [Ids -> the name last given to the call]
          options,
          request    \* what is sent: NoRequest while messages are read

vars == <<told, gemini, agy, kiro, names, options, request>>

Nothing == [contents |-> <<>>, system |-> <<>>]

TypeOK ==
  /\ told \in Seq(Messages) /\ Len(told) <= MaxMessages
  /\ \A i \in DOMAIN gemini.contents : gemini.contents[i].role \in {"user", "model"}
  /\ \A i \in DOMAIN kiro.entries : kiro.entries[i].kind \in {"user", "assistant"}
  /\ DOMAIN names = Ids

Init ==
  /\ told = <<>>
  /\ gemini = Nothing /\ agy = Nothing /\ kiro = [entries |-> <<>>, system |-> <<>>]
  /\ names = [d \in Ids |-> ""]
  /\ options \in Options
  /\ request = NoRequest

-----------------------------------------------------------------------------
(* Contents: Gemini and Antigravity.                                          *)

ImageParts(m, i) ==
  CASE m.image = "data" -> <<[kind |-> "inlineData", from |-> i]>>
    [] m.image = "link" -> <<[kind |-> "fileData", from |-> i]>>
    [] OTHER -> <<>>

ContentParts(m, i) == (IF m.text THEN <<[kind |-> "text", from |-> i]>> ELSE <<>>) \o ImageParts(m, i)

(* A call without a name is dropped.                                          *)
Named(m) == FoldLeft(LAMBDA kept, c : IF c.name = "" THEN kept ELSE Append(kept, c), <<>>, m.calls)

(* Arguments that are no JSON object are lost to Gemini, kept to the others.  *)
GeminiCalls(m, i) ==
  [k \in DOMAIN Named(m) |-> [kind |-> "call", from |-> i, name |-> Named(m)[k].name,
                              args |-> IF m.args = "object" THEN "object" ELSE "empty"]]

AgyCalls(m, i) ==
  [k \in DOMAIN Named(m) |-> [kind |-> "call", from |-> i, name |-> Named(m)[k].name,
                              id |-> Named(m)[k].id, args |-> m.args]]

(* The last call of the message that has the id names it from here on.        *)
NamesAfter(m) ==
  [d \in Ids |->
     LET given == {k \in DOMAIN m.calls : m.calls[k].id = d /\ d # "" /\ m.calls[k].name # ""}
     IN  IF given = {} THEN names[d] ELSE m.calls[CHOOSE k \in given : \A j \in given : j <= k].name]

ResponseName(m) ==
  IF m.name # "" THEN m.name
  ELSE IF m.id = "" THEN "tool"
  ELSE IF names[m.id] # "" THEN names[m.id] ELSE m.id

GeminiResponse(m, i) == <<[kind |-> "response", from |-> i, name |-> ResponseName(m)]>>

AgyResponse(m, i) == <<[kind |-> "response", from |-> i, name |-> ResponseName(m), id |-> m.id]>>

(* A content for a message that has parts, and for every answer of a tool.    *)
Grow(c, m, i, calls, response) ==
  LET parts == ContentParts(m, i) \o (IF m.role = "assistant" THEN calls ELSE <<>>)
      said(role, ps) == [c EXCEPT !.contents = Append(@, [role |-> role, parts |-> ps])]
  IN  IF m.role = "system" THEN [c EXCEPT !.system = @ \o parts]
      ELSE IF m.role = "tool" THEN said("user", response)
      ELSE IF parts = <<>> THEN c
      ELSE said(IF m.role = "assistant" THEN "model" ELSE "user", parts)

-----------------------------------------------------------------------------
(* Entries: Kiro.                                                             *)

MadeUp(kind) == [kind |-> kind, from |-> 0, text |-> FALSE, image |-> FALSE, results |-> <<>>,
                 uses |-> <<>>, system |-> FALSE, tools |-> FALSE]

KiroCallIds(m) == [k \in DOMAIN Named(m) |-> Named(m)[k].id]

(* A link to an image becomes text, data an image; a block that uses a tool   *)
(* stands for all the calls of the message.                                   *)
KiroEntry(m, i) ==
  LET e == [MadeUp(IF m.role = "assistant" THEN "assistant" ELSE "user") EXCEPT !.from = i]
  IN  CASE m.role = "assistant" ->
             [e EXCEPT !.text = m.text \/ m.image = "link",
                       !.uses = IF m.block = "use" THEN <<m.id>> ELSE KiroCallIds(m)]
        [] m.role = "tool" -> [e EXCEPT !.results = <<m.id>>]
        [] OTHER ->
             [e EXCEPT !.text = m.text \/ m.image = "link", !.image = m.image = "data",
                       !.results = IF m.block = "result" THEN <<m.id>> ELSE <<>>]

Grown(k, m, i) ==
  IF m.role = "system"
  THEN [k EXCEPT !.system = IF m.text \/ m.image = "link" THEN Append(@, i) ELSE @]
  ELSE [k EXCEPT !.entries = Append(@, KiroEntry(m, i))]

Other(kind) == IF kind = "user" THEN "assistant" ELSE "user"

(* What is missing between the entries so far and the next.                   *)
Between(es, e) ==
  IF es = <<>> /\ e.kind = "assistant" THEN <<MadeUp("user")>>
  ELSE IF es # <<>> /\ Last(es).kind = e.kind THEN <<MadeUp(Other(e.kind))>>
  ELSE <<>>

Normalized(es) ==
  IF es = <<>> THEN <<MadeUp("user")>>
  ELSE FoldLeft(LAMBDA done, e : done \o Between(done, e) \o <<e>>, <<>>, es)

(* The system prompt goes before the text of the first user entry.            *)
WithSystem(es) ==
  LET i == CHOOSE i \in DOMAIN es : es[i].kind = "user" /\ \A j \in 1 .. i - 1 : es[j].kind # "user"
  IN  IF kiro.system = <<>> THEN es ELSE [es EXCEPT ![i].system = TRUE]

(* The last entry is the current message when it is the user's.               *)
Split(es) ==
  IF Last(es).kind = "user" THEN [history |-> Front(es), current |-> Last(es)]
  ELSE [history |-> es, current |-> MadeUp("user")]

-----------------------------------------------------------------------------
(* What is asked for besides the messages.                                    *)

ToolMode ==
  CASE options.choice = "none" -> "NONE"
    [] options.choice \in {"required", "named"} -> "ANY"
    [] options.choice = "auto" -> "AUTO"
    [] OTHER -> "absent"

(* Claude models of Antigravity are asked to validate.                        *)
AgyToolMode == IF ToolMode = "absent" /\ options.model = "claude" THEN "VALIDATED" ELSE ToolMode

Declared == [declarations |-> options.functions,
             native |-> options.native]

Include(budget) == IF options.include = "unset" THEN budget # 0 ELSE options.include = "yes"

Efforts == [none |-> 0, low |-> 1024, medium |-> 8192, high |-> 24576, auto |-> -1]

(* A budget before an effort, an effort before the default of the model.      *)
Thinking ==
  IF options.budget # "absent"
  THEN [budget |-> options.tokens, thoughts |-> Include(options.tokens)]
  ELSE IF options.effort # "absent"
  THEN [budget |-> Efforts[options.effort], thoughts |-> options.effort # "none"]
  ELSE IF options.defaults /\ options.model \in {"gemini-3", "gemini-2.5"}
  THEN [budget |-> 8192, thoughts |-> TRUE]  \* of gemini-3, the level HIGH
  ELSE [budget |-> 0, thoughts |-> FALSE]

(* Antigravity always limits the answer.                                      *)
Generation(provider) ==
  [thinking |-> Thinking,
   limited  |-> options.limited \/ provider = "antigravity",
   sampled  |-> options.defaults \/ options.sampling]

Safety(provider) ==
  IF options.safety = "client" THEN "client"
  ELSE IF provider = "antigravity" THEN (IF options.safety = "disabled" THEN "none" ELSE "off")
  ELSE IF options.safety = "enabled" THEN "off" ELSE "none"

-----------------------------------------------------------------------------
Read(m) ==
  LET i == Len(told) + 1
  IN  /\ request = NoRequest /\ Len(told) < MaxMessages
      /\ told' = Append(told, m)
      /\ names' = IF m.role = "assistant" THEN NamesAfter(m) ELSE names
      /\ gemini' = Grow(gemini, m, i, GeminiCalls(m, i), GeminiResponse(m, i))
      /\ agy' = Grow(agy, m, i, AgyCalls(m, i), AgyResponse(m, i))
      /\ kiro' = Grown(kiro, m, i)
      /\ UNCHANGED <<options, request>>

Request(provider, contents, mode) ==
  [contents |-> contents.contents, system |-> contents.system, tools |-> Declared, mode |-> mode,
   generation |-> Generation(provider), safety |-> Safety(provider)]

KiroRequest ==
  LET parts == Split(WithSystem(Normalized(kiro.entries)))
  IN  [parts EXCEPT !.current.tools = options.functions]

Send ==
  /\ request = NoRequest
  /\ request' = [gemini |-> Request("gemini", gemini, ToolMode),
                 agy |-> Request("antigravity", agy, AgyToolMode),
                 kiro |-> KiroRequest]
  /\ UNCHANGED <<told, gemini, agy, kiro, names, options>>

Next == Send \/ \E m \in Messages : Read(m)

Spec == Init /\ [][Next]_vars

-----------------------------------------------------------------------------
Sent == request # NoRequest

Froms(s) == {i \in {s[k].from : k \in DOMAIN s} : i > 0}
Ascending(s) == \A j, k \in DOMAIN s : j < k /\ s[j].from > 0 /\ s[k].from > 0 => s[j].from < s[k].from
Turns == {i \in DOMAIN told : told[i].role # "system"}

(* Kiro hears every turn of the conversation once and in order, and the       *)
(* system prompt whenever there is one, at the very beginning.                *)
KiroHearsEverything ==
  Sent =>
    LET es == Append(request.kiro.history, request.kiro.current)
    IN  /\ Froms(es) = Turns /\ Ascending(es)
        /\ es[1].system = \E i \in DOMAIN told : told[i].role = "system" /\ (told[i].text \/ told[i].image = "link")

(* User and assistant alternate, whatever the client wrote: the history       *)
(* begins with the user and ends with the assistant, the user speaks now.     *)
KiroTakesTurns ==
  Sent =>
    LET es == Append(request.kiro.history, request.kiro.current)
    IN  /\ es[Len(es)].kind = "user"
        /\ \A k \in DOMAIN es : es[k].kind = IF k % 2 = 1 THEN "user" ELSE "assistant"

(* The calls with id d that messages up to n make by a name: <<message, call>>. *)
CallsBefore(n, d) ==
  {x \in UNION {{i} \X DOMAIN told[i].calls : i \in 1 .. n} :
     /\ told[x[1]].role = "assistant"
     /\ told[x[1]].calls[x[2]].id = d /\ told[x[1]].calls[x[2]].name # ""}

LatestOf(calls) ==
  CHOOSE x \in calls : \A y \in calls : y[1] < x[1] \/ (y[1] = x[1] /\ y[2] <= x[2])

(* A tool's answer carries the name that the latest call with its id gave,    *)
(* to both providers; without such a call it is not named after another one.  *)
AnswersNameTheirCall ==
  Sent => \A c \in {"gemini", "agy"} : \A k \in DOMAIN request[c].contents :
    LET p == request[c].contents[k].parts[1]
        m == told[p.from]
        calls == CallsBefore(p.from - 1, m.id)
    IN  p.kind = "response" /\ m.name = "" /\ m.id # "" =>
          p.name = IF calls = {} THEN m.id
                   ELSE told[LatestOf(calls)[1]].calls[LatestOf(calls)[2]].name

(* Thoughts are asked for exactly when there is a budget for them, by every   *)
(* way to ask, unless the client says otherwise.                              *)
ThoughtsHaveABudget ==
  options.include = "unset" => (Thinking.thoughts <=> Thinking.budget # 0)
==============================================================================
