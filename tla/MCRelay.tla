------------------------------ MODULE MCRelay ------------------------------
(* Small worlds for each part of the relay.                                   *)
EXTENDS Relay, TLC

CONSTANTS s1, s2

(* WebSockets: two sessions over two accounts with one slot each.  Every kind *)
(* meets one that holds its slot to the end and one that does not.            *)
Pair(k, l) == [s \in {s1, s2} |-> IF s = s1 THEN k ELSE l]

MCMeetings == {Pair("realtime", "responses"), Pair("sidecar", "realtime"),
               Pair("call", "responses")}

(* Transformers: two events of up to two candidates, three frames.            *)
Piece(k, v) == [kind |-> k, value |-> v]

Candidates ==
  [index : {0, 1},
   parts : {<<>>, <<Piece("content", "a")>>, <<Piece("call", "f")>>,
            <<Piece("reasoning", "b"), Piece("call", "g")>>,
            <<Piece("empty", ""), Piece("content", "b")>>},
   reason : {"", "STOP", "MAX_TOKENS"}]

MCGeminiEvents == {<<>>} \cup {<<c>> : c \in Candidates}
             \cup {<<[c EXCEPT !.index = 0], [d EXCEPT !.index = 1]>> :
                     c, d \in {x \in Candidates : x.reason # "STOP"}}

Frame(k, v, a, s) == [kind |-> k, value |-> v, args |-> a, stop |-> s]

MCKiroFrames == {Frame("content", "x", <<>>, FALSE), Frame("content", "y", <<>>, FALSE),
           Frame("start", "f", <<"p">>, FALSE), Frame("start", "g", <<>>, TRUE),
           Frame("start", "", <<>>, FALSE), Frame("input", "", <<"q">>, FALSE),
           Frame("input", "", <<"broken">>, FALSE), Frame("stop", "", <<>>, TRUE),
           Frame("usage", "", <<>>, FALSE)}

(* Conversations: four messages, of every role, and every way to ask for      *)
(* thoughts.                                                                  *)
Says == [role |-> "user", text |-> TRUE, image |-> "none", calls |-> <<>>, block |-> "none",
         id |-> "", name |-> "", args |-> "object"]

Calling(n) == [id |-> "c", name |-> n]

MCSayings == {Says,
         [Says EXCEPT !.text = FALSE, !.image = "data"],
         [Says EXCEPT !.role = "system"],
         [Says EXCEPT !.role = "assistant"],
         [Says EXCEPT !.role = "assistant", !.text = FALSE, !.calls = <<Calling("f"), Calling("g")>>],
         [Says EXCEPT !.role = "assistant", !.calls = <<Calling("f")>>, !.args = "raw"],
         [Says EXCEPT !.role = "tool", !.id = "c"]}

Asks == [choice |-> "absent", model |-> "claude", functions |-> TRUE, native |-> FALSE,
         include |-> "unset", budget |-> "absent", tokens |-> 0, effort |-> "absent",
         defaults |-> TRUE, limited |-> FALSE, sampling |-> FALSE, safety |-> "none"]

MCOptions == {Asks, [Asks EXCEPT !.model = "gemini-2.5"], [Asks EXCEPT !.defaults = FALSE],
              [Asks EXCEPT !.model = "gemini-3", !.budget = "given", !.choice = "named"],
              [Asks EXCEPT !.effort = "low", !.safety = "client"]}

-----------------------------------------------------------------------------
(* Overrides: histories with parallel calls, three bodies, five routes whose  *)
(* operations write to each other's places, and two attempts.                 *)
Item(k, ids) == [kind |-> k, ids |-> ids]

(* Two calls made in one item, answered by the items that follow it, each once. *)
OneItemCalls ==
  {h \in {<<>>} \cup UNION {[1 .. n -> {Item("plain", {}), Item("calls", {1, 2}),
                                       Item("answers", {1}), Item("answers", {2})}] : n \in {3, 4}} :
     /\ \A i, j \in DOMAIN h : i # j /\ h[i] = h[j] => h[i].kind = "plain"
     /\ \A i \in DOMAIN h : h[i].kind = "answers" =>
          \E c \in 1 .. i - 1 : /\ h[c].kind = "calls"
                                /\ \A m \in c + 1 .. i - 1 : h[m].kind = "answers"}

(* Calls that are items of their own, and their answers, in any order.         *)
OwnItemCalls(N) ==
  {h \in [1 .. 2 * Cardinality(N) -> {Item(k, {n}) : k \in {"calls", "answers"}, n \in N}] :
     \A n \in N : \E i, j \in DOMAIN h : i < j /\ h[i] = Item("calls", {n}) /\ h[j] = Item("answers", {n})}

MCHistories == OneItemCalls \cup OwnItemCalls({1, 2})

(* For the least replay_guard_max_items the settings allow, 4.                 *)
MCParallelCalls == OwnItemCalls({1, 2, 3})

Chat(role, model) ==
  [q \in {<<>>, <<"model">>, <<"messages">>, <<"messages", "0">>, <<"messages", "0", "role">>,
          <<"messages", "0", "content">>, <<"service_tier">>} |->
     CASE q \in {<<>>, <<"messages", "0">>}       -> <<"map">>
       [] q = <<"messages">>                      -> <<"list">>
       [] q = <<"messages", "0", "role">>         -> <<"text", role>>
       [] q = <<"messages", "0", "content">>      -> <<"text", "x">>
       [] q = <<"model">>                         -> <<"text", model>>
       [] OTHER                                   -> <<"text", "auto">>]

Anthropic == [q \in {<<>>, <<"model">>, <<"system">>} |->
                IF q = <<>> THEN <<"map">> ELSE <<"text", IF q = <<"model">> THEN "asked" ELSE "x">>]

Operation(op, path, from, to, value) ==
  [op |-> op, path |-> path, from |-> from, to |-> to, value |-> value]

Crossing == <<Operation("set", <<"model", "a">>, <<>>, <<>>, "v"),
              Operation("move", <<>>, <<"service_tier">>, <<"messages", "0">>, ""),
              Operation("append", <<"messages">>, <<>>, <<>>, "y")>>
Stealing == <<Operation("move", <<>>, <<"model">>, <<"service_tier">>, ""),
              Operation("delete", <<"messages", "0">>, <<>>, <<>>, ""),
              Operation("set", <<"service_tier">>, <<>>, <<>>, "flex")>>
Telling  == <<Operation("replace", <<"messages", "0", "content">>, <<"x">>, <<"z">>, ""),
              Operation("copy_header", <<>>, <<"X-Other">>, <<"Anthropic-Beta">>, ""),
              Operation("prepend", <<"system">>, <<>>, <<>>, "w")>>
Failing  == <<Operation("append", <<"messages", "1">>, <<>>, <<>>, "w"),
              Operation("unsupported", <<>>, <<>>, <<>>, "")>>

Plain == [ops |-> <<>>, allow |-> FALSE, prompt |-> "none", model |-> "up",
          rules |-> [pass |-> {}, set |-> {}, remove |-> {}],
          never |-> {}, also |-> {}, map |-> {}, texts |-> {}]

MCBodies  == {Chat("user", "asked"), Chat("system", "asked"), Anthropic}
MCClients == {[n \in {"Anthropic-Beta", "X-Other"} |-> IF n = "X-Other" THEN {"b1"} ELSE {"b1", "b2"}]}
MCRoutes  == {[Plain EXCEPT !.ops = Crossing, !.prompt = "prepend"],
              [Plain EXCEPT !.ops = Stealing, !.prompt = "if_absent", !.map = {<<429, 500>>}],
              [Plain EXCEPT !.ops = Telling, !.prompt = "replace", !.never = {500},
                            !.texts = {<<"here", "there">>, <<"there", "x">>}],
              [Plain EXCEPT !.ops = Stealing, !.allow = TRUE, !.model = "",
                            !.rules = [pass |-> {"X-Other"}, set |-> {}, remove |-> {"Anthropic-Beta"}]],
              [Plain EXCEPT !.ops = Failing]}
MCGlobals == {[pass |-> {}, overrides |-> <<>>, drop |-> {}],
              [pass |-> {"Anthropic-Beta"}, drop |-> {"b1"},
               overrides |-> <<Operation("set", <<"messages", "0">>, <<>>, <<>>, "r"),
                               Operation("set", <<"model">>, <<>>, <<>>, "r")>>]}

(* ProxySettings: one instance, one request at a time, two administrators.    *)
Turn == [header |-> "", query |-> "", root |-> {}, below |-> {}, input |-> FALSE,
         text |-> "t1", trace |-> "a", model |-> "m"]

MCDrafts == {[digest |-> TRUE, items |-> 24,
              rule |-> [header |-> TRUE, fields |-> TRUE, model |-> TRUE]]}
MCUtterances == {Turn, [Turn EXCEPT !.trace = "b"], [Turn EXCEPT !.root = {"s"}],
             [Turn EXCEPT !.root = {"s"}, !.text = "t2"]}
=============================================================================
