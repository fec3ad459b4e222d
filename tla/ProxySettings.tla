----------------------------- MODULE ProxySettings -----------------------------
(* The reverse proxy settings, one row that administrators write, and the copy  *)
(* every server instance keeps of it for 15 seconds; and the routing key that    *)
(* requests are given by those settings, so that a conversation stays with its   *)
(* account.  A save writes the row and then the copy of the instance it came to; *)
(* a request that finds the copy expired reads the row and then writes the copy. *)
EXTENDS Integers, Sequences, FiniteSets

CONSTANTS Nodes, Requests, Administrators,
          Settings,     \* [digest, rule: [header, fields, model], items]
          Turns,        \* [header, query, root, below, input, text, trace, model]
          Lifetime,     \* of a copy: 15 seconds
          MaxTime, MaxSaves, MaxRequests

VARIABLES saved,    \* the settings saved so far; those saved last are in the row
          when,     \* when each was
          racing,   \* those saved while another save was not done
          clock,
          cache,    \* [Nodes -> [version, until]]; version 0 is the defaults
          request,  \* [Requests -> [stage, node, at, version, sure]]
          save,     \* [Administrators -> [stage, node, version]]
          keys      \* [turn, version, key] of the requests so far

vars == <<saved, when, racing, clock, cache, request, save, keys>>

Newest == Len(saved)
Idle == [stage |-> "idle", node |-> CHOOSE n \in Nodes : TRUE, at |-> 0, version |-> 0, sure |-> TRUE]
NoSave == [stage |-> "idle", node |-> CHOOSE n \in Nodes : TRUE, version |-> 0]

Init ==
  /\ saved = <<>> /\ when = <<>> /\ racing = {}
  /\ clock = 0
  /\ cache = [n \in Nodes |-> [version |-> 0, until |-> 0]]
  /\ request = [r \in Requests |-> Idle]
  /\ save = [a \in Administrators |-> NoSave]
  /\ keys = {}

-----------------------------------------------------------------------------
(* Settings are normalized as they are saved and as they are read.             *)

Default == [digest |-> TRUE, rule |-> [header |-> FALSE, fields |-> FALSE, model |-> FALSE], items |-> 24]

Within(n, low, high) == IF n < low THEN low ELSE IF n > high THEN high ELSE n

Normalized(s) == [s EXCEPT !.items = Within(IF @ <= 0 THEN 24 ELSE @, 4, 200)]

SettingsOf(v) == IF v = 0 THEN Default ELSE Normalized(saved[v])

-----------------------------------------------------------------------------
(* adminReverseProxySettings.                                                  *)

Put(a, n, s) ==
  /\ save[a].stage = "idle" /\ Newest < MaxSaves
  /\ saved' = Append(saved, Normalized(s))
  /\ when' = Append(when, clock)
  /\ racing' = IF \E b \in Administrators : save[b].stage = "saved" THEN racing \cup {Newest + 1} ELSE racing
  /\ save' = [save EXCEPT ![a] = [stage |-> "saved", node |-> n, version |-> Newest + 1]]
  /\ UNCHANGED <<clock, cache, request, keys>>

Remember(a) ==
  /\ save[a].stage = "saved"
  /\ cache' = [cache EXCEPT ![save[a].node] = [version |-> save[a].version, until |-> clock + Lifetime]]
  /\ save' = [save EXCEPT ![a] = NoSave]
  /\ UNCHANGED <<saved, when, racing, clock, request, keys>>

-----------------------------------------------------------------------------
(* reverseProxySettings: the time is taken before the row is read.             *)

Look(r, n) ==
  /\ request[r].stage = "idle" /\ Cardinality(keys) < MaxRequests
  /\ request' = [request EXCEPT ![r] =
       IF clock < cache[n].until
         THEN [stage |-> "told", node |-> n, at |-> clock, version |-> cache[n].version, sure |-> TRUE]
         ELSE [stage |-> "asking", node |-> n, at |-> clock, version |-> 0, sure |-> TRUE]]
  /\ UNCHANGED <<saved, when, racing, clock, cache, save, keys>>

Read(r) ==
  /\ request[r].stage = "asking"
  /\ request' = [request EXCEPT ![r].stage = "read", ![r].version = Newest]
  /\ UNCHANGED <<saved, when, racing, clock, cache, save, keys>>

(* The row cannot be read: this request has the defaults.                      *)
ReadFails(r) ==
  /\ request[r].stage = "asking"
  /\ request' = [request EXCEPT ![r].stage = "told", ![r].sure = FALSE]
  /\ UNCHANGED <<saved, when, racing, clock, cache, save, keys>>

(* Seeded bug: a copy expires a lifetime after it is stored.                 *)
Expiry_FromStore(r) == clock + Lifetime

Expiry(r) == request[r].at + Lifetime

Store(r) ==
  /\ request[r].stage = "read"
  /\ cache' = [cache EXCEPT ![request[r].node] = [version |-> request[r].version, until |-> Expiry(r)]]
  /\ request' = [request EXCEPT ![r].stage = "told"]
  /\ UNCHANGED <<saved, when, racing, clock, save, keys>>

-----------------------------------------------------------------------------
(* The routing key of a request: the rules first, then what clients are known   *)
(* to send, then a digest.                                                     *)

(* Fields of one object come in any order, the object's own before those below. *)
Fields(t) == IF t.root # {} THEN t.root ELSE t.below

Given(name) == IF name = "" THEN {} ELSE {name}

FirstOf(sets) == IF \A i \in DOMAIN sets : sets[i] = {} THEN {}
                 ELSE sets[CHOOSE i \in DOMAIN sets : sets[i] # {} /\ \A j \in 1 .. i - 1 : sets[j] = {}]

Prefixed(rule, t, name) == IF rule.model THEN <<t.model, name>> ELSE <<name>>

RuleKeys(rule, t) ==
  {Prefixed(rule, t, name) : name \in FirstOf(<<IF rule.header THEN Given(t.header) ELSE {},
                                                IF rule.fields THEN Fields(t) ELSE {}>>)}

(* responseRouteAffinityDigest: of the instructions and the input.             *)
InputDigest(t) == IF t.input THEN {<<"responses", t.text>>} ELSE {}

KnownKeys(t) ==
  FirstOf(<<{<<name>> : name \in FirstOf(<<Given(t.header), Given(t.query), Fields(t)>>)}, InputDigest(t)>>)

(* Request ids, timestamps and sampling parameters are left out of the digest.  *)
DigestKeys(s, t) == IF s.digest THEN {<<"digest", t.model, t.text>>} ELSE {}

Keys(s, t) == LET k == FirstOf(<<RuleKeys(s.rule, t), KnownKeys(t), DigestKeys(s, t)>>)
              IN  IF k = {} THEN {<<>>} ELSE k

Route(r, t) ==
  /\ request[r].stage = "told"
  /\ \E k \in Keys(SettingsOf(request[r].version), t) :
       keys' = keys \cup {[turn |-> t, version |-> request[r].version, key |-> k]}
  /\ request' = [request EXCEPT ![r] = Idle]
  /\ UNCHANGED <<saved, when, racing, clock, cache, save>>

Tick ==
  /\ clock < MaxTime
  /\ clock' = clock + 1
  /\ UNCHANGED <<saved, when, racing, cache, request, save, keys>>

Next ==
  \/ \E a \in Administrators, n \in Nodes, s \in Settings : Put(a, n, s)
  \/ \E a \in Administrators : Remember(a)
  \/ \E r \in Requests, n \in Nodes : Look(r, n)
  \/ \E r \in Requests : Read(r) \/ ReadFails(r) \/ Store(r) \/ \E t \in Turns : Route(r, t)
  \/ Tick

Spec == Init /\ [][Next]_vars

-----------------------------------------------------------------------------

TypeOK ==
  /\ saved \in Seq(Settings) /\ Newest <= MaxSaves /\ Len(when) = Newest
  /\ \A v \in DOMAIN saved : saved[v].items \in 4 .. 200
  /\ clock \in 0 .. MaxTime
  /\ cache \in [Nodes -> [version : 0 .. Newest, until : 0 .. MaxTime + Lifetime]]
  /\ \A r \in Requests : request[r].stage \in {"idle", "asking", "read", "told"} /\ request[r].version <= Newest
  /\ \A a \in Administrators : save[a].stage \in {"idle", "saved"} /\ save[a].version <= Newest

(* No request works by settings that were replaced longer ago than a copy may   *)
(* live, whichever instance it came to and however slowly instances read and    *)
(* write their copies: but for defaults when the row cannot be read, and for    *)
(* settings that replaced others whose save was not done.                       *)
SettingsAreFresh ==
  \A r \in Requests : request[r].stage = "told" /\ request[r].sure =>
    \A v \in (request[r].version + 1 .. Newest) \ racing : when[v] + Lifetime >= request[r].at

NamesOf(t) == Given(t.header) \cup Given(t.query) \cup t.root \cup t.below

(* Two turns that name their session alike, by one name, or that are the same   *)
(* but for what marks a single request, belong together.                        *)
Together(t, u) ==
  IF NamesOf(t) = {} THEN [t EXCEPT !.trace = u.trace] = u
  ELSE /\ Cardinality(NamesOf(t)) = 1
       /\ [t EXCEPT !.trace = u.trace, !.text = u.text] = u

(* Turns that belong together have one routing key under the same settings, so  *)
(* that they find the account of the conversation.                              *)
OneKeyPerConversation ==
  \A k, l \in keys : k.version = l.version /\ Together(k.turn, l.turn) => k.key = l.key
=============================================================================
