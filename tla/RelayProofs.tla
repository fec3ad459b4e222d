----------------------------- MODULE RelayProofs -----------------------------
(* What is proved of the relay, a part at a time: the stream a client is sent,*)
(* the sessions over WebSockets, the settings requests work by, and what the  *)
(* attempts at a request change in it.  Relay puts the parts side by side;    *)
(* each has an invariant of its own that says nothing while another part runs.*)
EXTENDS TranslationProofs

-----------------------------------------------------------------------------
(* The stream: one answer, whole and in order.                               *)

IsPiece(i) == client[i].kind = "piece"

(* Nothing has been sent before the writer commits, nor when an attempt       *)
(* begins, and an error answer ends the call.                                 *)
Unsent ==
  /\ ~ committed => client = <<>> /\ done # "open" /\ written = 0
  /\ pc = "open" => client = <<>> /\ done # "open"
  /\ pc \in {"closed", "end"} => done # "open"
  /\ reply = "error" => client = <<>> /\ pc = "end"

(* While it is copied: what waits to be written follows what is written and   *)
(* reaches as far as was read, in whole events unless the copy is raw.        *)
Copying ==
  pc = "copy" =>
    /\ \A i \in 1 .. Len(out) : out[i] = written + i
    /\ written + Len(out) = IF mode = "raw" THEN pos ELSE 2 * (pos \div 2)
    /\ mode \in {"events", "chunks"} => written = 2 * (written \div 2)
    /\ mode = "events" => \A e \in 1 .. StreamEvents : 2 * e <= pos => e \in metered

(* The client has been sent the first written pieces of this attempt, in      *)
(* order.                                                                     *)
InOrder ==
  /\ \A i \in 1 .. Len(client) : IsPiece(i) =>
       /\ client[i].from = attempt /\ client[i].piece <= written
       /\ \A j \in 1 .. i - 1 : IsPiece(j) => client[j].piece < client[i].piece
  /\ \A p \in 1 .. written : \E j \in 1 .. Len(client) : IsPiece(j) /\ client[j].piece = p

(* An event's first piece is followed by its second, and every second piece   *)
(* is metered.                                                                *)
Whole ==
  /\ mode \in {"events", "chunks"} =>
       \A i \in 1 .. Len(client) : IsPiece(i) /\ client[i].piece % 2 = 1 =>
         i < Len(client) /\ IsPiece(i + 1)
  /\ \A i \in 1 .. Len(client) : IsPiece(i) /\ client[i].piece % 2 = 0 =>
       R!EventOf(client[i].piece) \in metered

(* Together they are inductive.                                               *)
StreamInv == R!TypeOK /\ Unsent /\ Copying /\ InOrder /\ Whole

-----------------------------------------------------------------------------
(* The instance of StreamRelay has a Cardinality of its own, and it is the    *)
(* cardinality.                                                               *)
LEMMA SameStreamCardinality == \A X : R!Cardinality(X) = Cardinality(X)
BY DEF R!Cardinality, Cardinality

(* The events among the first p pieces are the first p \div 2.                *)
LEMMA WholeEvents ==
  ASSUME NEW p \in 0 .. 2 * StreamEvents
  PROVE  R!Cardinality(R!Whole(p)) = p \div 2
<1> USE StreamAssumption
<1>1. R!Whole(p) = 1 .. p \div 2
  BY DEF R!Whole
<1>2. p \div 2 \in Nat
  OBVIOUS
<1>3. Cardinality(1 .. p \div 2) = IF 1 > p \div 2 THEN 0 ELSE p \div 2 - 1 + 1
  BY <1>2, FS_Interval
<1>4. Cardinality(1 .. p \div 2) = p \div 2
  BY <1>2, <1>3
<1> QED BY <1>1, <1>4, SameStreamCardinality, Zenon

(* What is to be written follows what is written.                             *)
LEMMA SpanIs ==
  ASSUME NEW a \in Nat, NEW b \in Nat, a <= b + 1
  PROVE  /\ R!Span(a, b) \in Seq(Nat)
         /\ Len(R!Span(a, b)) = b - a + 1
         /\ \A i \in 1 .. b - a + 1 : R!Span(a, b)[i] = a + i - 1
BY DEF R!Span

(* A call begins with nothing read or sent.                                   *)
LEMMA StreamInit == R!Init => StreamInv
<1> SUFFICES ASSUME R!Init PROVE StreamInv
  OBVIOUS
<1>1. R!TypeOK
  <2>1. client \in Seq(R!Tokens) /\ out \in Seq(R!Pieces) /\ Len(out) = 0
    BY DEF R!Init
  <2>2. /\ attempt \in 0 .. StreamAttempts /\ pos \in 0 .. 2 * StreamEvents
        /\ Len(out) <= 2 * StreamEvents /\ ticks \in 0 .. StreamTicks /\ written \in Nat
    BY <2>1, StreamAssumption DEF R!Init
  <2>3. /\ mode \in R!Modes /\ sticky \in BOOLEAN /\ committed \in BOOLEAN
        /\ metered \subseteq 1 .. StreamEvents
        /\ pc = "open" /\ copyErr = "none" /\ done = "nil" /\ ticker = "none" /\ reply = "none"
    BY DEF R!Init
  <2> QED BY <2>1, <2>2, <2>3 DEF R!TypeOK
<1>2. Unsent /\ Copying
  BY DEF R!Init, Unsent, Copying
<1>3. InOrder /\ Whole
  BY DEF R!Init, InOrder, Whole
<1> QED BY <1>1, <1>2, <1>3 DEF StreamInv

(* How far a read gets.                                                       *)
LEMMA ReadReaches ==
  ASSUME StreamInv, R!Read
  PROVE  /\ out' \in Seq(R!Pieces) /\ Len(out') <= 2 * StreamEvents
         /\ pos' \in 0 .. 2 * StreamEvents /\ pos <= pos'
         /\ Copying'
<1> USE StreamAssumption
<1>1. PICK p \in {pos + 1, pos + 2} \cap R!Pieces :
        /\ pos' = p
        /\ out' = R!Ready(p)
        /\ metered' = IF mode = "events" THEN metered \cup R!Whole(p) ELSE metered
  BY DEF R!Read
<1>2. pc = "copy" /\ out = <<>> /\ written' = written /\ mode' = mode
  BY DEF R!Read, R!writerVars
<1>3. pos \in 0 .. 2 * StreamEvents /\ p \in 0 .. 2 * StreamEvents /\ written \in Nat
  BY <1>1 DEF StreamInv, R!TypeOK, R!Pieces
<1>4. R!Cardinality(R!Whole(p)) = p \div 2 /\ R!Cardinality(R!Whole(pos)) = pos \div 2
  BY <1>3, WholeEvents
<1>5. CASE mode = "raw"
  <2>1. out' = R!Span(pos + 1, p) /\ written = pos
    BY <1>1, <1>2, <1>5, <1>3 DEF R!Ready, StreamInv, Copying
  <2>2. /\ Len(out') = p - pos
        /\ out' \in Seq(Nat)
        /\ \A i \in 1 .. Len(out') : out'[i] = pos + i
    <3>1. pos + 1 \in Nat /\ p \in Nat /\ pos + 1 <= p + 1
      BY <1>1, <1>3
    <3>2. /\ R!Span(pos + 1, p) \in Seq(Nat)
          /\ Len(R!Span(pos + 1, p)) = p - (pos + 1) + 1
          /\ \A i \in 1 .. p - (pos + 1) + 1 : R!Span(pos + 1, p)[i] = pos + 1 + i - 1
      BY <3>1, SpanIs
    <3> QED BY <2>1, <3>1, <3>2, <1>3
  <2>3. \A i \in 1 .. Len(out') : out'[i] \in R!Pieces
    BY <2>2, <1>3 DEF R!Pieces
  <2> QED BY <2>1, <2>2, <2>3, <1>1, <1>2, <1>3, <1>5 DEF Copying
<1>6. CASE mode # "raw"
  <2>1. out' = R!Span(2 * (pos \div 2) + 1, 2 * (p \div 2)) /\ written = 2 * (pos \div 2)
    BY <1>1, <1>2, <1>4, <1>6, <1>3 DEF R!Ready, StreamInv, Copying
  <2> DEFINE u == pos \div 2
             v == p \div 2
  <2>2. u \in Nat /\ v \in Nat /\ u <= v /\ 2 * v <= p
    BY <1>1, <1>3
  <2>3. /\ Len(out') = 2 * v - 2 * u
        /\ out' \in Seq(Nat)
        /\ \A i \in 1 .. Len(out') : out'[i] = 2 * u + i
    <3>0. out' = R!Span(2 * u + 1, 2 * v)
      BY <2>1
    <3> HIDE DEF u, v
    <3>1. 2 * u + 1 \in Nat /\ 2 * v \in Nat /\ 2 * u + 1 <= 2 * v + 1
      BY <2>2
    <3>2. /\ R!Span(2 * u + 1, 2 * v) \in Seq(Nat)
          /\ Len(R!Span(2 * u + 1, 2 * v)) = 2 * v - (2 * u + 1) + 1
          /\ \A i \in 1 .. 2 * v - (2 * u + 1) + 1 : R!Span(2 * u + 1, 2 * v)[i] = 2 * u + 1 + i - 1
      BY <3>1, SpanIs
    <3> QED BY <2>2, <3>0, <3>2
  <2>4. \A i \in 1 .. Len(out') : out'[i] \in R!Pieces
    BY <2>2, <2>3, <1>3 DEF R!Pieces
  <2>5. out' \in Seq(R!Pieces) /\ Len(out') <= 2 * StreamEvents
    BY <2>2, <2>3, <2>4, <1>3
  <2>6. mode = "events" => \A e \in 1 .. StreamEvents : 2 * e <= p => e \in metered'
    BY <1>1 DEF R!Whole
  <2>7. written = 2 * u
    BY <2>1
  <2>8. mode \in {"events", "chunks"} => written = 2 * (written \div 2)
    BY <1>2 DEF StreamInv, Copying
  <2>9. written' + Len(out') = 2 * v
    <3> HIDE DEF u, v
    <3> QED BY <1>2, <2>2, <2>3, <2>7
  <2>10. \A i \in 1 .. Len(out') : out'[i] = written' + i
    BY <1>2, <2>3, <2>7
  <2> QED BY <2>5, <2>6, <2>8, <2>9, <2>10, <1>1, <1>2, <1>3, <1>6 DEF Copying
<1> QED BY <1>1, <1>3, <1>5, <1>6

(* What a Write takes: one event of a transformed stream, all of a raw one.   *)
LEMMA PortionIs ==
  ASSUME StreamInv, pc = "copy", out # <<>>, NEW n \in R!Portions
  PROVE  /\ n \in 1 .. Len(out)
         /\ mode \in {"events", "chunks"} => n = 2
<1> USE StreamAssumption
<1>1. Len(out) \in Nat /\ Len(out) > 0 /\ written \in Nat /\ pos \in Nat /\ mode \in R!Modes
  BY DEF StreamInv, R!TypeOK
<1>2. CASE mode \in {"raw", "framed"}
  BY <1>1, <1>2 DEF R!Portions
<1>3. CASE mode \in {"events", "chunks"}
  <2>1. n = 2
    BY <1>3 DEF R!Portions
  <2>2. written + Len(out) = 2 * (pos \div 2) /\ written = 2 * (written \div 2)
    BY <1>3 DEF StreamInv, Copying
  <2>3. Len(out) >= 2
    <3> DEFINE h == written \div 2
               q == pos \div 2
    <3>1. h \in Nat /\ q \in Nat
      BY <1>1
    <3>2. 2 * h + Len(out) = 2 * q
      BY <2>2
    <3> DEFINE l == Len(out)
    <3>3. l \in Nat /\ l > 0 /\ 2 * h + l = 2 * q
      BY <1>1, <3>2
    <3> HIDE DEF h, q, l
    <3>4. l # 1
      BY <3>1, <3>3
    <3>5. l >= 2
      BY <3>3, <3>4
    <3> QED BY <3>5 DEF l
  <2>5. n \in 1 .. Len(out)
    BY <1>1, <2>1, <2>3
  <2> QED BY <2>1, <2>5
<1> QED BY <1>1, <1>2, <1>3 DEF R!Modes

(* What a Write of n pieces makes of what waits and of what was sent.         *)
LEMMA WriteSends ==
  ASSUME StreamInv, NEW n \in 1 .. Len(out),
         client' = client \o R!Sent(SubSeq(out, 1, n)),
         out' = SubSeq(out, n + 1, Len(out)), pc = "copy"
  PROVE  /\ out' \in Seq(R!Pieces) /\ Len(out') = Len(out) - n
         /\ \A i \in 1 .. Len(out') : out'[i] = written + n + i
         /\ client' \in Seq(R!Tokens) /\ Len(client') = Len(client) + n
         /\ \A i \in 1 .. Len(client) : client'[i] = client[i]
         /\ \A k \in 1 .. n : /\ client'[Len(client) + k] =
                                   [kind |-> "piece", from |-> attempt, piece |-> written + k]
                              /\ written + k = out[k] /\ out[k] \in R!Pieces
<1> USE StreamAssumption
<1>1. /\ out \in Seq(R!Pieces) /\ client \in Seq(R!Tokens) /\ written \in Nat
      /\ attempt \in 0 .. StreamAttempts
      /\ \A i \in 1 .. Len(out) : out[i] = written + i
  BY DEF StreamInv, R!TypeOK, Copying
<1> DEFINE s == SubSeq(out, 1, n)
           t == R!Sent(s)
<1>2. s \in Seq(R!Pieces) /\ Len(s) = n /\ \A i \in 1 .. n : s[i] = out[i]
  BY <1>1
<1>3. /\ out' \in Seq(R!Pieces) /\ Len(out') = Len(out) - n
      /\ \A i \in 1 .. Len(out') : out'[i] = out[n + i]
  BY <1>1
<1>4. /\ t \in Seq(R!Tokens) /\ Len(t) = n
      /\ \A k \in 1 .. n : t[k] = [kind |-> "piece", from |-> attempt, piece |-> out[k]]
  <2>1. t = [i \in 1 .. n |-> [kind |-> "piece", from |-> attempt, piece |-> s[i]]]
    BY <1>2 DEF R!Sent
  <2>2. \A i \in 1 .. n : [kind |-> "piece", from |-> attempt, piece |-> s[i]] \in R!Tokens
    BY <1>1, <1>2 DEF R!Tokens
  <2> HIDE DEF s, t
  <2> QED BY <1>2, <2>1, <2>2
<1>5. client' = client \o t
  OBVIOUS
<1> HIDE DEF s, t
<1>6. /\ client' \in Seq(R!Tokens) /\ Len(client') = Len(client) + n
      /\ \A i \in 1 .. Len(client) : client'[i] = client[i]
      /\ \A k \in 1 .. n : client'[Len(client) + k] = t[k]
  <2>1. \A i \in 1 .. Len(client) + Len(t) :
          client'[i] = IF i <= Len(client) THEN client[i] ELSE t[i - Len(client)]
    <3>1. \A i \in 1 .. Len(client) + Len(t) :
            (client \o t)[i] = IF i <= Len(client) THEN client[i] ELSE t[i - Len(client)]
      BY <1>1, <1>4, ConcatProperties, Zenon
    <3> QED BY <1>5, <3>1, Zenon
  <2>2. client' \in Seq(R!Tokens) /\ Len(client') = Len(client) + n
    <3>1. client \o t \in Seq(R!Tokens) /\ Len(client \o t) = Len(client) + Len(t)
      BY <1>1, <1>4, ConcatProperties, Zenon
    <3> QED BY <1>4, <1>5, <3>1, Zenon
  <2>3. Len(client) \in Nat
    BY <1>1
  <2>4. \A i \in 1 .. Len(client) : client'[i] = client[i]
    BY <1>4, <2>1, <2>3
  <2>5. ASSUME NEW k \in 1 .. n PROVE client'[Len(client) + k] = t[k]
    <3> DEFINE i == Len(client) + k
    <3>1. i \in 1 .. Len(client) + Len(t) /\ ~ (i <= Len(client)) /\ i - Len(client) = k
      BY <1>4, <2>3
    <3> HIDE DEF i
    <3>2. client'[i] = IF i <= Len(client) THEN client[i] ELSE t[i - Len(client)]
      BY <2>1, <3>1
    <3>3. client'[i] = t[k]
      BY <3>1, <3>2
    <3> QED BY <3>3 DEF i
  <2> QED BY <2>2, <2>4, <2>5
<1>7. \A k \in 1 .. n : written + k = out[k] /\ out[k] \in R!Pieces
  BY <1>1
<1>8. \A i \in 1 .. Len(out') : out'[i] = written + n + i
  BY <1>1, <1>3
<1> QED BY <1>3, <1>4, <1>6, <1>7, <1>8

(* A Write of whole pieces keeps the invariant.                               *)
LEMMA WriteKeeps == StreamInv /\ R!Write => StreamInv'
<1> SUFFICES ASSUME StreamInv, R!Write PROVE StreamInv'
  OBVIOUS
<1> USE StreamAssumption
<1>1. PICK n \in R!Portions :
        /\ pc = "copy" /\ out # <<>>
        /\ R!CommitLocked
        /\ client' = client \o R!Sent(SubSeq(out, 1, n))
        /\ written' = written + n
        /\ metered' = metered \cup R!Fed(n)
        /\ out' = SubSeq(out, n + 1, Len(out))
        /\ reply' = "stream"
        /\ UNCHANGED <<mode, sticky, pc, attempt, pos, copyErr, ticks>>
  BY DEF R!Write
<1>2. n \in 1 .. Len(out) /\ (mode \in {"events", "chunks"} => n = 2)
  BY <1>1, PortionIs
<1>3. /\ out' \in Seq(R!Pieces) /\ Len(out') = Len(out) - n
      /\ \A i \in 1 .. Len(out') : out'[i] = written + n + i
      /\ client' \in Seq(R!Tokens) /\ Len(client') = Len(client) + n
      /\ \A i \in 1 .. Len(client) : client'[i] = client[i]
      /\ \A k \in 1 .. n : /\ client'[Len(client) + k] =
                                [kind |-> "piece", from |-> attempt, piece |-> written + k]
                           /\ written + k = out[k] /\ out[k] \in R!Pieces
  BY <1>1, <1>2, WriteSends
<1>4. /\ Len(out) \in Nat /\ Len(client) \in Nat /\ written \in Nat /\ n \in Nat
      /\ pos \in 0 .. 2 * StreamEvents /\ Len(out) <= 2 * StreamEvents
  BY <1>2 DEF StreamInv, R!TypeOK
<1>5. ASSUME NEW k \in 1 .. n
      PROVE  /\ client'[Len(client) + k].kind = "piece"
             /\ client'[Len(client) + k].piece = written + k
             /\ client'[Len(client) + k].from = attempt
  <2>1. client'[Len(client) + k] = [kind |-> "piece", from |-> attempt, piece |-> written + k]
    BY <1>3, Zenon
  <2> QED BY <2>1
<1>6. \A i \in 1 .. Len(client) : client'[i] = client[i] /\ (IsPiece(i)' <=> IsPiece(i))
  BY <1>3 DEF IsPiece
<1>7. ASSUME NEW i \in 1 .. Len(client') PROVE i \in 1 .. Len(client) \/ \E k \in 1 .. n : i = Len(client) + k
  <2>1. CASE i > Len(client)
    <3>1. i - Len(client) \in 1 .. n /\ i = Len(client) + (i - Len(client))
      BY <1>3, <1>4, <2>1
    <3> QED BY <3>1
  <2> QED BY <1>3, <1>4, <2>1
<1>8. Unsent'
  BY <1>1 DEF Unsent, R!CommitLocked
<1>9. Copying'
  <2>1. \A i \in 1 .. Len(out') : out'[i] = written' + i
    BY <1>1, <1>3
  <2>2. written' + Len(out') = written + Len(out)
    <3>1. Len(out') = Len(out) - n /\ written' = written + n
      BY <1>1, <1>3
    <3> QED BY <1>4, <3>1
  <2>3. mode \in {"events", "chunks"} => written' = 2 * (written' \div 2)
    <3>1. CASE mode \in {"events", "chunks"}
      <4>1. written = 2 * (written \div 2)
        BY <1>1, <3>1 DEF StreamInv, Copying
      <4> QED BY <1>1, <1>2, <1>4, <3>1, <4>1
    <3> QED BY <3>1
  <2> QED BY <1>1, <2>1, <2>2, <2>3 DEF StreamInv, Copying
<1>9a. \A i \in 1 .. Len(client) : IsPiece(i) => client[i].piece \in Nat
  <2>1. client \in Seq(R!Tokens)
    BY DEF StreamInv, R!TypeOK
  <2>2. \A x \in R!Tokens : x.kind = "piece" => x.piece \in Nat
    BY DEF R!Tokens, R!Pieces
  <2>3. \A i \in 1 .. Len(client) : client[i] \in R!Tokens
    BY <2>1
  <2> QED BY <2>2, <2>3, Zenon DEF IsPiece
<1>10. R!TypeOK'
  <2>1. R!Fed(n) \subseteq 1 .. StreamEvents
    <3>1. ASSUME NEW i \in 1 .. n, out[i] % 2 = 0 PROVE R!EventOf(out[i]) \in 1 .. StreamEvents
      <4>1. out[i] \in 1 .. 2 * StreamEvents
        BY <1>3 DEF R!Pieces
      <4> QED BY <3>1, <4>1 DEF R!EventOf
    <3> QED BY <3>1 DEF R!Fed
  <2>2. /\ committed' \in BOOLEAN /\ done' \in {"nil", "open", "closed"}
        /\ ticker' \in {"none", "running", "ended"}
    BY <1>1 DEF R!CommitLocked, StreamInv, R!TypeOK
  <2>3. written' \in Nat /\ Len(out') <= 2 * StreamEvents /\ metered' \subseteq 1 .. StreamEvents
    <3>1. Len(out') = Len(out) - n /\ written' = written + n /\ metered' = metered \cup R!Fed(n)
      BY <1>1, <1>3
    <3>2. metered \subseteq 1 .. StreamEvents
      BY DEF StreamInv, R!TypeOK
    <3>3. written' \in Nat /\ Len(out') <= 2 * StreamEvents
      BY <1>4, <3>1
    <3> QED BY <2>1, <3>1, <3>2, <3>3
  <2> QED BY <1>1, <1>3, <2>2, <2>3 DEF StreamInv, R!TypeOK
<1>11. InOrder'
  <2>1. ASSUME NEW i \in 1 .. Len(client'), IsPiece(i)'
        PROVE  /\ client'[i].from = attempt' /\ client'[i].piece <= written'
               /\ \A j \in 1 .. i - 1 : IsPiece(j)' => client'[j].piece < client'[i].piece
    <3>1. CASE i \in 1 .. Len(client)
      <4>1. IsPiece(i) /\ client'[i] = client[i]
        BY <1>6, <2>1, <3>1
      <4>2. /\ client[i].from = attempt /\ client[i].piece <= written
            /\ \A j \in 1 .. i - 1 : IsPiece(j) => client[j].piece < client[i].piece
        BY <3>1, <4>1 DEF StreamInv, InOrder
      <4>3. client[i].piece \in Nat
        BY <1>9a, <3>1, <4>1
      <4>4. client[i].piece <= written'
        <5>1. written' = written + n
          BY <1>1, Zenon
        <5>2. client[i].piece <= written
          BY <4>2, Zenon
        <5> QED BY <1>4, <4>3, <5>1, <5>2
      <4>5. \A j \in 1 .. i - 1 : j \in 1 .. Len(client)
        BY <1>4, <3>1
      <4> QED BY <1>1, <1>6, <4>1, <4>2, <4>4, <4>5
    <3>2. CASE \E k \in 1 .. n : i = Len(client) + k
      <4>1. PICK k \in 1 .. n : i = Len(client) + k
        BY <3>2
      <4>2. client'[i].piece = written + k /\ client'[i].from = attempt
        BY <1>5, <4>1
      <4>3. ASSUME NEW j \in 1 .. i - 1, IsPiece(j)'
            PROVE  client'[j].piece < written + k
        <5>1. CASE j \in 1 .. Len(client)
          <6>1. IsPiece(j) /\ client'[j] = client[j]
            BY <1>6, <4>3, <5>1
          <6>2. client[j].piece <= written
            BY <5>1, <6>1 DEF StreamInv, InOrder
          <6>3. client[j].piece \in Nat
            BY <1>9a, <5>1, <6>1
          <6> QED BY <1>4, <6>1, <6>2, <6>3
        <5>2. CASE \E m \in 1 .. n : j = Len(client) + m
          <6>1. PICK m \in 1 .. n : j = Len(client) + m
            BY <5>2
          <6>2. client'[j].piece = written + m
            BY <1>5, <6>1
          <6> QED BY <1>4, <4>1, <6>1, <6>2
        <5>3. j \in 1 .. Len(client')
          <6>1. i = Len(client) + k /\ Len(client') = Len(client) + n /\ k \in 1 .. n
            BY <1>3, <4>1, Zenon
          <6>2. Len(client) \in Nat /\ n \in Nat /\ j \in 1 .. i - 1
            BY <1>4, <4>3, Zenon
          <6> QED BY <6>1, <6>2
        <5> QED BY <1>7, <5>1, <5>2, <5>3
      <4>4. client'[i].from = attempt' /\ client'[i].piece <= written'
        BY <1>1, <1>4, <4>1, <4>2
      <4>5. \A j \in 1 .. i - 1 : IsPiece(j)' => client'[j].piece < client'[i].piece
        <5> SUFFICES ASSUME NEW j \in 1 .. i - 1, IsPiece(j)'
                     PROVE  client'[j].piece < client'[i].piece
          OBVIOUS
        <5> QED BY <4>2, <4>3
      <4> QED BY <4>4, <4>5
    <3> QED BY <1>7, <3>1, <3>2
  <2>2. ASSUME NEW p \in 1 .. written'
        PROVE  \E j \in 1 .. Len(client') : IsPiece(j)' /\ client'[j].piece = p
    <3>1. CASE p \in 1 .. written
      <4>1. PICK j \in 1 .. Len(client) : IsPiece(j) /\ client[j].piece = p
        BY <3>1 DEF StreamInv, InOrder
      <4>2. j \in 1 .. Len(client') /\ IsPiece(j)' /\ client'[j].piece = p
        BY <1>3, <1>4, <1>6, <4>1
      <4> QED BY <4>2
    <3>2. CASE p \notin 1 .. written
      <4>1. p - written \in 1 .. n /\ written + (p - written) = p
        BY <1>1, <1>4, <3>2
      <4>2. Len(client) + (p - written) \in 1 .. Len(client')
        BY <1>3, <1>4, <4>1
      <4>3. /\ client'[Len(client) + (p - written)].kind = "piece"
            /\ client'[Len(client) + (p - written)].piece = p
        BY <1>5, <4>1
      <4> QED BY <4>2, <4>3 DEF IsPiece
    <3> QED BY <3>1, <3>2
  <2> QED BY <2>1, <2>2 DEF InOrder
<1>12. Whole'
  <2>1. ASSUME mode \in {"events", "chunks"},
               NEW i \in 1 .. Len(client'), IsPiece(i)', client'[i].piece % 2 = 1
        PROVE  i < Len(client') /\ IsPiece(i + 1)'
    <3>1. CASE i \in 1 .. Len(client)
      <4>1. IsPiece(i) /\ client[i].piece % 2 = 1
        BY <1>6, <2>1, <3>1
      <4>2. i < Len(client) /\ IsPiece(i + 1)
        BY <2>1, <3>1, <4>1 DEF StreamInv, Whole
      <4>3. i + 1 \in 1 .. Len(client)
        BY <1>4, <3>1, <4>2
      <4> QED BY <1>3, <1>4, <1>6, <4>2, <4>3
    <3>2. CASE \E k \in 1 .. n : i = Len(client) + k
      <4>1. PICK k \in 1 .. n : i = Len(client) + k
        BY <3>2
      <4>2. n = 2 /\ written = 2 * (written \div 2)
        BY <1>1, <1>2, <2>1 DEF StreamInv, Copying
      <4>3. (written + k) % 2 = 1
        BY <1>5, <2>1, <4>1
      <4>4. k = 1
        BY <1>4, <4>2, <4>3
      <4>5. client'[Len(client) + 2].kind = "piece"
        BY <1>5, <4>2
      <4>6. i + 1 = Len(client) + 2 /\ i < Len(client')
        BY <1>3, <1>4, <4>1, <4>2, <4>4
      <4> QED BY <4>5, <4>6 DEF IsPiece
    <3> QED BY <1>7, <3>1, <3>2
  <2>2. ASSUME NEW i \in 1 .. Len(client'), IsPiece(i)', client'[i].piece % 2 = 0
        PROVE  R!EventOf(client'[i].piece) \in metered'
    <3>1. CASE i \in 1 .. Len(client)
      <4>1. IsPiece(i) /\ client'[i] = client[i]
        BY <1>6, <2>2, <3>1
      <4>2. R!EventOf(client[i].piece) \in metered
        BY <2>2, <3>1, <4>1 DEF StreamInv, Whole
      <4> QED BY <1>1, <4>1, <4>2
    <3>2. CASE \E k \in 1 .. n : i = Len(client) + k
      <4>1. PICK k \in 1 .. n : i = Len(client) + k
        BY <3>2
      <4>2. client'[i].piece = out[k] /\ out[k] \in R!Pieces /\ out[k] % 2 = 0 /\ out[k] = written + k
        BY <1>3, <1>5, <2>2, <4>1
      <4>3. CASE mode = "events"
        <5>1. written + Len(out) = 2 * (pos \div 2)
          BY <1>1, <4>3 DEF StreamInv, Copying
        <5> DEFINE q == pos \div 2
        <5>2. q \in Nat /\ 2 * q <= pos /\ written + Len(out) = 2 * q
          BY <1>4, <5>1
        <5> HIDE DEF q
        <5>3. written + k <= pos
          BY <1>2, <1>4, <5>2
        <5>4. R!EventOf(out[k]) \in 1 .. StreamEvents /\ 2 * R!EventOf(out[k]) = out[k]
          <6> DEFINE o == out[k]
          <6>1. o \in 1 .. 2 * StreamEvents /\ o % 2 = 0
            BY <4>2 DEF R!Pieces
          <6> HIDE DEF o
          <6>2. (o + 1) \div 2 \in 1 .. StreamEvents /\ 2 * ((o + 1) \div 2) = o
            BY <6>1, StreamAssumption
          <6> QED BY <6>2 DEF o, R!EventOf
        <5>5. R!EventOf(out[k]) \in metered
          BY <1>1, <4>2, <4>3, <5>3, <5>4 DEF StreamInv, Copying
        <5> QED BY <1>1, <4>2, <5>5
      <4>4. CASE mode # "events"
        <5>1. R!EventOf(out[k]) \in R!Fed(n)
          BY <4>2, <4>4 DEF R!Fed
        <5> QED BY <1>1, <4>2, <5>1
      <4> QED BY <4>3, <4>4
    <3> QED BY <1>7, <3>1, <3>2
  <2> QED BY <1>1, <2>1, <2>2 DEF Whole
<1> QED BY <1>8, <1>9, <1>10, <1>11, <1>12 DEF StreamInv

(* A comment or an error event after what was sent disturbs no piece.         *)
LEMMA AppendKeeps ==
  ASSUME StreamInv, NEW t \in R!Tokens, t.kind # "piece", client' = Append(client, t),
         attempt' = attempt, written' = written, mode' = mode, metered' = metered
  PROVE  client' \in Seq(R!Tokens) /\ InOrder' /\ Whole'
<1>1. client \in Seq(R!Tokens) /\ Len(client) \in Nat
  BY DEF StreamInv, R!TypeOK
<1>2. /\ client' \in Seq(R!Tokens) /\ Len(client') = Len(client) + 1
      /\ client'[Len(client) + 1] = t
      /\ \A i \in 1 .. Len(client) : client'[i] = client[i]
  BY <1>1
<1>3. \A i \in 1 .. Len(client') : IsPiece(i)' => i \in 1 .. Len(client) /\ IsPiece(i)
  BY <1>1, <1>2 DEF IsPiece
<1>4. InOrder'
  <2>1. ASSUME NEW i \in 1 .. Len(client'), IsPiece(i)'
        PROVE  /\ client'[i].from = attempt' /\ client'[i].piece <= written'
               /\ \A j \in 1 .. i - 1 : IsPiece(j)' => client'[j].piece < client'[i].piece
    <3>1. i \in 1 .. Len(client) /\ IsPiece(i) /\ client'[i] = client[i]
      BY <1>2, <1>3, <2>1
    <3>2. \A j \in 1 .. i - 1 : client'[j] = client[j] /\ j \in 1 .. Len(client)
      BY <1>1, <1>2, <3>1
    <3>3. \A j \in 1 .. i - 1 : IsPiece(j)' => IsPiece(j)
      BY <3>2 DEF IsPiece
    <3> QED BY <3>1, <3>2, <3>3 DEF StreamInv, InOrder
  <2>2. ASSUME NEW p \in 1 .. written'
        PROVE  \E j \in 1 .. Len(client') : IsPiece(j)' /\ client'[j].piece = p
    <3>1. PICK j \in 1 .. Len(client) : IsPiece(j) /\ client[j].piece = p
      BY DEF StreamInv, InOrder
    <3>2. j \in 1 .. Len(client') /\ IsPiece(j)' /\ client'[j].piece = p
      BY <1>1, <1>2, <3>1 DEF IsPiece
    <3> QED BY <3>2
  <2> QED BY <2>1, <2>2 DEF InOrder
<1>5. Whole'
  <2>1. ASSUME mode \in {"events", "chunks"},
               NEW i \in 1 .. Len(client'), IsPiece(i)', client'[i].piece % 2 = 1
        PROVE  i < Len(client') /\ IsPiece(i + 1)'
    <3>1. i \in 1 .. Len(client) /\ IsPiece(i) /\ client'[i] = client[i]
      BY <1>2, <1>3, <2>1
    <3>2. i < Len(client) /\ IsPiece(i + 1)
      BY <2>1, <3>1 DEF StreamInv, Whole
    <3>3. i + 1 \in 1 .. Len(client)
      BY <1>1, <3>1, <3>2
    <3> QED BY <1>1, <1>2, <3>2, <3>3 DEF IsPiece
  <2>2. ASSUME NEW i \in 1 .. Len(client'), IsPiece(i)', client'[i].piece % 2 = 0
        PROVE  R!EventOf(client'[i].piece) \in metered'
    <3>1. i \in 1 .. Len(client) /\ IsPiece(i) /\ client'[i] = client[i]
      BY <1>2, <1>3, <2>2
    <3> QED BY <2>2, <3>1 DEF StreamInv, Whole
  <2> QED BY <2>1, <2>2 DEF Whole
<1> QED BY <1>2, <1>4, <1>5

(* What was sent stays in order while nothing more is sent.                   *)
LEMMA ClientStays ==
  ASSUME StreamInv, client' = client, attempt' = attempt, written' = written, mode' = mode,
         metered \subseteq metered'
  PROVE  InOrder' /\ Whole'
<1>1. \A i : IsPiece(i)' <=> IsPiece(i)
  BY DEF IsPiece
<1>2. InOrder'
  BY <1>1 DEF StreamInv, InOrder
<1>3. Whole'
  BY <1>1 DEF StreamInv, Whole
<1> QED BY <1>2, <1>3

(* A new attempt begins with nothing sent.                                    *)
LEMMA NothingSent == client' = <<>> /\ written' = 0 => InOrder' /\ Whole'
BY DEF InOrder, Whole

(* Every other step keeps the invariant: what was not committed was not sent, *)
(* so an attempt can be repeated, and nobody writes after Close.              *)
LEMMA StreamNext == StreamInv /\ R!Next => StreamInv'
<1> SUFFICES ASSUME StreamInv, R!Next PROVE StreamInv'
  OBVIOUS
<1> USE StreamAssumption
<1>0. R!TypeOK /\ Unsent /\ Copying /\ InOrder /\ Whole
  BY DEF StreamInv
<1>1. CASE R!Open
  <2>1. client' = <<>> /\ written' = 0 /\ Unsent'
    BY <1>0, <1>1 DEF R!Open, Unsent
  <2>2. R!TypeOK'
    <3>1. out' \in Seq(R!Pieces) /\ Len(out') = 0 /\ pos' = 0 /\ written' = 0
      BY <1>1 DEF R!Open
    <3>2. out' \in Seq(R!Pieces) /\ Len(out') <= 2 * StreamEvents
          /\ pos' \in 0 .. 2 * StreamEvents /\ written' \in Nat
      BY <3>1
    <3> QED BY <1>0, <1>1, <3>2 DEF R!Open, R!TypeOK
  <2>3. Copying'
    BY <1>1 DEF R!Open, Copying
  <2> QED BY <2>1, <2>2, <2>3, NothingSent DEF StreamInv
<1>2. CASE R!OpenFails
  <2>1. InOrder' /\ Whole'
    BY <1>2, ClientStays DEF R!OpenFails, R!copyVars, R!writerVars
  <2>2. R!TypeOK' /\ Unsent' /\ Copying'
    BY <1>0, <1>2 DEF R!OpenFails, R!copyVars, R!writerVars, R!TypeOK, Unsent, Copying
  <2> QED BY <2>1, <2>2 DEF StreamInv
<1>3. ASSUME R!RetryFrom, ~ committed, pc \in {"copy", "decide"}, attempt + 1 < StreamAttempts
      PROVE  StreamInv'
  <2>1. client' = <<>> /\ written' = 0
    BY <1>0, <1>3 DEF R!RetryFrom, Unsent
  <2>2. Unsent' /\ Copying'
    BY <1>0, <1>3 DEF R!RetryFrom, Unsent, Copying, R!copyVars
  <2>3. attempt' \in 0 .. StreamAttempts
    BY <1>0, <1>3 DEF R!RetryFrom, R!TypeOK
  <2>4. R!TypeOK'
    BY <1>0, <1>3, <2>3 DEF R!RetryFrom, R!copyVars, R!TypeOK
  <2> QED BY <2>1, <2>2, <2>4, NothingSent DEF StreamInv
<1>4. CASE R!Undecodable
  <2>1. CASE R!CanRetry("upstream")
    BY <1>3, <1>4, <2>1 DEF R!Undecodable, R!CanRetry
  <2>2. CASE ~ R!CanRetry("upstream")
    <3>1. InOrder' /\ Whole'
      BY <1>4, <2>2, ClientStays DEF R!Undecodable, R!copyVars, R!writerVars
    <3>2. R!TypeOK' /\ Unsent' /\ Copying'
      BY <1>0, <1>4, <2>2 DEF R!Undecodable, R!copyVars, R!writerVars, R!TypeOK, Unsent, Copying
    <3> QED BY <3>1, <3>2 DEF StreamInv
  <2> QED BY <2>1, <2>2
<1>5. CASE R!Read
  <2>1. /\ out' \in Seq(R!Pieces) /\ Len(out') <= 2 * StreamEvents
        /\ pos' \in 0 .. 2 * StreamEvents /\ Copying'
    BY <1>5, ReadReaches
  <2>2. metered \subseteq metered' /\ metered' \subseteq 1 .. StreamEvents
    BY <1>0, <1>5 DEF R!Read, R!Whole, R!TypeOK
  <2>3. InOrder' /\ Whole'
    BY <1>5, <2>2, ClientStays DEF R!Read, R!writerVars
  <2>4. R!TypeOK' /\ Unsent'
    BY <1>0, <1>5, <2>1, <2>2 DEF R!Read, R!writerVars, R!TypeOK, Unsent
  <2> QED BY <2>1, <2>3, <2>4 DEF StreamInv
<1>6. CASE R!ReadFails \/ R!Canceled
  <2>1. InOrder' /\ Whole'
    BY <1>6, ClientStays DEF R!ReadFails, R!Canceled, R!writerVars
  <2>2. R!TypeOK' /\ Unsent' /\ Copying'
    BY <1>0, <1>6 DEF R!ReadFails, R!Canceled, R!writerVars, R!TypeOK, Unsent, Copying
  <2> QED BY <2>1, <2>2 DEF StreamInv
<1>7. CASE R!Eof
  <2>1. CASE pos = 2 * StreamEvents - 1 /\ mode # "raw"
    <3>1. /\ out = <<>> /\ out' = <<pos, pos + 1>> /\ pos' = pos + 1 /\ pc = "copy"
          /\ metered' = IF mode = "events" THEN metered \cup {StreamEvents} ELSE metered
          /\ UNCHANGED <<mode, sticky, pc, attempt, copyErr, committed, written, done, ticker,
                         ticks, client, reply>>
      BY <1>7, <2>1 DEF R!Eof, R!writerVars
    <3>2. pos \in 1 .. 2 * StreamEvents /\ pos + 1 = 2 * StreamEvents /\ StreamEvents \in 1 .. StreamEvents
      BY <1>0, <2>1 DEF R!TypeOK
    <3>3. pos \in R!Pieces /\ pos + 1 \in R!Pieces
      BY <3>2 DEF R!Pieces
    <3>4. out' \in Seq(R!Pieces) /\ Len(out') = 2 /\ out'[1] = pos /\ out'[2] = pos + 1
      BY <3>1, <3>3
    <3>5. Len(out') <= 2 * StreamEvents /\ pos' \in 0 .. 2 * StreamEvents
      BY <3>1, <3>2, <3>4
    <3>6. metered \subseteq metered' /\ metered' \subseteq 1 .. StreamEvents
      BY <1>0, <3>1, <3>2 DEF R!TypeOK
    <3>7. InOrder' /\ Whole'
      BY <3>1, <3>6, ClientStays
    <3>8. R!TypeOK' /\ Unsent'
      BY <1>0, <3>1, <3>4, <3>5, <3>6 DEF R!TypeOK, Unsent
    <3>9. Copying'
      <4>1. written = 2 * (pos \div 2) /\ written \in Nat
        BY <1>0, <2>1, <3>1 DEF Copying, R!TypeOK
      <4>2. written = pos - 1
        BY <3>2, <4>1
      <4>3. \A i \in 1 .. Len(out') : out'[i] = written' + i
        BY <3>1, <3>2, <3>4, <4>1, <4>2
      <4>4. written' + Len(out') = 2 * (pos' \div 2)
        BY <3>1, <3>2, <3>4, <4>2
      <4>5. mode \in {"events", "chunks"} => written' = 2 * (written' \div 2)
        BY <1>0, <3>1 DEF Copying
      <4>6. mode = "events" => \A e \in 1 .. StreamEvents : 2 * e <= pos' => e \in metered'
        <5>1. ASSUME mode = "events", NEW e \in 1 .. StreamEvents, e # StreamEvents PROVE e \in metered
          <6>1. 2 * e <= pos
            BY <3>2, <5>1
          <6> QED BY <1>0, <3>1, <5>1, <6>1 DEF Copying
        <5> QED BY <3>1, <5>1
      <4> QED BY <2>1, <3>1, <4>3, <4>4, <4>5, <4>6 DEF Copying
    <3> QED BY <3>7, <3>8, <3>9 DEF StreamInv
  <2>2. CASE ~ (pos = 2 * StreamEvents - 1 /\ mode # "raw")
    <3>1. /\ pc = "copy" /\ pc' = "decide"
          /\ UNCHANGED <<mode, sticky, attempt, pos, out, copyErr, metered, committed, written,
                         done, ticker, ticks, client, reply>>
      BY <1>7, <2>2 DEF R!Eof, R!writerVars
    <3>2. InOrder' /\ Whole'
      BY <3>1, ClientStays
    <3>3. R!TypeOK' /\ Unsent' /\ Copying'
      BY <1>0, <3>1 DEF R!TypeOK, Unsent, Copying
    <3> QED BY <3>2, <3>3 DEF StreamInv
  <2> QED BY <2>1, <2>2
<1>8. CASE R!Write
  BY <1>8, WriteKeeps
<1>9. CASE R!WriteFails
  <2>1. metered \subseteq metered' /\ metered' \subseteq 1 .. StreamEvents
    <3>1. ASSUME NEW i \in 1 .. Len(out), out[i] % 2 = 0 PROVE R!EventOf(out[i]) \in 1 .. StreamEvents
      <4>1. out[i] \in 1 .. 2 * StreamEvents
        BY <1>0 DEF R!TypeOK, R!Pieces
      <4> QED BY <3>1, <4>1 DEF R!EventOf
    <3>2. R!Fed(Len(out)) \subseteq 1 .. StreamEvents
      BY <3>1 DEF R!Fed
    <3> QED BY <1>0, <1>9, <3>2 DEF R!WriteFails, R!TypeOK
  <2>2. InOrder' /\ Whole'
    BY <1>9, <2>1, ClientStays DEF R!WriteFails
  <2>3. R!TypeOK' /\ Unsent' /\ Copying'
    BY <1>0, <1>9, <2>1 DEF R!WriteFails, R!CommitLocked, R!TypeOK, Unsent, Copying
  <2> QED BY <2>2, <2>3 DEF StreamInv
<1>10. CASE R!Retry
  BY <1>3, <1>10 DEF R!Retry, R!CanRetry
<1>11. CASE R!FailUnsent
  <2>1. InOrder' /\ Whole'
    BY <1>11, ClientStays DEF R!FailUnsent, R!copyVars, R!writerVars
  <2>2. R!TypeOK' /\ Unsent' /\ Copying'
    BY <1>0, <1>11 DEF R!FailUnsent, R!copyVars, R!writerVars, R!TypeOK, Unsent, Copying
  <2> QED BY <2>1, <2>2 DEF StreamInv
<1>12. CASE R!Finish
  <2>1. [kind |-> "error"] \in R!Tokens /\ [kind |-> "error"].kind # "piece"
    BY DEF R!Tokens
  <2>2. client' = client \/ client' = Append(client, [kind |-> "error"])
    BY <1>12 DEF R!Finish
  <2>3. attempt' = attempt /\ written' = written /\ mode' = mode /\ metered' = metered
    BY <1>12 DEF R!Finish, R!copyVars
  <2>4. client' \in Seq(R!Tokens) /\ InOrder' /\ Whole'
    <3>1. CASE client' = client
      BY <1>0, <2>3, <3>1, ClientStays DEF R!TypeOK
    <3>2. CASE client' = Append(client, [kind |-> "error"])
      BY <2>1, <2>3, <3>2, AppendKeeps
    <3> QED BY <2>2, <3>1, <3>2
  <2>5. R!TypeOK' /\ Copying'
    BY <1>0, <1>12, <2>4 DEF R!Finish, R!CommitLocked, R!copyVars, R!TypeOK, Copying
  <2>6. Unsent'
    BY <1>12 DEF R!Finish, R!CommitLocked, Unsent
  <2> QED BY <2>4, <2>5, <2>6 DEF StreamInv
<1>13. CASE R!Close \/ R!Return
  <2>1. InOrder' /\ Whole'
    BY <1>13, ClientStays DEF R!Close, R!Return, R!copyVars, R!writerVars
  <2>2. R!TypeOK' /\ Unsent' /\ Copying'
    BY <1>0, <1>13 DEF R!Close, R!Return, R!copyVars, R!writerVars, R!TypeOK, Unsent, Copying
  <2> QED BY <2>1, <2>2 DEF StreamInv
<1>14. CASE R!Tick
  <2>1. [kind |-> "keepalive"] \in R!Tokens /\ [kind |-> "keepalive"].kind # "piece"
    BY DEF R!Tokens
  <2>2. attempt' = attempt /\ written' = written /\ mode' = mode /\ metered' = metered
    BY <1>14 DEF R!Tick, R!copyVars
  <2>3. client' = client \/ client' = Append(client, [kind |-> "keepalive"])
    BY <1>14 DEF R!Tick
  <2>4. client' \in Seq(R!Tokens) /\ InOrder' /\ Whole'
    <3>1. CASE client' = client
      BY <1>0, <2>2, <3>1, ClientStays DEF R!TypeOK
    <3>2. CASE client' = Append(client, [kind |-> "keepalive"])
      BY <2>1, <2>2, <3>2, AppendKeeps
    <3> QED BY <2>3, <3>1, <3>2
  <2>5. ticks' \in 0 .. StreamTicks
    BY <1>0, <1>14 DEF R!Tick, R!TypeOK
  <2>6. R!TypeOK' /\ Copying'
    BY <1>0, <1>14, <2>4, <2>5 DEF R!Tick, R!copyVars, R!TypeOK, Copying
  <2>7. Unsent'
    BY <1>0, <1>14 DEF R!Tick, Unsent
  <2> QED BY <2>4, <2>6, <2>7 DEF StreamInv
<1>15. CASE R!TickerStops
  <2>1. InOrder' /\ Whole'
    BY <1>15, ClientStays DEF R!TickerStops, R!copyVars
  <2>2. R!TypeOK' /\ Unsent' /\ Copying'
    BY <1>0, <1>15 DEF R!TickerStops, R!copyVars, R!TypeOK, Unsent, Copying
  <2> QED BY <2>1, <2>2 DEF StreamInv
<1> QED BY <1>1, <1>2, <1>4, <1>5, <1>6, <1>7, <1>8, <1>9, <1>10, <1>11, <1>12, <1>13, <1>14,
           <1>15 DEF R!Next, R!Handler

(* A step of another part, or none, leaves the stream as it is.               *)
LEMMA StreamStays == StreamInv /\ UNCHANGED streamVars => StreamInv'
<1> SUFFICES ASSUME StreamInv, UNCHANGED streamVars PROVE StreamInv'
  OBVIOUS
<1>1. InOrder' /\ Whole'
  BY ClientStays DEF streamVars
<1>2. R!TypeOK' /\ Unsent' /\ Copying'
  BY DEF streamVars, StreamInv, R!TypeOK, Unsent, Copying
<1> QED BY <1>1, <1>2 DEF StreamInv

(* The invariant says that the client sees one answer.                        *)
LEMMA StreamInvIsOne ==
  StreamInv => R!OneAnswer /\ R!TransformedEventsStayWhole /\ R!RelayedIsMetered
<1> SUFFICES ASSUME StreamInv
             PROVE  R!OneAnswer /\ R!TransformedEventsStayWhole /\ R!RelayedIsMetered
  OBVIOUS
<1>1. client \in Seq(R!Tokens) /\ Len(client) \in Nat /\ DOMAIN client = 1 .. Len(client) /\ written \in Nat
  BY DEF StreamInv, R!TypeOK
<1>2. ASSUME NEW i \in DOMAIN client, IsPiece(i)
      PROVE  /\ client[i].from = attempt
             /\ \A p \in 1 .. client[i].piece : \E j \in 1 .. i : IsPiece(j) /\ client[j].piece = p
             /\ \A j \in 1 .. i - 1 : IsPiece(j) => client[j].piece < client[i].piece
  <2>1. /\ client[i].from = attempt /\ client[i].piece <= written
        /\ \A j \in 1 .. i - 1 : IsPiece(j) => client[j].piece < client[i].piece
    BY <1>1, <1>2 DEF StreamInv, InOrder
  <2>2. client[i].piece \in Nat
    BY <1>1, <1>2 DEF R!Tokens, R!Pieces, IsPiece
  <2>3. ASSUME NEW p \in 1 .. client[i].piece
        PROVE  \E j \in 1 .. i : IsPiece(j) /\ client[j].piece = p
    <3>1. p \in 1 .. written
      BY <1>1, <2>1, <2>2
    <3>2. PICK j \in 1 .. Len(client) : IsPiece(j) /\ client[j].piece = p
      BY <3>1 DEF StreamInv, InOrder
    <3>3. ~ (i < j)
      <4>1. i < j => client[i].piece < p
        BY <1>1, <1>2, <3>2 DEF StreamInv, InOrder
      <4> QED BY <2>2, <4>1
    <3> QED BY <1>1, <3>2, <3>3
  <2> QED BY <2>1, <2>3
<1>3. R!OneAnswer
  BY <1>2 DEF R!OneAnswer, R!IsPiece, IsPiece, StreamInv, Unsent
<1>4. R!TransformedEventsStayWhole
  BY <1>1 DEF StreamInv, Whole, IsPiece, R!TransformedEventsStayWhole
<1>5. R!RelayedIsMetered
  BY <1>1 DEF StreamInv, Whole, IsPiece, R!RelayedIsMetered
<1> QED BY <1>3, <1>4, <1>5

(* After Close only the handler's own return is left, and the goroutine finds *)
(* nobody to write to.                                                        *)
LEMMA ClosedIsSilent ==
  StreamInv /\ R!Next => (pc \in {"closed", "end"} => client' = client)
BY DEF StreamInv, Unsent, R!Next, R!Handler, R!Open, R!OpenFails, R!Undecodable, R!RetryFrom, R!Read,
       R!ReadFails, R!Canceled, R!Eof, R!Write, R!WriteFails, R!Retry, R!FailUnsent, R!Finish,
       R!Close, R!Return, R!Tick, R!TickerStops

-----------------------------------------------------------------------------
(* The sessions                                                               *)

(* What is true of a session's record: it holds a slot of its account while   *)
(* it dials and relays, the goroutines copy while it relays, nothing is       *)
(* recorded or settled before, and at the end claim, record, reservation and  *)
(* cost agree.                                                                *)
RowOK(r) ==
  /\ r.slot <=> r.pc \in {"dial", "dialed", "relay", "settled"}
  /\ r.slot => r.route \in Accounts
  /\ r.toUpstream = "copying" \/ r.toClient = "copying" => r.pc = "relay"
  /\ r.pc \notin {"settled", "end"} =>
       r.usage = "none" /\ r.cost = "none" /\ r.hold \in {"none", "held"}
  /\ r.pc \in {"start", "claimed"} \/ r.kind = "call" => r.hold = "none"
  /\ r.pc \notin {"start", "reserved", "end"} => r.kind # "call"
  /\ r.pc \notin {"relay", "settled", "end"} => r.toClient = "none" /\ ~ r.relayed
  /\ r.pc = "relay" => r.toClient # "none"
  /\ r.pc = "settled" =>
       /\ r.usage = "none" /\ r.toClient = "done"
       /\ r.hold \in {"none", "settled", "refused"}
  /\ r.pc = "end" /\ r.usage # "none" =>
       /\ r.claim = r.usage
       /\ r.hold # "held"
       /\ r.kind # "call" => ((r.usage = "success") <=> (r.toClient = "done"))
       /\ r.hold \in {"settled", "refused"} => r.usage = "success"
  /\ r.relayed => r.cost # "estimate"

(* With SlotsReturned, which counts an account's slots, that is inductive.    *)
SessionInv ==
  /\ W!TypeOK
  /\ \A s \in Sessions : RowOK(ses[s])
  /\ W!SlotsReturned

(* As for the stream.                                                         *)
LEMMA SameSessionCardinality == \A X : W!Cardinality(X) = Cardinality(X)
BY DEF W!Cardinality, Cardinality

(* The sessions that hold a slot of one account are finitely many.            *)
LEMMA HoldersCount ==
  ASSUME NEW a
  PROVE  /\ IsFiniteSet(W!Holders(a)) /\ W!Cardinality(W!Holders(a)) \in Nat
         /\ W!Holders(a) # {} => W!Cardinality(W!Holders(a)) > 0
<1>1. W!Holders(a) \subseteq Sessions
  BY DEF W!Holders
<1>2. IsFiniteSet(W!Holders(a))
  BY <1>1, FS_Subset, SessionAssumption
<1>3. Cardinality(W!Holders(a)) \in Nat
  BY <1>2, FS_CardinalityType
<1>4. Cardinality(W!Holders(a)) = 0 <=> W!Holders(a) = {}
  BY <1>2, FS_EmptySet
<1>5. W!Cardinality(W!Holders(a)) = Cardinality(W!Holders(a))
  BY SameSessionCardinality, Zenon
<1> QED BY <1>2, <1>3, <1>4, <1>5

(* One session more, ...                                                      *)
LEMMA HolderMore ==
  ASSUME NEW X, IsFiniteSet(X), NEW s, s \notin X
  PROVE  W!Cardinality(X \cup {s}) = W!Cardinality(X) + 1
<1>1. Cardinality(X \cup {s}) = Cardinality(X) + 1
  BY FS_AddElement
<1> QED BY <1>1, SameSessionCardinality, Zenon

(* ... and one less.                                                         *)
LEMMA HolderLess ==
  ASSUME NEW X, IsFiniteSet(X), NEW s, s \in X
  PROVE  W!Cardinality(X \ {s}) = W!Cardinality(X) - 1
<1>1. Cardinality(X \ {s}) = Cardinality(X) - 1
  BY FS_RemoveElement
<1> QED BY <1>1, SameSessionCardinality, Zenon

(* Sessions begin with no slot and nothing open.                              *)
LEMMA SessionInit == W!Init => SessionInv
<1> SUFFICES ASSUME W!Init PROVE SessionInv
  OBVIOUS
<1>1. PICK kinds \in Meetings :
        ses = [s \in Sessions |->
          [kind |-> kinds[s], pc |-> "start", claim |-> "none", usage |-> "none", hold |-> "none",
           route |-> NoAccount, failed |-> {}, slot |-> FALSE, client |-> "none",
           upstream |-> "none", toUpstream |-> "none", toClient |-> "none",
           relayed |-> FALSE, cost |-> "none"]]
  BY DEF W!Init
<1>2. active = [a \in Accounts |-> 0]
  BY DEF W!Init
<1>3. \A s \in Sessions : kinds[s] \in W!Kinds
  BY SessionAssumption DEF W!Kinds
<1>4. W!TypeOK
  <2>1. ASSUME NEW s \in Sessions PROVE ses[s] \in W!SessionRecords
    BY <1>1, <1>3 DEF W!SessionRecords
  <2>2. ses \in [Sessions -> W!SessionRecords]
    BY <1>1, <2>1
  <2>3. active \in [Accounts -> 0 .. MaxConcurrency]
    BY <1>2, SessionAssumption
  <2> QED BY <2>2, <2>3 DEF W!TypeOK
<1>5. \A s \in Sessions : RowOK(ses[s])
  BY <1>1 DEF RowOK
<1>6. ASSUME NEW a \in Accounts PROVE W!Cardinality(W!Holders(a)) = 0
  <2>1. W!Holders(a) = {}
    BY <1>1 DEF W!Holders
  <2>2. Cardinality(W!Holders(a)) = 0
    BY <2>1, FS_EmptySet
  <2> QED BY <2>2, SameSessionCardinality, Zenon
<1>7. W!SlotsReturned
  BY <1>2, <1>6 DEF W!SlotsReturned
<1> QED BY <1>4, <1>5, <1>7 DEF SessionInv

(* One session's record changes.                                              *)
LEMMA RowChanges ==
  ASSUME SessionInv, NEW s \in Sessions, NEW t \in W!SessionRecords, RowOK(t),
         ses' = [ses EXCEPT ![s] = t]
  PROVE  /\ ses' \in [Sessions -> W!SessionRecords] /\ ses'[s] = t
         /\ \A u \in Sessions \ {s} : ses'[u] = ses[u]
         /\ \A u \in Sessions : RowOK(ses[u])'
<1>1. ses \in [Sessions -> W!SessionRecords]
  BY DEF SessionInv, W!TypeOK
<1>2. ses' \in [Sessions -> W!SessionRecords] /\ ses'[s] = t /\ \A u \in Sessions \ {s} : ses'[u] = ses[u]
  BY <1>1
<1>3. ASSUME NEW u \in Sessions PROVE RowOK(ses'[u])
  BY <1>2 DEF SessionInv
<1>4. \A u \in Sessions : RowOK(ses[u])'
  BY <1>3 DEF RowOK
<1> QED BY <1>2, <1>4

(* The session keeps its slot, or its lack of one.                            *)
LEMMA SlotKept ==
  ASSUME SessionInv, NEW s \in Sessions, NEW t \in W!SessionRecords, RowOK(t),
         t.kind = ses[s].kind, t.slot <=> ses[s].slot, t.slot => t.route = ses[s].route,
         ses' = [ses EXCEPT ![s] = t], active' = active
  PROVE  SessionInv'
<1>1. /\ ses' \in [Sessions -> W!SessionRecords] /\ ses'[s] = t
      /\ \A u \in Sessions \ {s} : ses'[u] = ses[u]
      /\ \A u \in Sessions : RowOK(ses[u])'
  BY RowChanges
<1>2. ASSUME NEW a \in Accounts PROVE W!Holders(a)' = W!Holders(a)
  BY <1>1 DEF W!Holders
<1>3. \A u \in Sessions : ses'[u].kind = ses[u].kind
  BY <1>1
<1>4. ASSUME NEW a \in Accounts
      PROVE  /\ active'[a] <= W!Cardinality(W!Holders(a)')
             /\ (\A u \in Sessions : ses'[u].kind # "responses") => active'[a] = W!Cardinality(W!Holders(a)')
  BY <1>2, <1>3 DEF SessionInv, W!SlotsReturned
<1>5. W!SlotsReturned'
  BY <1>4 DEF W!SlotsReturned
<1>6. W!TypeOK'
  BY <1>1 DEF SessionInv, W!TypeOK
<1> QED BY <1>1, <1>5, <1>6 DEF SessionInv

(* It takes a slot of an account that has one free.                           *)
LEMMA SlotTaken ==
  ASSUME SessionInv, NEW s \in Sessions, NEW t \in W!SessionRecords, RowOK(t), NEW a \in Accounts,
         t.kind = ses[s].kind, ~ ses[s].slot, t.slot, t.route = a, active[a] < MaxConcurrency,
         ses' = [ses EXCEPT ![s] = t], active' = [active EXCEPT ![a] = @ + 1]
  PROVE  SessionInv'
<1>1. /\ ses' \in [Sessions -> W!SessionRecords] /\ ses'[s] = t
      /\ \A u \in Sessions \ {s} : ses'[u] = ses[u]
      /\ \A u \in Sessions : RowOK(ses[u])'
  BY RowChanges
<1>2. /\ active \in [Accounts -> 0 .. MaxConcurrency] /\ MaxConcurrency \in Nat
  BY SessionAssumption DEF SessionInv, W!TypeOK
<1>3. active'[a] = active[a] + 1 /\ \A b \in Accounts \ {a} : active'[b] = active[b]
  BY <1>2
<1>4. active' \in [Accounts -> 0 .. MaxConcurrency]
  <2>1. active[a] + 1 \in 0 .. MaxConcurrency
    BY <1>2
  <2> QED BY <1>2, <2>1
<1>5. \A u \in Sessions : ses'[u].kind = ses[u].kind
  BY <1>1
<1>6. W!Holders(a)' = W!Holders(a) \cup {s} /\ s \notin W!Holders(a)
  BY <1>1 DEF W!Holders
<1>7. ASSUME NEW b \in Accounts \ {a} PROVE W!Holders(b)' = W!Holders(b)
  BY <1>1 DEF W!Holders
<1>8. W!Cardinality(W!Holders(a)') = W!Cardinality(W!Holders(a)) + 1
  <2>1. W!Cardinality(W!Holders(a) \cup {s}) = W!Cardinality(W!Holders(a)) + 1
    BY <1>6, HoldersCount, HolderMore
  <2> QED BY <1>6, <2>1
<1>9. ASSUME NEW b \in Accounts
      PROVE  /\ active'[b] <= W!Cardinality(W!Holders(b)')
             /\ (\A u \in Sessions : ses'[u].kind # "responses") => active'[b] = W!Cardinality(W!Holders(b)')
  <2>1. /\ active[b] <= W!Cardinality(W!Holders(b))
        /\ (\A u \in Sessions : ses[u].kind # "responses") => active[b] = W!Cardinality(W!Holders(b))
    BY DEF SessionInv, W!SlotsReturned
  <2>2. CASE b = a
    <3>1. W!Cardinality(W!Holders(a)) \in Nat /\ active[a] \in Nat
      BY <1>2, HoldersCount
    <3> QED BY <1>3, <1>5, <1>8, <2>1, <2>2, <3>1
  <2>3. CASE b # a
    BY <1>3, <1>5, <1>7, <2>1, <2>3
  <2> QED BY <2>2, <2>3
<1>10. W!SlotsReturned'
  BY <1>9 DEF W!SlotsReturned
<1>11. W!TypeOK'
  BY <1>1, <1>4 DEF W!TypeOK
<1> QED BY <1>1, <1>10, <1>11 DEF SessionInv

(* SlotBack never goes below zero and changes no other account.               *)
LEMMA SlotBackCounts ==
  ASSUME SessionInv, NEW s \in Sessions, ses[s].slot, W!SlotBack(s)
  PROVE  /\ active' \in [Accounts -> 0 .. MaxConcurrency]
         /\ active'[ses[s].route] = IF active[ses[s].route] > 0 THEN active[ses[s].route] - 1 ELSE 0
         /\ \A b \in Accounts \ {ses[s].route} : active'[b] = active[b]
<1>1. active \in [Accounts -> 0 .. MaxConcurrency] /\ MaxConcurrency \in Nat /\ ses[s].route \in Accounts
  BY SessionAssumption DEF SessionInv, W!TypeOK, RowOK
<1> DEFINE a == ses[s].route
           n == IF active[a] > 0 THEN active[a] - 1 ELSE 0
<1>2. active' = [active EXCEPT ![a] = n]
  BY DEF W!SlotBack
<1>3. n \in 0 .. MaxConcurrency /\ a \in Accounts
  BY <1>1
<1> HIDE DEF n, a
<1>4. /\ active' \in [Accounts -> 0 .. MaxConcurrency]
      /\ active'[a] = n /\ \A b \in Accounts \ {a} : active'[b] = active[b]
  BY <1>1, <1>2, <1>3
<1> QED BY <1>4 DEF n, a

(* It gives its slot back.                                                    *)
LEMMA SlotGiven ==
  ASSUME SessionInv, NEW s \in Sessions, NEW t \in W!SessionRecords, RowOK(t),
         t.kind = ses[s].kind, ses[s].slot, ~ t.slot,
         ses' = [ses EXCEPT ![s] = t], W!SlotBack(s)
  PROVE  SessionInv'
<1>1. /\ ses' \in [Sessions -> W!SessionRecords] /\ ses'[s] = t
      /\ \A u \in Sessions \ {s} : ses'[u] = ses[u]
      /\ \A u \in Sessions : RowOK(ses[u])'
  BY RowChanges
<1>2. /\ active \in [Accounts -> 0 .. MaxConcurrency] /\ ses[s].route \in Accounts
  BY DEF SessionInv, W!TypeOK, RowOK
<1>0. PICK a \in Accounts : a = ses[s].route
  BY <1>2
<1>3. /\ active' \in [Accounts -> 0 .. MaxConcurrency]
      /\ active'[a] = IF active[a] > 0 THEN active[a] - 1 ELSE 0
      /\ \A b \in Accounts \ {a} : active'[b] = active[b]
  BY <1>0, SlotBackCounts
<1>4. \A u \in Sessions : ses'[u].kind = ses[u].kind
  BY <1>1
<1>5. W!Holders(a)' = W!Holders(a) \ {s} /\ s \in W!Holders(a)
  BY <1>0, <1>1 DEF W!Holders
<1>6. ASSUME NEW b \in Accounts \ {a} PROVE W!Holders(b)' = W!Holders(b)
  BY <1>0, <1>1 DEF W!Holders
<1>7. W!Cardinality(W!Holders(a)') = W!Cardinality(W!Holders(a)) - 1
  <2>1. W!Cardinality(W!Holders(a) \ {s}) = W!Cardinality(W!Holders(a)) - 1
    BY <1>5, HoldersCount, HolderLess
  <2> QED BY <1>5, <2>1
<1>8. ASSUME NEW b \in Accounts
      PROVE  /\ active'[b] <= W!Cardinality(W!Holders(b)')
             /\ (\A u \in Sessions : ses'[u].kind # "responses") => active'[b] = W!Cardinality(W!Holders(b)')
  <2>1. /\ active[b] <= W!Cardinality(W!Holders(b))
        /\ (\A u \in Sessions : ses[u].kind # "responses") => active[b] = W!Cardinality(W!Holders(b))
    BY DEF SessionInv, W!SlotsReturned
  <2>2. CASE b = a
    <3>1. W!Cardinality(W!Holders(a)) \in Nat /\ active[a] \in Nat /\ W!Cardinality(W!Holders(a)) > 0
      BY <1>2, <1>5, HoldersCount
    <3> QED BY <1>3, <1>4, <1>7, <2>1, <2>2, <3>1
  <2>3. CASE b # a
    BY <1>3, <1>4, <1>6, <2>1, <2>3
  <2> QED BY <2>2, <2>3
<1>9. W!SlotsReturned'
  BY <1>8 DEF W!SlotsReturned
<1>10. W!TypeOK'
  BY <1>1, <1>3 DEF W!TypeOK
<1> QED BY <1>1, <1>9, <1>10 DEF SessionInv

(* A Responses session gives its slot back as it begins, and goes on: its     *)
(* account's counter is then below the sessions that hold one.                *)
LEMMA SlotGivenEarly ==
  ASSUME SessionInv, NEW s \in Sessions, NEW t \in W!SessionRecords, RowOK(t),
         t.kind = ses[s].kind, t.kind = "responses", ses[s].slot, t.slot, t.route = ses[s].route,
         ses' = [ses EXCEPT ![s] = t], W!SlotBack(s)
  PROVE  SessionInv'
<1>1. /\ ses' \in [Sessions -> W!SessionRecords] /\ ses'[s] = t
      /\ \A u \in Sessions \ {s} : ses'[u] = ses[u]
      /\ \A u \in Sessions : RowOK(ses[u])'
  BY RowChanges
<1>2. /\ active \in [Accounts -> 0 .. MaxConcurrency] /\ ses[s].route \in Accounts
  BY DEF SessionInv, W!TypeOK, RowOK
<1>3. /\ active' \in [Accounts -> 0 .. MaxConcurrency]
      /\ active'[ses[s].route] = IF active[ses[s].route] > 0 THEN active[ses[s].route] - 1 ELSE 0
      /\ \A b \in Accounts \ {ses[s].route} : active'[b] = active[b]
  BY SlotBackCounts
<1>4. ASSUME NEW b \in Accounts PROVE active'[b] <= active[b]
  BY <1>2, <1>3
<1>5. ASSUME NEW b \in Accounts PROVE W!Holders(b)' = W!Holders(b)
  BY <1>1 DEF W!Holders
<1>6. ASSUME NEW b \in Accounts PROVE active'[b] <= W!Cardinality(W!Holders(b)')
  <2>1. active[b] <= W!Cardinality(W!Holders(b)) /\ W!Cardinality(W!Holders(b)) \in Nat
    BY HoldersCount DEF SessionInv, W!SlotsReturned
  <2>2. active'[b] \in Nat /\ active[b] \in Nat
    BY <1>2, <1>3
  <2> QED BY <1>4, <1>5, <2>1, <2>2
<1>7. W!SlotsReturned'
  BY <1>1, <1>6 DEF W!SlotsReturned
<1>8. W!TypeOK'
  BY <1>1, <1>3 DEF W!TypeOK
<1> QED BY <1>1, <1>7, <1>8 DEF SessionInv

(* A session's record stays one when a field is written.                      *)
LEMMA SessionPut ==
  ASSUME NEW w \in W!SessionRecords
  PROVE  /\ \A x \in {"start", "claimed", "checks", "reserved", "dial", "dialed", "relay", "settled", "end"} :
              [w EXCEPT !.pc = x] \in W!SessionRecords
         /\ \A x \in {"none", "processing", "rejected", "failed", "success"} :
              [w EXCEPT !.claim = x] \in W!SessionRecords
         /\ \A x \in {"none", "rejected", "failed", "success"} :
              [w EXCEPT !.usage = x] \in W!SessionRecords
         /\ \A x \in {"none", "held", "released", "settled", "refused"} :
              [w EXCEPT !.hold = x] \in W!SessionRecords
         /\ \A x \in SUBSET Accounts :
              [w EXCEPT !.failed = x] \in W!SessionRecords
         /\ \A x \in BOOLEAN :
              [w EXCEPT !.slot = x] \in W!SessionRecords
         /\ \A x \in {"none", "open", "left", "closed"} :
              [w EXCEPT !.client = x] \in W!SessionRecords
         /\ \A x \in {"none", "open", "ended", "broken", "closed"} :
              [w EXCEPT !.upstream = x] \in W!SessionRecords
         /\ \A x \in {"none", "copying", "done"} :
              [w EXCEPT !.toUpstream = x] \in W!SessionRecords
         /\ \A x \in {"none", "copying", "done"} :
              [w EXCEPT !.toClient = x] \in W!SessionRecords
         /\ \A x \in {"none", "usage", "estimate"} :
              [w EXCEPT !.cost = x] \in W!SessionRecords
<1>1. \A x \in {"start", "claimed", "checks", "reserved", "dial", "dialed", "relay", "settled", "end"} :
        [w EXCEPT !.pc = x] \in W!SessionRecords
  BY DEF W!SessionRecords
<1>2. \A x \in {"none", "processing", "rejected", "failed", "success"} :
        [w EXCEPT !.claim = x] \in W!SessionRecords
  BY DEF W!SessionRecords
<1>3. \A x \in {"none", "rejected", "failed", "success"} :
        [w EXCEPT !.usage = x] \in W!SessionRecords
  BY DEF W!SessionRecords
<1>4. \A x \in {"none", "held", "released", "settled", "refused"} :
        [w EXCEPT !.hold = x] \in W!SessionRecords
  BY DEF W!SessionRecords
<1>5. \A x \in SUBSET Accounts :
        [w EXCEPT !.failed = x] \in W!SessionRecords
  BY DEF W!SessionRecords
<1>6. \A x \in BOOLEAN :
        [w EXCEPT !.slot = x] \in W!SessionRecords
  BY DEF W!SessionRecords
<1>7. \A x \in {"none", "open", "left", "closed"} :
        [w EXCEPT !.client = x] \in W!SessionRecords
  BY DEF W!SessionRecords
<1>8. \A x \in {"none", "open", "ended", "broken", "closed"} :
        [w EXCEPT !.upstream = x] \in W!SessionRecords
  BY DEF W!SessionRecords
<1>9. \A x \in {"none", "copying", "done"} :
        [w EXCEPT !.toUpstream = x] \in W!SessionRecords
  BY DEF W!SessionRecords
<1>10. \A x \in {"none", "copying", "done"} :
        [w EXCEPT !.toClient = x] \in W!SessionRecords
  BY DEF W!SessionRecords
<1>11. \A x \in {"none", "usage", "estimate"} :
        [w EXCEPT !.cost = x] \in W!SessionRecords
  BY DEF W!SessionRecords
<1> QED
  BY <1>1, <1>2, <1>3, <1>4, <1>5, <1>6, <1>7, <1>8, <1>9, <1>10, <1>11

(* Admission: nothing is held, and what is refused is recorded as refused.    *)
LEMMA AdmissionKeeps ==
  ASSUME SessionInv, NEW s \in Sessions,
         W!TurnedAway(s) \/ W!Claim(s) \/ W!CheckBreaks(s) \/ W!Rejected(s) \/ W!Reserve(s)
           \/ W!CheckoutRefused(s) \/ W!SidecarCall(s)
  PROVE  SessionInv'
<1> DEFINE r == ses[s]
<1>0. r \in W!SessionRecords /\ RowOK(r)
  BY DEF SessionInv, W!TypeOK
<1>1. CASE W!TurnedAway(s)
  <2> DEFINE t == [r EXCEPT !.pc = "end", !.client = IF r.kind = "responses" THEN "closed" ELSE "none"]
  <2>1. r.pc = "start" /\ ses' = [ses EXCEPT ![s] = t] /\ active' = active
    BY <1>1 DEF W!TurnedAway, W!Update, W!At
  <2> HIDE DEF r
  <2>2. t \in W!SessionRecords /\ RowOK(t) /\ t.kind = r.kind /\ ~ r.slot /\ ~ t.slot
    <3>1. (IF r.kind = "responses" THEN "closed" ELSE "none") \in {"none", "open", "left", "closed"}
      OBVIOUS
    <3>2. t \in W!SessionRecords
      BY <1>0, <3>1, SessionPut, Zenon
    <3>3. t.kind = r.kind /\ ~ r.slot /\ ~ t.slot
      BY <1>0, <2>1 DEF W!SessionRecords, RowOK
    <3>4. RowOK(t)
      BY <1>0, <2>1 DEF W!SessionRecords, RowOK
    <3> QED BY <3>2, <3>3, <3>4
  <2> HIDE DEF t
  <2> QED BY <2>1, <2>2, SlotKept DEF r
<1>2. CASE W!Claim(s)
  <2>0. PICK p \in {"claimed", "reserved"}, c \in {"none", "open"} :
          /\ p = "claimed" => r.kind # "call"
          /\ ses' = [ses EXCEPT ![s] = [r EXCEPT !.pc = p, !.claim = "processing", !.client = c]]
    BY <1>2 DEF W!Claim, W!Update
  <2> DEFINE t == [r EXCEPT !.pc = p, !.claim = "processing", !.client = c]
  <2>1. r.pc = "start" /\ ses' = [ses EXCEPT ![s] = t] /\ active' = active
    BY <1>2, <2>0 DEF W!Claim, W!At
  <2> HIDE DEF r
  <2>a. r.pc = "start" /\ (p = "claimed" => r.kind # "call")
    BY <2>0, <2>1
  <2>2. t \in W!SessionRecords
    <3>1. /\ p \in {"start", "claimed", "checks", "reserved", "dial", "dialed", "relay", "settled", "end"}
          /\ c \in {"none", "open", "left", "closed"}
      OBVIOUS
    <3> QED BY <1>0, <3>1, SessionPut, Zenon
  <2>3. RowOK(t) /\ t.kind = r.kind /\ ~ r.slot /\ ~ t.slot
    BY <1>0, <2>a DEF W!SessionRecords, RowOK
  <2> HIDE DEF t
  <2> QED BY <2>1, <2>2, <2>3, SlotKept DEF r
<1>3. CASE W!CheckBreaks(s)
  <2> DEFINE t == [r EXCEPT !.pc = "end", !.client = W!Hangup(s)]
  <2>1. r.pc = "claimed" /\ ses' = [ses EXCEPT ![s] = t] /\ active' = active
    BY <1>3 DEF W!CheckBreaks, W!Update, W!At
  <2>a. W!Hangup(s) \in {"none", "closed"}
    BY DEF W!Hangup
  <2> HIDE DEF r
  <2>2. t \in W!SessionRecords /\ RowOK(t) /\ t.kind = r.kind /\ ~ r.slot /\ ~ t.slot
    <3>1. W!Hangup(s) \in {"none", "open", "left", "closed"}
      BY <2>a
    <3>2. t \in W!SessionRecords
      BY <1>0, <3>1, SessionPut, Zenon
    <3>3. t.kind = r.kind /\ ~ r.slot /\ ~ t.slot
      BY <1>0, <2>1, <2>a DEF W!SessionRecords, RowOK
    <3>4. RowOK(t)
      BY <1>0, <2>1, <2>a DEF W!SessionRecords, RowOK
    <3> QED BY <3>2, <3>3, <3>4
  <2> HIDE DEF t
  <2> QED BY <2>1, <2>2, SlotKept DEF r
<1>4. CASE W!Rejected(s)
  <2> DEFINE t == [r EXCEPT !.pc = "end", !.usage = "rejected", !.claim = "rejected", !.client = W!Hangup(s)]
  <2>1. r.pc = "claimed" /\ ses' = [ses EXCEPT ![s] = t] /\ active' = active
    BY <1>4 DEF W!Rejected, W!Update, W!At
  <2>a. W!Hangup(s) \in {"none", "closed"}
    BY DEF W!Hangup
  <2> HIDE DEF r
  <2>2. t \in W!SessionRecords /\ RowOK(t) /\ t.kind = r.kind /\ ~ r.slot /\ ~ t.slot
    <3>1. W!Hangup(s) \in {"none", "open", "left", "closed"}
      BY <2>a
    <3>2. t \in W!SessionRecords
      BY <1>0, <3>1, SessionPut, Zenon
    <3>3. t.kind = r.kind /\ ~ r.slot /\ ~ t.slot
      BY <1>0, <2>1, <2>a DEF W!SessionRecords, RowOK
    <3>4. RowOK(t)
      BY <1>0, <2>1, <2>a DEF W!SessionRecords, RowOK
    <3> QED BY <3>2, <3>3, <3>4
  <2> HIDE DEF t
  <2> QED BY <2>1, <2>2, SlotKept DEF r
<1>5. CASE W!Reserve(s)
  <2>0. PICK h \in {"none", "held"} : ses' = [ses EXCEPT ![s] = [r EXCEPT !.pc = "reserved", !.hold = h]]
    BY <1>5 DEF W!Reserve, W!Update
  <2> DEFINE t == [r EXCEPT !.pc = "reserved", !.hold = h]
  <2>1. r.pc = "claimed" /\ ses' = [ses EXCEPT ![s] = t] /\ active' = active
    BY <1>5, <2>0 DEF W!Reserve, W!At
  <2> HIDE DEF r
  <2>2. t \in W!SessionRecords /\ RowOK(t) /\ t.kind = r.kind /\ ~ r.slot /\ ~ t.slot
    <3>1. h \in {"none", "held", "released", "settled", "refused"}
      OBVIOUS
    <3>2. t \in W!SessionRecords
      BY <1>0, <3>1, SessionPut, Zenon
    <3>3. t.kind = r.kind /\ ~ r.slot /\ ~ t.slot
      BY <1>0, <2>1 DEF W!SessionRecords, RowOK
    <3>4. RowOK(t)
      BY <1>0, <2>1 DEF W!SessionRecords, RowOK
    <3> QED BY <3>2, <3>3, <3>4
  <2> HIDE DEF t
  <2> QED BY <2>1, <2>2, SlotKept DEF r
<1>6. CASE W!CheckoutRefused(s)
  <2>0. PICK h \in {"none", "released"}, c \in {"none", "closed"} :
          ses' = [ses EXCEPT ![s] = [r EXCEPT !.pc = "end", !.hold = h, !.usage = "rejected",
                                              !.claim = "rejected", !.client = c]]
    <3>1. W!Hangup(s) \in {"none", "closed"} /\ W!Released(s) \in {"none", "released"}
      BY <1>0, <1>6 DEF W!CheckoutRefused, W!At, W!Hangup, W!Released, RowOK
    <3> QED BY <1>6, <3>1 DEF W!CheckoutRefused, W!Update
  <2> DEFINE t == [r EXCEPT !.pc = "end", !.hold = h, !.usage = "rejected",
                            !.claim = "rejected", !.client = c]
  <2>1. r.pc = "reserved" /\ r.kind # "call" /\ ses' = [ses EXCEPT ![s] = t] /\ active' = active
    BY <1>6, <2>0 DEF W!CheckoutRefused, W!At
  <2> HIDE DEF r
  <2>a. r.pc = "reserved" /\ r.kind # "call"
    BY <2>1
  <2>2. t \in W!SessionRecords
    <3>1. h \in {"none", "held", "released", "settled", "refused"} /\ c \in {"none", "open", "left", "closed"}
      OBVIOUS
    <3> QED BY <1>0, <3>1, SessionPut, Zenon
  <2>3. RowOK(t) /\ t.kind = r.kind /\ ~ r.slot /\ ~ t.slot
    BY <1>0, <2>a DEF W!SessionRecords, RowOK
  <2> HIDE DEF t
  <2> QED BY <2>1, <2>2, <2>3, SlotKept DEF r
<1>7. CASE W!SidecarCall(s)
  <2>0. PICK x \in {"success", "failed"} :
          ses' = [ses EXCEPT ![s] = [r EXCEPT !.pc = "end", !.usage = x, !.claim = x]]
    BY <1>7 DEF W!SidecarCall, W!Update
  <2> DEFINE t == [r EXCEPT !.pc = "end", !.usage = x, !.claim = x]
  <2>1. r.pc = "reserved" /\ r.kind = "call" /\ ses' = [ses EXCEPT ![s] = t] /\ active' = active
    BY <1>7, <2>0 DEF W!SidecarCall, W!At
  <2> HIDE DEF r
  <2>2. t \in W!SessionRecords /\ RowOK(t) /\ t.kind = r.kind /\ ~ r.slot /\ ~ t.slot
    <3>1. x \in {"none", "rejected", "failed", "success"} /\ x \in {"none", "processing", "rejected", "failed", "success"}
      OBVIOUS
    <3>2. t \in W!SessionRecords
      BY <1>0, <3>1, SessionPut, Zenon
    <3>3. t.kind = r.kind /\ ~ r.slot /\ ~ t.slot
      BY <1>0, <2>1 DEF W!SessionRecords, RowOK
    <3>4. RowOK(t)
      BY <1>0, <2>1 DEF W!SessionRecords, RowOK
    <3> QED BY <3>2, <3>3, <3>4
  <2> HIDE DEF t
  <2> QED BY <2>1, <2>2, SlotKept DEF r
<1> QED BY <1>1, <1>2, <1>3, <1>4, <1>5, <1>6, <1>7

(* The record of a session that fails, wherever it stands between its         *)
(* checkout and its first frame: it has no slot and what it held is released. *)
LEMMA FailedRow ==
  ASSUME SessionInv, NEW s \in Sessions, ses[s].pc \in {"dial", "checks", "dialed"}, ses[s].kind # "call"
  PROVE  /\ W!Failed(s) \in W!SessionRecords /\ RowOK(W!Failed(s))
         /\ W!Failed(s).kind = ses[s].kind /\ ~ W!Failed(s).slot
         /\ [W!Failed(s) EXCEPT !.upstream = "closed"] \in W!SessionRecords
         /\ RowOK([W!Failed(s) EXCEPT !.upstream = "closed"])
         /\ [W!Failed(s) EXCEPT !.upstream = "closed"].kind = ses[s].kind
         /\ ~ [W!Failed(s) EXCEPT !.upstream = "closed"].slot
<1> DEFINE r == ses[s]
<1>0. r \in W!SessionRecords /\ RowOK(r) /\ r.pc \in {"dial", "checks", "dialed"} /\ r.kind # "call"
  BY DEF SessionInv, W!TypeOK
<1>1. PICK h \in {"none", "released"}, c \in {"none", "closed"} :
        W!Failed(s) = [r EXCEPT !.pc = "end", !.hold = h, !.usage = "failed", !.claim = "failed",
                                !.slot = FALSE, !.client = c]
  <2>1. W!Hangup(s) \in {"none", "closed"} /\ W!Released(s) \in {"none", "released"}
    BY <1>0 DEF W!Hangup, W!Released, RowOK
  <2> QED BY <2>1 DEF W!Failed
<1> DEFINE t == [r EXCEPT !.pc = "end", !.hold = h, !.usage = "failed", !.claim = "failed",
                          !.slot = FALSE, !.client = c]
           u == [t EXCEPT !.upstream = "closed"]
<1>2. W!Failed(s) = t /\ h \in {"none", "released"} /\ c \in {"none", "closed"}
  BY <1>1
<1> HIDE DEF r
<1>3. t \in W!SessionRecords /\ t.kind = r.kind /\ ~ t.slot
  <2>1. r \in W!SessionRecords /\ h \in {"none", "released"} /\ c \in {"none", "closed"}
    BY <1>0, <1>2
  <2>2. t \in W!SessionRecords
    <3>1. h \in {"none", "held", "released", "settled", "refused"} /\ c \in {"none", "open", "left", "closed"}
      BY <2>1
    <3> QED BY <2>1, <3>1, SessionPut, Zenon
  <2>3. t.kind = r.kind /\ t.slot = FALSE
    BY <2>1 DEF W!SessionRecords
  <2> QED BY <2>2, <2>3
<1>4. RowOK(t)
  BY <1>0 DEF W!SessionRecords, RowOK
<1> HIDE DEF t
<1>5. u \in W!SessionRecords /\ u.kind = r.kind /\ ~ u.slot
  BY <1>3 DEF W!SessionRecords
<1>6. RowOK(u)
  BY <1>3, <1>4 DEF W!SessionRecords, RowOK
<1> HIDE DEF u
<1>7. u = [W!Failed(s) EXCEPT !.upstream = "closed"]
  BY <1>2 DEF u
<1> QED BY <1>2, <1>3, <1>4, <1>5, <1>6, <1>7 DEF r

(* A checkout takes a slot of a free account, the first time and after every  *)
(* attempt that failed.                                                       *)
LEMMA CheckoutKeeps ==
  ASSUME SessionInv, NEW s \in Sessions, NEW a \in Accounts,
         W!Checkout(s, a) \/ W!NextAccount(s, a)
  PROVE  SessionInv'
<1> DEFINE r == ses[s]
           t == [r EXCEPT !.pc = "dial", !.route = a, !.slot = TRUE]
<1>0. r \in W!SessionRecords /\ RowOK(r)
  BY DEF SessionInv, W!TypeOK
<1>1. /\ r.pc \in {"reserved", "checks"} /\ r.kind # "call" /\ active[a] < MaxConcurrency
      /\ ses' = [ses EXCEPT ![s] = t] /\ active' = [active EXCEPT ![a] = @ + 1]
  BY <1>0 DEF W!Checkout, W!NextAccount, W!Update, W!At, RowOK
<1> HIDE DEF r
<1>2. t \in W!SessionRecords /\ t.kind = r.kind /\ ~ r.slot /\ t.slot /\ t.route = a
  BY <1>0, <1>1 DEF W!SessionRecords, RowOK
<1>3. RowOK(t)
  BY <1>0, <1>1 DEF W!SessionRecords, RowOK
<1> HIDE DEF t
<1> QED BY <1>1, <1>2, <1>3, SlotTaken DEF r

(* Dialing: every attempt that fails gives its slot back.                     *)
LEMMA DialedKeeps ==
  ASSUME SessionInv, NEW s \in Sessions,
         W!Connect(s) \/ W!DialFails(s) \/ W!DialAgain(s) \/ W!NoNextAccount(s) \/ W!NoSession(s)
  PROVE  SessionInv'
<1> DEFINE r == ses[s]
<1>0. r \in W!SessionRecords /\ RowOK(r)
  BY DEF SessionInv, W!TypeOK
<1>2. CASE W!Connect(s)
  <2> DEFINE t == [r EXCEPT !.pc = "dialed", !.upstream = "open"]
  <2>1. r.pc = "dial" /\ ses' = [ses EXCEPT ![s] = t] /\ active' = active
    BY <1>2 DEF W!Connect, W!Update, W!At
  <2> HIDE DEF r
  <2>2. /\ t \in W!SessionRecords /\ RowOK(t) /\ t.kind = r.kind /\ r.slot /\ t.slot /\ t.route = r.route
    <3>1. t \in W!SessionRecords
      BY <1>0, SessionPut, Zenon
    <3>2. t.kind = r.kind /\ r.slot /\ t.slot /\ t.route = r.route
      BY <1>0, <2>1 DEF W!SessionRecords, RowOK
    <3>3. RowOK(t)
      BY <1>0, <2>1 DEF W!SessionRecords, RowOK
    <3> QED BY <3>1, <3>2, <3>3
  <2> HIDE DEF t
  <2> QED BY <2>1, <2>2, SlotKept DEF r
<1>3. CASE W!DialFails(s)
  <2>1. /\ r.pc = "dial" /\ r.slot /\ r.kind # "call"
        /\ ses' = [ses EXCEPT ![s] = W!Failed(s)] /\ W!SlotBack(s)
    BY <1>0, <1>3 DEF W!DialFails, W!Update, W!At, RowOK
  <2> QED BY <2>1, FailedRow, SlotGiven
<1>4. CASE W!DialAgain(s)
  <2> DEFINE t == [r EXCEPT !.pc = "checks", !.failed = r.failed \cup {r.route}, !.slot = FALSE]
  <2>1. r.pc = "dial" /\ ses' = [ses EXCEPT ![s] = t] /\ W!SlotBack(s)
    BY <1>4 DEF W!DialAgain, W!Update, W!At
  <2> HIDE DEF r
  <2>2. r.slot /\ r.route \in Accounts
    BY <1>0, <2>1 DEF RowOK
  <2>3. t \in W!SessionRecords /\ RowOK(t) /\ t.kind = r.kind /\ ~ t.slot
    <3>1. r.failed \cup {r.route} \in SUBSET Accounts /\ FALSE \in BOOLEAN
      BY <1>0, <2>2 DEF W!SessionRecords
    <3>2. t \in W!SessionRecords
      BY <1>0, <3>1, SessionPut, Zenon
    <3>3. t.kind = r.kind /\ ~ t.slot
      BY <1>0, <2>1, <2>2 DEF W!SessionRecords, RowOK
    <3>4. RowOK(t)
      BY <1>0, <2>1, <2>2 DEF W!SessionRecords, RowOK
    <3> QED BY <3>2, <3>3, <3>4
  <2> HIDE DEF t
  <2> QED BY <2>1, <2>2, <2>3, SlotGiven DEF r
<1>5. CASE W!NoNextAccount(s)
  <2>1. /\ r.pc = "checks" /\ ~ r.slot /\ r.kind # "call"
        /\ ses' = [ses EXCEPT ![s] = W!Failed(s)] /\ active' = active
    BY <1>0, <1>5 DEF W!NoNextAccount, W!Update, W!At, RowOK
  <2> QED BY <2>1, FailedRow, SlotKept
<1>6. CASE W!NoSession(s)
  <2>1. /\ r.pc = "dialed" /\ r.slot /\ r.kind # "call"
        /\ ses' = [ses EXCEPT ![s] = [W!Failed(s) EXCEPT !.upstream = "closed"]] /\ W!SlotBack(s)
    BY <1>0, <1>6 DEF W!NoSession, W!Update, W!At, RowOK
  <2> QED BY <2>1, FailedRow, SlotGiven
<1> QED BY <1>2, <1>3, <1>4, <1>5, <1>6

(* The session: the goroutines and the peers change neither slots nor what is *)
(* held; the settlement comes when both goroutines are done.                  *)
LEMMA SessionKeeps ==
  ASSUME SessionInv, NEW s \in Sessions,
         W!StartCopying(s) \/ W!Settle(s) \/ W!Finish(s) \/ W!Copiers(s) \/ W!Peers(s)
  PROVE  SessionInv'
<1> DEFINE r == ses[s]
<1>0. r \in W!SessionRecords /\ RowOK(r)
  BY DEF SessionInv, W!TypeOK
<1>1. CASE W!StartCopying(s)
  <2> DEFINE t == [r EXCEPT !.pc = "relay", !.client = "open", !.toUpstream = "copying",
                            !.toClient = "copying"]
  <2>1. /\ r.pc = "dialed" /\ ses' = [ses EXCEPT ![s] = t]
        /\ IF r.kind = "responses" THEN W!SlotBack(s) ELSE active' = active
    BY <1>1 DEF W!StartCopying, W!Update, W!At
  <2> HIDE DEF r
  <2>2. t \in W!SessionRecords /\ RowOK(t) /\ t.kind = r.kind /\ r.slot /\ t.slot /\ t.route = r.route
    <3>1. t \in W!SessionRecords
      BY <1>0, SessionPut, Zenon
    <3>2. t.kind = r.kind /\ r.slot /\ t.slot /\ t.route = r.route
      BY <1>0, <2>1 DEF W!SessionRecords, RowOK
    <3>3. RowOK(t)
      BY <1>0, <2>1 DEF W!SessionRecords, RowOK
    <3> QED BY <3>1, <3>2, <3>3
  <2> HIDE DEF t
  <2>3. CASE r.kind = "responses"
    BY <2>1, <2>2, <2>3, SlotGivenEarly DEF r
  <2>4. CASE r.kind # "responses"
    BY <2>1, <2>2, <2>4, SlotKept DEF r
  <2> QED BY <2>3, <2>4
<1>2. CASE W!Settle(s)
  <2>0. PICK h \in {"none", "settled", "refused"}, c \in {"none", "usage", "estimate"} :
          /\ r.relayed => c # "estimate"
          /\ r.kind = "call" => h = "none"
          /\ ses' = [ses EXCEPT ![s] = [r EXCEPT !.pc = "settled", !.hold = h, !.cost = c]]
    <3>1. PICK h \in IF r.hold = "held" THEN {"settled", "refused"} ELSE {r.hold} :
            W!Update(s, [r EXCEPT
                    !.pc = "settled", !.hold = h,
                    !.cost = IF r.kind = "sidecar" THEN "none"
                             ELSE IF r.relayed THEN "usage" ELSE "estimate"])
      BY <1>2, Zenon DEF W!Settle
    <3>2. h \in {"none", "settled", "refused"} /\ (r.kind = "call" => h = "none")
      BY <1>0, <1>2, <3>1, Zenon DEF W!Settle, W!At, RowOK
    <3> DEFINE c == IF r.kind = "sidecar" THEN "none" ELSE IF r.relayed THEN "usage" ELSE "estimate"
    <3>3. c \in {"none", "usage", "estimate"} /\ (r.relayed => c # "estimate")
      OBVIOUS
    <3>4. ses' = [ses EXCEPT ![s] = [r EXCEPT !.pc = "settled", !.hold = h, !.cost = c]]
      BY <3>1 DEF W!Update
    <3> HIDE DEF c
    <3> QED BY <3>2, <3>3, <3>4
  <2> DEFINE t == [r EXCEPT !.pc = "settled", !.hold = h, !.cost = c]
  <2>1. /\ r.pc = "relay" /\ r.toClient = "done" /\ r.toUpstream = "done"
        /\ ses' = [ses EXCEPT ![s] = t] /\ active' = active
    BY <1>2, <2>0, Zenon DEF W!Settle, W!At, W!BothDone
  <2> HIDE DEF r
  <2>2. t \in W!SessionRecords /\ t.kind = r.kind /\ r.slot /\ t.slot /\ t.route = r.route
    <3>1. h \in {"none", "held", "released", "settled", "refused"} /\ c \in {"none", "usage", "estimate"}
      OBVIOUS
    <3>2. t \in W!SessionRecords
      BY <1>0, <3>1, SessionPut, Zenon
    <3>3. t.kind = r.kind /\ r.slot /\ t.slot /\ t.route = r.route
      BY <1>0, <2>1 DEF W!SessionRecords, RowOK
    <3> QED BY <3>2, <3>3
  <2>3. RowOK(t)
    BY <1>0, <2>0, <2>1 DEF W!SessionRecords, RowOK
  <2> HIDE DEF t
  <2> QED BY <2>1, <2>2, <2>3, SlotKept DEF r
<1>3. CASE W!Finish(s)
  <2> DEFINE t == [r EXCEPT !.pc = "end", !.slot = FALSE, !.usage = "success", !.claim = "success"]
  <2>1. r.pc = "settled" /\ ses' = [ses EXCEPT ![s] = t] /\ W!SlotBack(s)
    BY <1>3 DEF W!Finish, W!Update, W!At
  <2> HIDE DEF r
  <2>2. t \in W!SessionRecords /\ t.kind = r.kind /\ r.slot /\ ~ t.slot
    <3>1. t \in W!SessionRecords
      BY <1>0, SessionPut, Zenon
    <3>2. r.slot
      BY <1>0, <2>1 DEF RowOK
    <3>3. t.kind = r.kind /\ ~ t.slot
      BY <1>0 DEF W!SessionRecords
    <3> QED BY <3>1, <3>2, <3>3
  <2>3. RowOK(t)
    BY <1>0, <2>1 DEF W!SessionRecords, RowOK
  <2> HIDE DEF t
  <2> QED BY <2>1, <2>2, <2>3, SlotGiven DEF r
<1>4. ASSUME NEW c \in {"left", "open", "closed", "none"}, r.pc = "relay",
             ses' = [ses EXCEPT ![s] = [r EXCEPT !.client = c]], active' = active
      PROVE  SessionInv'
  <2> DEFINE t == [r EXCEPT !.client = c]
  <2>1. ses' = [ses EXCEPT ![s] = t]
    BY <1>4
  <2> HIDE DEF r
  <2>2. t \in W!SessionRecords /\ RowOK(t) /\ t.kind = r.kind /\ t.slot = r.slot /\ t.route = r.route
    BY <1>0, <1>4 DEF W!SessionRecords, RowOK
  <2> HIDE DEF t
  <2> QED BY <1>4, <2>1, <2>2, SlotKept DEF r
<1>5. CASE W!ClientLeaves(s)
  BY <1>4, <1>5 DEF W!ClientLeaves, W!Update, W!At
<1>6. CASE W!UpstreamEnds(s)
  <2>0. PICK how \in {"ended", "broken"} : ses' = [ses EXCEPT ![s] = [r EXCEPT !.upstream = how]]
    BY <1>6 DEF W!UpstreamEnds, W!Update
  <2> DEFINE t == [r EXCEPT !.upstream = how]
  <2>1. r.pc = "relay" /\ ses' = [ses EXCEPT ![s] = t] /\ active' = active
    BY <1>6, <2>0 DEF W!UpstreamEnds, W!At
  <2> HIDE DEF r
  <2>2. t \in W!SessionRecords /\ RowOK(t) /\ t.kind = r.kind /\ t.slot = r.slot /\ t.route = r.route
    <3>1. t \in W!SessionRecords
      BY <1>0, SessionPut, Zenon
    <3>2. t.kind = r.kind /\ t.slot = r.slot /\ t.route = r.route
      BY <1>0 DEF W!SessionRecords
    <3>3. RowOK(t)
      BY <1>0, <2>1 DEF W!SessionRecords, RowOK
    <3> QED BY <3>1, <3>2, <3>3
  <2> HIDE DEF t
  <2> QED BY <2>1, <2>2, SlotKept DEF r
<1>7. CASE W!RelayUsage(s)
  <2> DEFINE t == [r EXCEPT !.relayed = TRUE]
  <2>1. r.toClient = "copying" /\ ses' = [ses EXCEPT ![s] = t] /\ active' = active
    BY <1>7 DEF W!RelayUsage, W!Update
  <2> HIDE DEF r
  <2>2. t \in W!SessionRecords /\ RowOK(t) /\ t.kind = r.kind /\ t.slot = r.slot /\ t.route = r.route
    <3>1. t \in W!SessionRecords
      BY <1>0 DEF W!SessionRecords
    <3>2. t.kind = r.kind /\ t.slot = r.slot /\ t.route = r.route
      BY <1>0 DEF W!SessionRecords
    <3>3. RowOK(t)
      BY <1>0, <2>1 DEF W!SessionRecords, RowOK
    <3> QED BY <3>1, <3>2, <3>3
  <2> HIDE DEF t
  <2> QED BY <2>1, <2>2, SlotKept DEF r
<1>8. CASE W!ClientReadFails(s) \/ W!UpstreamWriteFails(s)
  <2> DEFINE t == [r EXCEPT !.toUpstream = "done", !.upstream = "closed"]
  <2>1. r.toUpstream = "copying" /\ ses' = [ses EXCEPT ![s] = t] /\ active' = active
    BY <1>8 DEF W!ClientReadFails, W!UpstreamWriteFails, W!EndToUpstream, W!Update
  <2> HIDE DEF r
  <2>2. t \in W!SessionRecords /\ RowOK(t) /\ t.kind = r.kind /\ t.slot = r.slot /\ t.route = r.route
    <3>1. t \in W!SessionRecords
      BY <1>0, SessionPut, Zenon
    <3>2. t.kind = r.kind /\ t.slot = r.slot /\ t.route = r.route
      BY <1>0 DEF W!SessionRecords
    <3>3. RowOK(t)
      BY <1>0, <2>1 DEF W!SessionRecords, RowOK
    <3> QED BY <3>1, <3>2, <3>3
  <2> HIDE DEF t
  <2> QED BY <2>1, <2>2, SlotKept DEF r
<1>9. CASE W!UpstreamReadFails(s)
  <2> DEFINE t == [r EXCEPT !.toClient = "done", !.client = "closed"]
  <2>1. r.toClient = "copying" /\ ses' = [ses EXCEPT ![s] = t] /\ active' = active
    BY <1>9 DEF W!UpstreamReadFails, W!EndToClient, W!Update
  <2> HIDE DEF r
  <2>2. t \in W!SessionRecords /\ RowOK(t) /\ t.kind = r.kind /\ t.slot = r.slot /\ t.route = r.route
    <3>1. t \in W!SessionRecords
      BY <1>0, SessionPut, Zenon
    <3>2. t.kind = r.kind /\ t.slot = r.slot /\ t.route = r.route
      BY <1>0 DEF W!SessionRecords
    <3>3. RowOK(t)
      BY <1>0, <2>1 DEF W!SessionRecords, RowOK
    <3> QED BY <3>1, <3>2, <3>3
  <2> HIDE DEF t
  <2> QED BY <2>1, <2>2, SlotKept DEF r
<1>10. CASE W!ClientWriteFails(s)
  <2>0. PICK seen \in BOOLEAN :
          ses' = [ses EXCEPT ![s] = [W!EndToClient(s) EXCEPT !.relayed = seen]]
    BY <1>0, <1>10 DEF W!ClientWriteFails, W!Update, W!SessionRecords
  <2> DEFINE t == [W!EndToClient(s) EXCEPT !.relayed = seen]
  <2>1. r.toClient = "copying" /\ ses' = [ses EXCEPT ![s] = t] /\ active' = active
    BY <1>10, <2>0 DEF W!ClientWriteFails
  <2>2. t = [[r EXCEPT !.toClient = "done", !.client = "closed"] EXCEPT !.relayed = seen]
    BY DEF W!EndToClient
  <2> HIDE DEF r, t
  <2>3. t \in W!SessionRecords /\ t.kind = r.kind /\ t.slot = r.slot /\ t.route = r.route
    <3> DEFINE q == [r EXCEPT !.toClient = "done", !.client = "closed"]
    <3>1. q \in W!SessionRecords
      BY <1>0, SessionPut, Zenon
    <3>2. q.kind = r.kind /\ q.slot = r.slot /\ q.route = r.route
      BY <1>0 DEF W!SessionRecords
    <3> HIDE DEF q
    <3>3. t = [q EXCEPT !.relayed = seen]
      BY <2>2 DEF q
    <3>4. t \in W!SessionRecords
      BY <3>1, <3>3 DEF W!SessionRecords
    <3>5. t.kind = q.kind /\ t.slot = q.slot /\ t.route = q.route
      BY <3>1, <3>3 DEF W!SessionRecords
    <3> QED BY <3>2, <3>4, <3>5
  <2>4. RowOK(t)
    BY <1>0, <2>1, <2>2 DEF W!SessionRecords, RowOK
  <2> QED BY <2>1, <2>3, <2>4, SlotKept DEF r
<1> QED BY <1>1, <1>2, <1>3, <1>5, <1>6, <1>7, <1>8, <1>9, <1>10 DEF W!Copiers, W!Peers

(* Every step keeps what is true of the sessions.                             *)
LEMMA SessionNext == SessionInv /\ W!Next => SessionInv'
<1> SUFFICES ASSUME SessionInv, W!Next PROVE SessionInv'
  OBVIOUS
<1>1. PICK s \in Sessions : W!Handler(s) \/ W!Copiers(s) \/ W!Peers(s)
  BY DEF W!Next
<1>2. CASE W!TurnedAway(s) \/ W!Claim(s) \/ W!CheckBreaks(s) \/ W!Rejected(s) \/ W!Reserve(s)
             \/ W!CheckoutRefused(s) \/ W!SidecarCall(s)
  BY <1>2, AdmissionKeeps
<1>3. CASE W!Connect(s) \/ W!DialFails(s) \/ W!DialAgain(s) \/ W!NoNextAccount(s) \/ W!NoSession(s)
  BY <1>3, DialedKeeps
<1>4. CASE \E a \in Accounts : W!Checkout(s, a) \/ W!NextAccount(s, a)
  BY <1>4, CheckoutKeeps
<1>5. CASE W!StartCopying(s) \/ W!Settle(s) \/ W!Finish(s) \/ W!Copiers(s) \/ W!Peers(s)
  BY <1>5, SessionKeeps
<1> QED BY <1>1, <1>2, <1>3, <1>4, <1>5 DEF W!Handler

(* A step of another part, or none, leaves the sessions as they are.          *)
LEMMA SessionStays == SessionInv /\ UNCHANGED sessionVars => SessionInv'
<1> SUFFICES ASSUME SessionInv, UNCHANGED sessionVars PROVE SessionInv'
  OBVIOUS
<1>1. ses' = ses /\ active' = active
  BY DEF sessionVars
<1>2. \A a : W!Holders(a)' = W!Holders(a)
  BY <1>1 DEF W!Holders
<1> QED BY <1>1, <1>2 DEF SessionInv, W!TypeOK, RowOK, W!SlotsReturned

(* The invariant says how sessions end.                                       *)
LEMMA SessionInvSettles ==
  SessionInv => W!SlotsReturned /\ W!EndedIsClosed /\ W!RelayedUsageIsCharged
BY DEF SessionInv, RowOK, W!EndedIsClosed, W!RelayedUsageIsCharged, W!At

-----------------------------------------------------------------------------
(* The settings                                                               *)

Rows == [digest : BOOLEAN, items : Int,
         rule : [header : BOOLEAN, fields : BOOLEAN, model : BOOLEAN]]

SettingTypes ==
  /\ saved \in Seq(Rows) /\ when \in Seq(Nat) /\ Len(when) = Len(saved)
  /\ clock \in Nat
  /\ cache \in [Nodes -> [version : 0 .. Len(saved), until : Nat]]
  /\ lookup \in [Lookups -> [stage : {"idle", "asking", "read", "told"}, node : Nodes, at : Nat,
                             version : 0 .. Len(saved), sure : BOOLEAN]]
  /\ save \in [Administrators -> [stage : {"idle", "saved"}, node : Nodes, version : 0 .. Len(saved)]]

(* Settings saved after v whose save did not overlap another one.             *)
After(v) == (v + 1 .. Len(saved)) \ racing

(* No save and no look is in the future, and no copy lives longer than a      *)
(* lifetime from now.                                                         *)
NotAhead ==
  /\ \A v \in 1 .. Len(when) : when[v] <= clock
  /\ \A r \in Lookups : lookup[r].at <= clock
  /\ \A n \in Nodes : cache[n].until <= clock + Lifetime

(* While a save is not done, everything saved after it overlaps it.           *)
SavesOverlap ==
  \A a \in Administrators : save[a].stage = "saved" => After(save[a].version) = {}

(* A copy does not outlive by more than a lifetime what replaced it, ...      *)
CopiesExpire ==
  \A n \in Nodes : \A v \in After(cache[n].version) : cache[n].until <= when[v] + Lifetime

(* ... nor does what a request has read, or was told.                         *)
RequestsKnow ==
  \A r \in Lookups : \A v \in After(lookup[r].version) :
    /\ lookup[r].stage = "read" => when[v] >= lookup[r].at
    /\ lookup[r].stage = "told" /\ lookup[r].sure => when[v] + Lifetime >= lookup[r].at

(* A key given is a key of its turn under the settings it was given by.       *)
KeysFollow ==
  \A k \in keys : /\ k.turn \in Utterances /\ k.version \in 0 .. Len(saved)
                  /\ k.key \in S!Keys(S!SettingsOf(k.version), k.turn)

SettingInv == SettingTypes /\ NotAhead /\ SavesOverlap /\ CopiesExpire /\ RequestsKnow /\ KeysFollow

(* An idle request or administrator comes from no node in particular.         *)
LEMMA SomeNode == (CHOOSE n \in Nodes : TRUE) \in Nodes
BY SettingAssumption

(* Nothing is saved, copied or asked for at first.                            *)
LEMMA SettingInit == S!Init => SettingInv
<1> SUFFICES ASSUME S!Init PROVE SettingInv
  OBVIOUS
<1>1. /\ saved = <<>> /\ when = <<>> /\ Len(saved) = 0 /\ Len(when) = 0 /\ clock = 0 /\ keys = {}
      /\ saved \in Seq(Rows) /\ when \in Seq(Nat)
  BY DEF S!Init
<1>2. /\ cache \in [Nodes -> [version : 0 .. Len(saved), until : Nat]]
      /\ \A n \in Nodes : cache[n].until = 0 /\ cache[n].version = 0
  BY <1>1 DEF S!Init
<1>3. /\ lookup \in [Lookups -> [stage : {"idle", "asking", "read", "told"}, node : Nodes, at : Nat,
                                 version : 0 .. Len(saved), sure : BOOLEAN]]
      /\ \A r \in Lookups : lookup[r].at = 0 /\ lookup[r].stage = "idle"
  BY <1>1, SomeNode DEF S!Init, S!Idle
<1>4. /\ save \in [Administrators -> [stage : {"idle", "saved"}, node : Nodes, version : 0 .. Len(saved)]]
      /\ \A a \in Administrators : save[a].stage = "idle"
  BY <1>1, SomeNode DEF S!Init, S!NoSave
<1>5. SettingTypes
  BY <1>1, <1>2, <1>3, <1>4 DEF SettingTypes
<1>6. NotAhead
  BY <1>1, <1>2, <1>3, SettingAssumption DEF NotAhead
<1>7. SavesOverlap /\ RequestsKnow /\ KeysFollow
  BY <1>1, <1>3, <1>4 DEF SavesOverlap, RequestsKnow, KeysFollow
<1>8. CopiesExpire
  <2>1. \A n \in Nodes : After(cache[n].version) = {}
    BY <1>1, <1>2 DEF After
  <2> QED BY <2>1 DEF CopiesExpire
<1> QED BY <1>5, <1>6, <1>7, <1>8 DEF SettingInv

(* What is saved is normalized.                                               *)
LEMMA NormalizedRow == \A s \in Drafts : S!Normalized(s) \in Rows
BY SettingAssumption DEF S!Normalized, S!Within, Rows

(* What a save does to the row's history.                                     *)
LEMMA PutAppends ==
  ASSUME SettingInv, NEW a \in Administrators, NEW n \in Nodes, NEW s \in Drafts, S!Put(a, n, s),
         NEW new, new = Len(saved) + 1
  PROVE  /\ saved' \in Seq(Rows) /\ Len(saved') = new
         /\ \A v \in 1 .. Len(saved) : saved'[v] = saved[v]
         /\ when' \in Seq(Nat) /\ Len(when') = new /\ when'[new] = clock
         /\ \A v \in 1 .. Len(saved) : when'[v] = when[v]
         /\ \A x \in 0 .. Len(saved) : \A v \in (x + 1 .. Len(saved')) \ racing' :
              \/ v \in After(x) /\ when'[v] = when[v] /\ v \in 1 .. Len(saved)
              \/ v = new /\ when'[v] = clock
<1> DEFINE row == S!Normalized(s)
<1>1. /\ saved' = Append(saved, row) /\ when' = Append(when, clock)
      /\ racing' = IF \E b \in Administrators : save[b].stage = "saved" THEN racing \cup {new} ELSE racing
  BY DEF S!Put, S!Newest
<1>2. row \in Rows /\ saved \in Seq(Rows) /\ when \in Seq(Nat) /\ clock \in Nat
      /\ Len(when) = Len(saved) /\ Len(saved) \in Nat
  BY NormalizedRow DEF SettingInv, SettingTypes
<1> HIDE DEF row
<1>3. /\ saved' \in Seq(Rows) /\ Len(saved') = new
      /\ \A v \in 1 .. Len(saved) : saved'[v] = saved[v]
  BY <1>1, <1>2
<1>4. /\ when' \in Seq(Nat) /\ Len(when') = new /\ when'[new] = clock
      /\ \A v \in 1 .. Len(saved) : when'[v] = when[v]
  BY <1>1, <1>2
<1>5. ASSUME NEW x \in 0 .. Len(saved), NEW v \in (x + 1 .. Len(saved')) \ racing'
      PROVE  \/ v \in After(x) /\ when'[v] = when[v] /\ v \in 1 .. Len(saved)
             \/ v = new /\ when'[v] = clock
  <2>1. v \in x + 1 .. new /\ v \notin racing
    BY <1>1, <1>3
  <2>2. CASE v = new
    BY <1>4, <2>2
  <2>3. CASE v # new
    <3>1. v \in x + 1 .. Len(saved) /\ v \in 1 .. Len(saved)
      BY <1>2, <2>1, <2>3
    <3> QED BY <1>4, <2>1, <3>1 DEF After
  <2> QED BY <2>2, <2>3
<1> QED BY <1>3, <1>4, <1>5

(* A save: what it replaces is overlapped by it while an earlier save is not  *)
(* done, and otherwise replaced now.                                          *)
LEMMA PutKeeps ==
  ASSUME SettingInv, NEW a \in Administrators, NEW n \in Nodes, NEW s \in Drafts, S!Put(a, n, s)
  PROVE  SettingInv'
<1> USE SettingAssumption
<1>n. PICK new : new = Len(saved) + 1
  OBVIOUS
<1>0. SettingTypes /\ NotAhead /\ SavesOverlap /\ CopiesExpire /\ RequestsKnow /\ KeysFollow
  BY DEF SettingInv
<1>1. /\ racing' = IF \E b \in Administrators : save[b].stage = "saved" THEN racing \cup {new} ELSE racing
      /\ save' = [save EXCEPT ![a] = [stage |-> "saved", node |-> n, version |-> new]]
      /\ clock' = clock /\ cache' = cache /\ lookup' = lookup /\ keys' = keys
  BY <1>n DEF S!Put, S!Newest
<1>2. Len(saved) \in Nat /\ clock \in Nat /\ Len(when) = Len(saved) /\ new \in Nat
  BY <1>0, <1>n DEF SettingTypes
<1>3. /\ saved' \in Seq(Rows) /\ Len(saved') = new
      /\ \A v \in 1 .. Len(saved) : saved'[v] = saved[v]
      /\ when' \in Seq(Nat) /\ Len(when') = new /\ when'[new] = clock
      /\ \A v \in 1 .. Len(saved) : when'[v] = when[v]
      /\ \A x \in 0 .. Len(saved) : \A v \in (x + 1 .. Len(saved')) \ racing' :
           \/ v \in After(x) /\ when'[v] = when[v] /\ v \in 1 .. Len(saved)
           \/ v = new /\ when'[v] = clock
  BY <1>n, PutAppends
<1>4. 0 .. Len(saved) \subseteq 0 .. Len(saved') /\ new \in 0 .. Len(saved')
  BY <1>n, <1>2, <1>3
<1>5. SettingTypes'
  <2>2. cache' \in [Nodes -> [version : 0 .. Len(saved'), until : Nat]]
    BY <1>0, <1>1, <1>4 DEF SettingTypes
  <2>3. lookup' \in [Lookups -> [stage : {"idle", "asking", "read", "told"}, node : Nodes, at : Nat,
                                 version : 0 .. Len(saved'), sure : BOOLEAN]]
    BY <1>0, <1>1, <1>4 DEF SettingTypes
  <2>4. save' \in [Administrators -> [stage : {"idle", "saved"}, node : Nodes, version : 0 .. Len(saved')]]
    BY <1>0, <1>1, <1>4 DEF SettingTypes
  <2> QED BY <1>1, <1>2, <1>3, <2>2, <2>3, <2>4 DEF SettingTypes
<1>6. NotAhead'
  <2>1. ASSUME NEW v \in 1 .. Len(when') PROVE when'[v] <= clock'
    <3>1. CASE v = new
      BY <1>1, <1>2, <1>3, <3>1
    <3>2. CASE v # new
      <4>1. v \in 1 .. Len(when)
        BY <1>n, <1>2, <1>3, <3>2
      <4> QED BY <1>0, <1>1, <1>2, <1>3, <4>1 DEF NotAhead
    <3> QED BY <3>1, <3>2
  <2> QED BY <1>0, <1>1, <2>1 DEF NotAhead
<1>8. SavesOverlap'
  <2>1. ASSUME NEW b \in Administrators, save'[b].stage = "saved",
               NEW v \in (save'[b].version + 1 .. Len(saved')) \ racing'
        PROVE  FALSE
    <3>1. CASE b = a
      <4>1. save'[b].version = new
        BY <1>0, <1>1, <3>1 DEF SettingTypes
      <4>2. v \in new + 1 .. new
        BY <1>3, <2>1, <4>1
      <4> QED BY <1>2, <4>2
    <3>2. CASE b # a
      <4>1. save'[b] = save[b]
        BY <1>0, <1>1, <3>2 DEF SettingTypes
      <4>2. racing' = racing \cup {new}
        BY <1>1, <2>1, <4>1
      <4>3. save[b].version \in 0 .. Len(saved) /\ After(save[b].version) = {}
        BY <1>0, <2>1, <4>1 DEF SettingTypes, SavesOverlap
      <4>4. v \in save[b].version + 1 .. new /\ v \notin racing /\ v # new
        BY <1>3, <2>1, <4>1, <4>2
      <4>5. v \in After(save[b].version)
        BY <1>n, <1>2, <4>3, <4>4 DEF After
      <4> QED BY <4>3, <4>5
    <3> QED BY <3>1, <3>2
  <2> QED BY <2>1 DEF SavesOverlap, After
<1>9. CopiesExpire'
  <2>1. ASSUME NEW m \in Nodes, NEW v \in (cache[m].version + 1 .. Len(saved')) \ racing'
        PROVE  cache[m].until <= when'[v] + Lifetime
    <3>1. cache[m].version \in 0 .. Len(saved) /\ cache[m].until <= clock + Lifetime
      BY <1>0 DEF SettingTypes, NotAhead
    <3>2. CASE v \in After(cache[m].version) /\ when'[v] = when[v]
      BY <1>0, <3>2 DEF CopiesExpire
    <3>3. CASE when'[v] = clock
      BY <3>1, <3>3
    <3> QED BY <1>3, <2>1, <3>1, <3>2, <3>3
  <2> QED BY <1>1, <2>1 DEF CopiesExpire, After
<1>10. RequestsKnow'
  <2>1. ASSUME NEW r \in Lookups, NEW v \in (lookup[r].version + 1 .. Len(saved')) \ racing'
        PROVE  /\ lookup[r].stage = "read" => when'[v] >= lookup[r].at
               /\ lookup[r].stage = "told" /\ lookup[r].sure => when'[v] + Lifetime >= lookup[r].at
    <3>1. lookup[r].version \in 0 .. Len(saved) /\ lookup[r].at \in Nat /\ lookup[r].at <= clock
      BY <1>0 DEF SettingTypes, NotAhead
    <3>2. CASE v \in After(lookup[r].version) /\ when'[v] = when[v]
      BY <1>0, <3>2 DEF RequestsKnow
    <3>3. CASE when'[v] = clock
      BY <1>2, <3>1, <3>3
    <3> QED BY <1>3, <2>1, <3>1, <3>2, <3>3
  <2> QED BY <1>1, <2>1 DEF RequestsKnow, After
<1>11. KeysFollow'
  <2>1. ASSUME NEW k \in keys
        PROVE  /\ k.turn \in Utterances /\ k.version \in 0 .. Len(saved')
               /\ k.key \in S!Keys(S!SettingsOf(k.version)', k.turn)
    <3>1. /\ k.turn \in Utterances /\ k.version \in 0 .. Len(saved)
          /\ k.key \in S!Keys(S!SettingsOf(k.version), k.turn)
      BY <1>0, <2>1 DEF KeysFollow
    <3>2. S!SettingsOf(k.version)' = S!SettingsOf(k.version)
      BY <1>2, <1>3, <3>1 DEF S!SettingsOf
    <3> QED BY <1>4, <3>1, <3>2
  <2> QED BY <1>1, <2>1 DEF KeysFollow
<1> QED BY <1>5, <1>6, <1>8, <1>9, <1>10, <1>11 DEF SettingInv

(* Whatever leaves the row alone.                                             *)
LEMMA RowAlone ==
  ASSUME saved' = saved, racing' = racing
  PROVE  /\ \A v : After(v)' = After(v)
         /\ \A v, t : S!Keys(S!SettingsOf(v), t)' = S!Keys(S!SettingsOf(v), t)
BY DEF After, S!SettingsOf, S!Keys

(* A save that is done has its instance remember it.                          *)
LEMMA RememberKeeps ==
  ASSUME SettingInv, NEW a \in Administrators, S!Remember(a)
  PROVE  SettingInv'
<1> USE SettingAssumption
<1>0. SettingTypes /\ NotAhead /\ SavesOverlap /\ CopiesExpire /\ RequestsKnow /\ KeysFollow
  BY DEF SettingInv
<1>1. PICK m \in Nodes, x \in 0 .. Len(saved), u \in Nat :
        /\ u = clock + Lifetime /\ After(x) = {}
        /\ cache' = [cache EXCEPT ![m] = [version |-> x, until |-> u]]
  <2>1. save[a].stage = "saved" /\ save[a].node \in Nodes /\ save[a].version \in 0 .. Len(saved)
    BY <1>0 DEF S!Remember, SettingTypes
  <2>2. clock + Lifetime \in Nat
    BY <1>0 DEF SettingTypes
  <2>3. cache' = [cache EXCEPT ![save[a].node] = [version |-> save[a].version, until |-> clock + Lifetime]]
    BY DEF S!Remember
  <2>4. After(save[a].version) = {}
    BY <1>0, <2>1 DEF SavesOverlap
  <2> QED BY <2>1, <2>2, <2>3, <2>4
<1>2. /\ saved' = saved /\ when' = when /\ racing' = racing /\ clock' = clock /\ lookup' = lookup
      /\ keys' = keys /\ save' = [save EXCEPT ![a] = S!NoSave]
  BY DEF S!Remember
<1>3. S!NoSave \in [stage : {"idle", "saved"}, node : Nodes, version : 0 .. Len(saved)]
      /\ S!NoSave.stage = "idle"
  BY <1>0, SomeNode DEF S!NoSave, SettingTypes
<1>4. /\ save' \in [Administrators -> [stage : {"idle", "saved"}, node : Nodes, version : 0 .. Len(saved)]]
      /\ \A b \in Administrators : save'[b].stage = "saved" => save'[b] = save[b]
  BY <1>0, <1>2, <1>3 DEF SettingTypes
<1>5. /\ cache' \in [Nodes -> [version : 0 .. Len(saved), until : Nat]]
      /\ cache'[m].version = x /\ cache'[m].until = u
      /\ \A n \in Nodes \ {m} : cache'[n] = cache[n]
  BY <1>0, <1>1 DEF SettingTypes
<1>6. \A v : After(v)' = After(v)
  BY <1>2, RowAlone
<1>7. SettingTypes'
  BY <1>0, <1>2, <1>4, <1>5 DEF SettingTypes
<1>8. NotAhead'
  BY <1>0, <1>1, <1>2, <1>5 DEF NotAhead
<1>9. SavesOverlap'
  BY <1>0, <1>2, <1>4 DEF SavesOverlap, After
<1>10. CopiesExpire'
  <2>1. ASSUME NEW n \in Nodes, NEW v \in (cache'[n].version + 1 .. Len(saved)) \ racing
        PROVE  cache'[n].until <= when[v] + Lifetime
    <3>1. CASE n = m
      <4>1. v \in After(x)
        BY <1>5, <2>1, <3>1 DEF After
      <4> QED BY <1>1, <4>1
    <3>2. CASE n # m
      <4>1. cache'[n] = cache[n] /\ v \in After(cache[n].version)
        BY <1>5, <2>1, <3>2 DEF After
      <4> QED BY <1>0, <4>1 DEF CopiesExpire
    <3> QED BY <3>1, <3>2
  <2> QED BY <1>2, <2>1 DEF CopiesExpire, After
<1>11. RequestsKnow' /\ KeysFollow'
  BY <1>0, <1>2 DEF RequestsKnow, KeysFollow, After, S!SettingsOf
<1> QED BY <1>7, <1>8, <1>9, <1>10, <1>11 DEF SettingInv

(* One request goes on: what it now has read or was told must be as fresh as  *)
(* RequestsKnow says.                                                         *)
LEMMA RequestChanges ==
  ASSUME SettingInv, NEW r \in Lookups,
         NEW t \in [stage : {"idle", "asking", "read", "told"}, node : Nodes, at : Nat,
                    version : 0 .. Len(saved), sure : BOOLEAN],
         t.at <= clock,
         \A v \in After(t.version) :
           /\ t.stage = "read" => when[v] >= t.at
           /\ t.stage = "told" /\ t.sure => when[v] + Lifetime >= t.at,
         lookup' = [lookup EXCEPT ![r] = t],
         saved' = saved, when' = when, racing' = racing, clock' = clock, save' = save
  PROVE  /\ lookup' \in [Lookups -> [stage : {"idle", "asking", "read", "told"}, node : Nodes, at : Nat,
                                     version : 0 .. Len(saved), sure : BOOLEAN]]
         /\ \A q \in Lookups : lookup'[q].at <= clock
         /\ SavesOverlap' /\ RequestsKnow'
<1>0. SettingTypes /\ NotAhead /\ SavesOverlap /\ RequestsKnow
  BY DEF SettingInv
<1>1. /\ lookup' \in [Lookups -> [stage : {"idle", "asking", "read", "told"}, node : Nodes, at : Nat,
                                  version : 0 .. Len(saved), sure : BOOLEAN]]
      /\ lookup'[r] = t /\ \A q \in Lookups \ {r} : lookup'[q] = lookup[q]
  BY <1>0 DEF SettingTypes
<1>2. \A q \in Lookups : lookup'[q].at <= clock
  BY <1>0, <1>1 DEF NotAhead
<1>3. SavesOverlap'
  BY <1>0 DEF SavesOverlap, After
<1>4. ASSUME NEW q \in Lookups, NEW v \in After(lookup'[q].version)
      PROVE  /\ lookup'[q].stage = "read" => when[v] >= lookup'[q].at
             /\ lookup'[q].stage = "told" /\ lookup'[q].sure => when[v] + Lifetime >= lookup'[q].at
  <2>1. CASE q = r
    BY <1>1, <1>4, <2>1
  <2>2. CASE q # r
    BY <1>0, <1>1, <1>4, <2>2 DEF RequestsKnow
  <2> QED BY <2>1, <2>2
<1>5. RequestsKnow'
  BY <1>4 DEF RequestsKnow, After
<1> QED BY <1>1, <1>2, <1>3, <1>5

(* A request changes and no copy does, nor any key.                           *)
LEMMA RequestOnly ==
  ASSUME SettingInv, NEW r \in Lookups,
         NEW t \in [stage : {"idle", "asking", "read", "told"}, node : Nodes, at : Nat,
                    version : 0 .. Len(saved), sure : BOOLEAN],
         t.at <= clock,
         \A v \in After(t.version) :
           /\ t.stage = "read" => when[v] >= t.at
           /\ t.stage = "told" /\ t.sure => when[v] + Lifetime >= t.at,
         lookup' = [lookup EXCEPT ![r] = t],
         saved' = saved, when' = when, racing' = racing, clock' = clock, save' = save, cache' = cache,
         \A k \in keys' : k \in keys \/ (/\ k.turn \in Utterances /\ k.version \in 0 .. Len(saved)
                                         /\ k.key \in S!Keys(S!SettingsOf(k.version), k.turn))
  PROVE  SettingInv'
<1>0. SettingTypes /\ NotAhead /\ CopiesExpire /\ KeysFollow
  BY DEF SettingInv
<1>1. /\ lookup' \in [Lookups -> [stage : {"idle", "asking", "read", "told"}, node : Nodes, at : Nat,
                                  version : 0 .. Len(saved), sure : BOOLEAN]]
      /\ \A q \in Lookups : lookup'[q].at <= clock
      /\ SavesOverlap' /\ RequestsKnow'
  BY RequestChanges
<1>2. SettingTypes'
  BY <1>0, <1>1 DEF SettingTypes
<1>3. NotAhead' /\ CopiesExpire'
  BY <1>0, <1>1 DEF NotAhead, CopiesExpire, After
<1>4. KeysFollow'
  <2>1. \A v : S!SettingsOf(v)' = S!SettingsOf(v)
    BY DEF S!SettingsOf
  <2> QED BY <1>0, <2>1 DEF KeysFollow
<1> QED BY <1>1, <1>2, <1>3, <1>4 DEF SettingInv

(* Every settings row saved after a version has a time of its own.            *)
LEMMA LatersAreDated ==
  ASSUME SettingTypes, NEW n \in Nat, NEW v \in After(n)
  PROVE  when[v] \in Nat
<1>1. when \in Seq(Nat) /\ Len(when) = Len(saved)
  BY DEF SettingTypes
<1>2. v \in n + 1 .. Len(when)
  BY <1>1 DEF After
<1>3. v \in 1 .. Len(when)
  BY <1>1, <1>2
<1> QED BY <1>1, <1>3

(* A request looks at its copy, reads the row, or fails to.                   *)
LEMMA LookKeeps ==
  ASSUME SettingInv, NEW r \in Lookups, NEW n \in Nodes, S!Look(r, n)
  PROVE  SettingInv'
<1> USE SettingAssumption
<1>0. SettingTypes /\ NotAhead /\ CopiesExpire
  BY DEF SettingInv
<1>1. /\ saved' = saved /\ when' = when /\ racing' = racing /\ clock' = clock /\ save' = save
      /\ cache' = cache /\ keys' = keys
  BY DEF S!Look
<1>2. clock \in Nat /\ cache[n] \in [version : 0 .. Len(saved), until : Nat] /\ 0 \in 0 .. Len(saved)
  BY <1>0 DEF SettingTypes
<1>3. CASE clock < cache[n].until
  <2> DEFINE t == [stage |-> "told", node |-> n, at |-> clock, version |-> cache[n].version, sure |-> TRUE]
  <2>1. lookup' = [lookup EXCEPT ![r] = t]
    BY <1>3 DEF S!Look
  <2>2. /\ t \in [stage : {"idle", "asking", "read", "told"}, node : Nodes, at : Nat,
                  version : 0 .. Len(saved), sure : BOOLEAN]
        /\ t.at = clock /\ t.stage = "told" /\ t.version = cache[n].version
    BY <1>2
  <2>3. ASSUME NEW v \in After(cache[n].version) PROVE when[v] + Lifetime >= clock
    <3>1. cache[n].until <= when[v] + Lifetime
      BY <1>0, <2>3 DEF CopiesExpire
    <3>2. when[v] \in Nat
      <4>1. cache[n].version \in Nat
        BY <1>2
      <4> QED BY <1>0, <2>3, <4>1, LatersAreDated
    <3> QED BY <1>2, <1>3, <3>1, <3>2
  <2> HIDE DEF t
  <2>4. t.at <= clock
    BY <1>2, <2>2
  <2> QED BY <1>1, <2>1, <2>2, <2>3, <2>4, RequestOnly
<1>4. CASE ~ (clock < cache[n].until)
  <2> DEFINE t == [stage |-> "asking", node |-> n, at |-> clock, version |-> 0, sure |-> TRUE]
  <2>1. lookup' = [lookup EXCEPT ![r] = t]
    BY <1>4 DEF S!Look
  <2>2. /\ t \in [stage : {"idle", "asking", "read", "told"}, node : Nodes, at : Nat,
                  version : 0 .. Len(saved), sure : BOOLEAN]
        /\ t.at = clock /\ t.stage = "asking"
    BY <1>2
  <2> HIDE DEF t
  <2>4. t.at <= clock
    BY <1>2, <2>2
  <2> QED BY <1>1, <2>1, <2>2, <2>4, RequestOnly
<1> QED BY <1>3, <1>4

(* The row is read, or cannot be, and the request is told what it may keep.   *)
LEMMA ReadKeeps ==
  ASSUME SettingInv, NEW r \in Lookups, S!Read(r) \/ S!ReadFails(r)
  PROVE  SettingInv'
<1>0. SettingTypes /\ NotAhead
  BY DEF SettingInv
<1>1. /\ saved' = saved /\ when' = when /\ racing' = racing /\ clock' = clock /\ save' = save
      /\ cache' = cache /\ keys' = keys
  BY DEF S!Read, S!ReadFails
<1> DEFINE q == lookup[r]
<1>2. /\ q \in [stage : {"idle", "asking", "read", "told"}, node : Nodes, at : Nat,
                version : 0 .. Len(saved), sure : BOOLEAN]
      /\ q.at <= clock /\ Len(saved) \in 0 .. Len(saved)
      /\ lookup \in [Lookups -> [stage : {"idle", "asking", "read", "told"}, node : Nodes, at : Nat,
                version : 0 .. Len(saved), sure : BOOLEAN]]
  BY <1>0 DEF SettingTypes, NotAhead
<1>3. CASE S!Read(r)
  <2> DEFINE t == [q EXCEPT !.stage = "read", !.version = Len(saved)]
  <2>1. lookup' = [lookup EXCEPT ![r] = t]
    BY <1>2, <1>3 DEF S!Read, S!Newest
  <2> HIDE DEF q
  <2>2. /\ t \in [stage : {"idle", "asking", "read", "told"}, node : Nodes, at : Nat,
                  version : 0 .. Len(saved), sure : BOOLEAN]
        /\ t.at <= clock /\ t.version = Len(saved)
    BY <1>2
  <2>3. After(t.version) = {}
    BY <1>2, <2>2 DEF After
  <2> HIDE DEF t
  <2> QED BY <1>1, <2>1, <2>2, <2>3, RequestOnly
<1>4. CASE S!ReadFails(r)
  <2> DEFINE t == [q EXCEPT !.stage = "told", !.sure = FALSE]
  <2>1. lookup' = [lookup EXCEPT ![r] = t]
    BY <1>2, <1>4 DEF S!ReadFails
  <2> HIDE DEF q
  <2>2. /\ t \in [stage : {"idle", "asking", "read", "told"}, node : Nodes, at : Nat,
                  version : 0 .. Len(saved), sure : BOOLEAN]
        /\ t.at <= clock /\ t.stage = "told" /\ ~ t.sure
    BY <1>2
  <2> HIDE DEF t
  <2> QED BY <1>1, <2>1, <2>2, RequestOnly
<1> QED BY <1>3, <1>4

(* What was read is remembered for a lifetime from when the request came.     *)
LEMMA StoreKeeps ==
  ASSUME SettingInv, NEW r \in Lookups, S!Store(r)
  PROVE  SettingInv'
<1> USE SettingAssumption
<1>0. SettingTypes /\ NotAhead /\ CopiesExpire /\ RequestsKnow /\ KeysFollow
  BY DEF SettingInv
<1>1. /\ saved' = saved /\ when' = when /\ racing' = racing /\ clock' = clock /\ save' = save
      /\ keys' = keys
  BY DEF S!Store
<1> DEFINE q == lookup[r]
           t == [q EXCEPT !.stage = "told"]
<1>2. /\ q \in [stage : {"idle", "asking", "read", "told"}, node : Nodes, at : Nat,
                version : 0 .. Len(saved), sure : BOOLEAN]
      /\ q.at <= clock /\ q.stage = "read" /\ clock \in Nat
      /\ \A v \in After(q.version) : when[v] >= q.at
  BY <1>0 DEF SettingTypes, NotAhead, S!Store, RequestsKnow
<1>3. \A v \in After(q.version) : when[v] \in Nat
  <2>1. q.version \in Nat
    BY <1>2
  <2> HIDE DEF q
  <2> QED BY <1>0, <2>1, LatersAreDated
<1>4. cache' = [cache EXCEPT ![q.node] = [version |-> q.version, until |-> q.at + Lifetime]]
  BY DEF S!Store, S!Expiry
<1>5. lookup' = [lookup EXCEPT ![r] = t]
  BY <1>0 DEF S!Store, SettingTypes
<1> HIDE DEF q
<1>6. /\ t \in [stage : {"idle", "asking", "read", "told"}, node : Nodes, at : Nat,
                version : 0 .. Len(saved), sure : BOOLEAN]
      /\ t.at = q.at /\ t.at <= clock /\ t.version = q.version /\ t.stage = "told"
  BY <1>2
<1> HIDE DEF t
<1>7. \A v \in After(t.version) : when[v] + Lifetime >= t.at
  BY <1>2, <1>3, <1>6
<1>8. /\ lookup' \in [Lookups -> [stage : {"idle", "asking", "read", "told"}, node : Nodes, at : Nat,
                                  version : 0 .. Len(saved), sure : BOOLEAN]]
      /\ \A p \in Lookups : lookup'[p].at <= clock
      /\ SavesOverlap' /\ RequestsKnow'
  BY <1>1, <1>5, <1>6, <1>7, RequestChanges
<1>9. PICK m \in Nodes, x \in 0 .. Len(saved), u \in Nat :
        /\ u <= clock + Lifetime /\ \A v \in After(x) : u <= when[v] + Lifetime
        /\ cache' = [cache EXCEPT ![m] = [version |-> x, until |-> u]]
  <2>1. /\ q.node \in Nodes /\ q.version \in 0 .. Len(saved) /\ q.at + Lifetime \in Nat
        /\ q.at + Lifetime <= clock + Lifetime
    BY <1>2
  <2>2. \A v \in After(q.version) : q.at + Lifetime <= when[v] + Lifetime
    BY <1>2, <1>3
  <2> QED BY <1>4, <2>1, <2>2
<1>10. /\ cache' \in [Nodes -> [version : 0 .. Len(saved), until : Nat]]
       /\ cache'[m].version = x /\ cache'[m].until = u
       /\ \A n \in Nodes \ {m} : cache'[n] = cache[n]
  BY <1>0, <1>9 DEF SettingTypes
<1>11. SettingTypes'
  BY <1>0, <1>1, <1>8, <1>10 DEF SettingTypes
<1>12. NotAhead'
  BY <1>0, <1>1, <1>8, <1>9, <1>10 DEF NotAhead
<1>13. CopiesExpire'
  <2>1. ASSUME NEW n \in Nodes, NEW v \in (cache'[n].version + 1 .. Len(saved)) \ racing
        PROVE  cache'[n].until <= when[v] + Lifetime
    <3>1. CASE n = m
      <4>1. v \in After(x)
        BY <1>10, <2>1, <3>1 DEF After
      <4> QED BY <1>9, <1>10, <3>1, <4>1
    <3>2. CASE n # m
      <4>1. cache'[n] = cache[n] /\ v \in After(cache[n].version)
        BY <1>10, <2>1, <3>2 DEF After
      <4> QED BY <1>0, <4>1 DEF CopiesExpire
    <3> QED BY <3>1, <3>2
  <2> QED BY <1>1, <2>1 DEF CopiesExpire, After
<1>14. KeysFollow'
  BY <1>0, <1>1 DEF KeysFollow, S!SettingsOf
<1> QED BY <1>8, <1>11, <1>12, <1>13, <1>14 DEF SettingInv

(* A request is given a key by the settings it was told.                      *)
LEMMA RouteKeeps ==
  ASSUME SettingInv, NEW r \in Lookups, NEW t \in Utterances, S!Route(r, t)
  PROVE  SettingInv'
<1>0. SettingTypes
  BY DEF SettingInv
<1>1. PICK k \in S!Keys(S!SettingsOf(lookup[r].version), t) :
        keys' = keys \cup {[turn |-> t, version |-> lookup[r].version, key |-> k]}
  BY DEF S!Route
<1>2. /\ saved' = saved /\ when' = when /\ racing' = racing /\ clock' = clock /\ save' = save
      /\ cache' = cache /\ lookup' = [lookup EXCEPT ![r] = S!Idle]
  BY DEF S!Route
<1>3. /\ S!Idle \in [stage : {"idle", "asking", "read", "told"}, node : Nodes, at : Nat,
                    version : 0 .. Len(saved), sure : BOOLEAN]
      /\ S!Idle.stage = "idle" /\ S!Idle.at <= clock
  BY <1>0, SomeNode DEF S!Idle, SettingTypes
<1>4. lookup[r].version \in 0 .. Len(saved)
  BY <1>0 DEF SettingTypes
<1>5. \A l \in keys' : l \in keys \/ (/\ l.turn \in Utterances /\ l.version \in 0 .. Len(saved)
                                      /\ l.key \in S!Keys(S!SettingsOf(l.version), l.turn))
  BY <1>1, <1>4
<1> QED BY <1>2, <1>3, <1>5, RequestOnly

(* Time passes.                                                               *)
LEMMA TimeKeeps == SettingInv /\ S!Tick => SettingInv'
<1> SUFFICES ASSUME SettingInv, S!Tick PROVE SettingInv'
  OBVIOUS
<1> USE SettingAssumption
<1>0. SettingTypes /\ NotAhead /\ SavesOverlap /\ CopiesExpire /\ RequestsKnow /\ KeysFollow
  BY DEF SettingInv
<1>1. /\ saved' = saved /\ when' = when /\ racing' = racing /\ clock' = clock + 1 /\ save' = save
      /\ cache' = cache /\ lookup' = lookup /\ keys' = keys
  BY DEF S!Tick
<1>2. clock \in Nat /\ clock' \in Nat
  BY <1>0, <1>1 DEF SettingTypes
<1>3. SettingTypes'
  BY <1>0, <1>1, <1>2 DEF SettingTypes
<1>4. NotAhead'
  <2>1. /\ \A v \in 1 .. Len(when) : when[v] \in Nat
        /\ \A r \in Lookups : lookup[r].at \in Nat
        /\ \A n \in Nodes : cache[n].until \in Nat
    BY <1>0 DEF SettingTypes
  <2> QED BY <1>0, <1>1, <1>2, <2>1 DEF NotAhead
<1>5. SavesOverlap' /\ CopiesExpire' /\ RequestsKnow'
  BY <1>0, <1>1 DEF SavesOverlap, CopiesExpire, RequestsKnow, After
<1>6. KeysFollow'
  BY <1>0, <1>1 DEF KeysFollow, S!SettingsOf
<1> QED BY <1>3, <1>4, <1>5, <1>6 DEF SettingInv

(* Every step keeps copies fresh enough.                                      *)
LEMMA SettingNext == SettingInv /\ S!Next => SettingInv'
BY PutKeeps, RememberKeeps, LookKeeps, ReadKeeps, StoreKeeps, RouteKeeps, TimeKeeps DEF S!Next

(* A step of another part, or none, leaves the settings as they are.          *)
LEMMA SettingStays == SettingInv /\ UNCHANGED settingVars => SettingInv'
<1> SUFFICES ASSUME SettingInv, UNCHANGED settingVars PROVE SettingInv'
  OBVIOUS
<1>1. UNCHANGED <<saved, when, racing, clock, cache, lookup, save, keys>>
  BY DEF settingVars
<1>2. SettingTypes' /\ NotAhead' /\ SavesOverlap' /\ CopiesExpire' /\ RequestsKnow'
  BY <1>1 DEF SettingInv, SettingTypes, NotAhead, SavesOverlap, CopiesExpire, RequestsKnow, After
<1>3. KeysFollow'
  BY <1>1 DEF SettingInv, KeysFollow, S!SettingsOf
<1> QED BY <1>2, <1>3 DEF SettingInv

(* At most one element.                                                       *)
Single(X) == \A x, y \in X : x = y

(* The first of two sets that is not empty.                                   *)
LEMMA FirstOfTwo ==
  ASSUME NEW A, NEW B
  PROVE  S!FirstOf(<<A, B>>) = IF A # {} THEN A ELSE B
<1> DEFINE sets == <<A, B>>
           c == CHOOSE i \in DOMAIN sets : sets[i] # {} /\ \A j \in 1 .. i - 1 : sets[j] = {}
<1>0. DOMAIN sets = {1, 2} /\ sets[1] = A /\ sets[2] = B
  OBVIOUS
<1>f. S!FirstOf(sets) = IF \A i \in DOMAIN sets : sets[i] = {} THEN {} ELSE sets[c]
  BY DEF S!FirstOf
<1> HIDE DEF sets
<1>1. CASE A # {}
  <2>1. 1 \in DOMAIN sets /\ sets[1] # {} /\ \A j \in 1 .. 1 - 1 : sets[j] = {}
    BY <1>0, <1>1
  <2>2. c \in DOMAIN sets /\ sets[c] # {} /\ \A j \in 1 .. c - 1 : sets[j] = {}
    BY <2>1
  <2>3. c = 1
    BY <1>0, <1>1, <2>2
  <2> QED BY <1>0, <1>1, <1>f, <2>3 DEF sets
<1>2. CASE A = {} /\ B # {}
  <2>1. 2 \in DOMAIN sets /\ sets[2] # {} /\ \A j \in 1 .. 2 - 1 : sets[j] = {}
    BY <1>0, <1>2
  <2>2. c \in DOMAIN sets /\ sets[c] # {} /\ \A j \in 1 .. c - 1 : sets[j] = {}
    BY <2>1
  <2>3. c = 2
    BY <1>0, <1>2, <2>2
  <2> QED BY <1>0, <1>2, <1>f, <2>3 DEF sets
<1>3. CASE A = {} /\ B = {}
  BY <1>0, <1>3, <1>f DEF sets
<1> QED BY <1>1, <1>2, <1>3

(* The first of three.                                                        *)
LEMMA FirstOfThree ==
  ASSUME NEW A, NEW B, NEW D
  PROVE  S!FirstOf(<<A, B, D>>) = IF A # {} THEN A ELSE IF B # {} THEN B ELSE D
<1> DEFINE sets == <<A, B, D>>
           c == CHOOSE i \in DOMAIN sets : sets[i] # {} /\ \A j \in 1 .. i - 1 : sets[j] = {}
<1>0. DOMAIN sets = {1, 2, 3} /\ sets[1] = A /\ sets[2] = B /\ sets[3] = D
  OBVIOUS
<1>f. S!FirstOf(sets) = IF \A i \in DOMAIN sets : sets[i] = {} THEN {} ELSE sets[c]
  BY DEF S!FirstOf
<1> HIDE DEF sets
<1>c. ASSUME NEW i \in DOMAIN sets, sets[i] # {}, \A j \in 1 .. i - 1 : sets[j] = {}
      PROVE  S!FirstOf(sets) = sets[i]
  <2>1. c \in DOMAIN sets /\ sets[c] # {} /\ \A j \in 1 .. c - 1 : sets[j] = {}
    BY <1>c
  <2>2. c \in {1, 2, 3} /\ i \in {1, 2, 3}
    BY <1>0, <1>c, <2>1
  <2>3. ~ (c < i) /\ ~ (i < c)
    <3> HIDE DEF c
    <3> QED BY <1>c, <2>1, <2>2
  <2>4. c = i
    <3> HIDE DEF c
    <3> QED BY <2>2, <2>3
  <2> QED BY <1>c, <1>f, <2>4
<1>1. CASE A # {}
  <2>1. 1 \in DOMAIN sets /\ sets[1] # {} /\ \A j \in 1 .. 1 - 1 : sets[j] = {}
    BY <1>0, <1>1
  <2> QED BY <1>0, <1>1, <1>c, <2>1 DEF sets
<1>2. CASE A = {} /\ B # {}
  <2>1. 2 \in DOMAIN sets /\ sets[2] # {} /\ \A j \in 1 .. 2 - 1 : sets[j] = {}
    BY <1>0, <1>2
  <2> QED BY <1>0, <1>2, <1>c, <2>1 DEF sets
<1>3. CASE A = {} /\ B = {} /\ D # {}
  <2>1. 3 \in DOMAIN sets /\ sets[3] # {} /\ \A j \in 1 .. 3 - 1 : sets[j] = {}
    BY <1>0, <1>3
  <2> QED BY <1>0, <1>3, <1>c, <2>1 DEF sets
<1>4. CASE A = {} /\ B = {} /\ D = {}
  BY <1>0, <1>4, <1>f DEF sets
<1> QED BY <1>1, <1>2, <1>3, <1>4

(* The names of the first kind that a turn has any of, with rules and without. *)
Drawn(t) == IF S!Given(t.header) # {} THEN S!Given(t.header)
            ELSE IF S!Given(t.query) # {} THEN S!Given(t.query) ELSE S!Fields(t)

Chosen(rule, t) == IF rule.header /\ S!Given(t.header) # {} THEN S!Given(t.header)
                   ELSE IF rule.fields THEN S!Fields(t) ELSE {}

(* A key comes from a rule, or from what the turn is known by, or is a digest, *)
(* or there is none.                                                          *)
FromKeys(s, t, k) ==
  IF S!RuleKeys(s.rule, t) # {} THEN k \in S!RuleKeys(s.rule, t)
  ELSE IF S!KnownKeys(t) # {} THEN k \in S!KnownKeys(t)
  ELSE IF S!DigestKeys(s, t) # {} THEN k \in S!DigestKeys(s, t) ELSE k = <<>>

(* What the keys of a turn are, without the choice among sequences of sets.   *)
LEMMA KeysAre ==
  ASSUME NEW s, NEW t
  PROVE  /\ S!RuleKeys(s.rule, t) = {S!Prefixed(s.rule, t, name) : name \in Chosen(s.rule, t)}
         /\ S!KnownKeys(t) = IF {<<name>> : name \in Drawn(t)} # {} THEN {<<name>> : name \in Drawn(t)}
                             ELSE S!InputDigest(t)
         /\ \A k \in S!Keys(s, t) : FromKeys(s, t, k)
<1>1. S!FirstOf(<<IF s.rule.header THEN S!Given(t.header) ELSE {},
                  IF s.rule.fields THEN S!Fields(t) ELSE {}>>) = Chosen(s.rule, t)
  BY FirstOfTwo DEF Chosen
<1>2. S!RuleKeys(s.rule, t) = {S!Prefixed(s.rule, t, name) : name \in Chosen(s.rule, t)}
  BY <1>1 DEF S!RuleKeys
<1>3. S!FirstOf(<<S!Given(t.header), S!Given(t.query), S!Fields(t)>>) = Drawn(t)
  BY FirstOfThree DEF Drawn
<1>4. S!KnownKeys(t) = IF {<<name>> : name \in Drawn(t)} # {} THEN {<<name>> : name \in Drawn(t)}
                       ELSE S!InputDigest(t)
  BY <1>3, FirstOfTwo DEF S!KnownKeys
<1>5. S!FirstOf(<<S!RuleKeys(s.rule, t), S!KnownKeys(t), S!DigestKeys(s, t)>>) =
        IF S!RuleKeys(s.rule, t) # {} THEN S!RuleKeys(s.rule, t)
        ELSE IF S!KnownKeys(t) # {} THEN S!KnownKeys(t) ELSE S!DigestKeys(s, t)
  BY FirstOfThree
<1>6. \A k \in S!Keys(s, t) : FromKeys(s, t, k)
  BY <1>5, Zenon DEF S!Keys, FromKeys
<1> QED BY <1>2, <1>4, <1>6

(* Turns that bear no name.                                                   *)
LEMMA NamelessKeys ==
  ASSUME NEW t \in Utterances, NEW u \in Utterances, S!NamesOf(t) = {},
         [t EXCEPT !.trace = u.trace] = u,
         NEW s, NEW k \in S!Keys(s, t), NEW l \in S!Keys(s, u)
  PROVE  k = l
<1>1. /\ u.header = t.header /\ u.query = t.query /\ u.root = t.root /\ u.below = t.below
      /\ u.input = t.input /\ u.text = t.text /\ u.model = t.model
  BY SettingAssumption
<1>2. /\ S!Given(t.header) = {} /\ S!Given(t.query) = {} /\ S!Fields(t) = {}
      /\ S!Given(u.header) = {} /\ S!Given(u.query) = {} /\ S!Fields(u) = {}
  BY <1>1 DEF S!NamesOf, S!Fields
<1>3. Chosen(s.rule, t) = {} /\ Chosen(s.rule, u) = {} /\ Drawn(t) = {} /\ Drawn(u) = {}
  BY <1>2 DEF Chosen, Drawn
<1>4. S!RuleKeys(s.rule, t) = {} /\ S!RuleKeys(s.rule, u) = {}
  BY <1>3, KeysAre
<1>5. S!KnownKeys(t) = S!InputDigest(t) /\ S!KnownKeys(u) = S!InputDigest(u)
  BY <1>3, KeysAre
<1>6. S!InputDigest(u) = S!InputDigest(t) /\ S!DigestKeys(s, u) = S!DigestKeys(s, t)
  BY <1>1 DEF S!InputDigest, S!DigestKeys
<1>7. Single(S!InputDigest(t)) /\ Single(S!DigestKeys(s, t))
  BY DEF S!InputDigest, S!DigestKeys, Single
<1>8. /\ IF S!InputDigest(t) # {} THEN k \in S!InputDigest(t)
         ELSE IF S!DigestKeys(s, t) # {} THEN k \in S!DigestKeys(s, t) ELSE k = <<>>
      /\ IF S!InputDigest(t) # {} THEN l \in S!InputDigest(t)
         ELSE IF S!DigestKeys(s, t) # {} THEN l \in S!DigestKeys(s, t) ELSE l = <<>>
  <2>1. FromKeys(s, t, k)
    BY KeysAre, Zenon
  <2>2. FromKeys(s, u, l)
    BY KeysAre, Zenon
  <2> QED BY <1>4, <1>5, <1>6, <2>1, <2>2 DEF FromKeys
<1> QED BY <1>7, <1>8 DEF Single

(* Turns that bear one name.                                                  *)
LEMMA NamedKeys ==
  ASSUME NEW t \in Utterances, NEW u \in Utterances, NEW x, S!NamesOf(t) = {x},
         [t EXCEPT !.trace = u.trace, !.text = u.text] = u,
         NEW s, NEW k \in S!Keys(s, t), NEW l \in S!Keys(s, u)
  PROVE  k = l
<1>1. /\ u.header = t.header /\ u.query = t.query /\ u.root = t.root /\ u.below = t.below
      /\ u.model = t.model
  BY SettingAssumption
<1>2. Chosen(s.rule, u) = Chosen(s.rule, t) /\ Drawn(u) = Drawn(t)
  BY <1>1 DEF Chosen, Drawn, S!Fields
<1>3. Chosen(s.rule, t) \subseteq {x} /\ Drawn(t) = {x}
  BY DEF Chosen, Drawn, S!NamesOf, S!Fields
<1>4. S!RuleKeys(s.rule, u) = S!RuleKeys(s.rule, t)
  <2>1. \A name : S!Prefixed(s.rule, u, name) = S!Prefixed(s.rule, t, name)
    BY <1>1 DEF S!Prefixed
  <2>2. /\ S!RuleKeys(s.rule, t) = {S!Prefixed(s.rule, t, name) : name \in Chosen(s.rule, t)}
        /\ S!RuleKeys(s.rule, u) = {S!Prefixed(s.rule, u, name) : name \in Chosen(s.rule, u)}
    BY KeysAre, Zenon
  <2> QED BY <1>2, <2>1, <2>2
<1>5. S!KnownKeys(t) = {<<x>>} /\ S!KnownKeys(u) = {<<x>>}
  <2>1. {<<name>> : name \in Drawn(t)} = {<<x>>} /\ {<<name>> : name \in Drawn(u)} = {<<x>>}
    BY <1>2, <1>3
  <2>2. {<<x>>} # {}
    OBVIOUS
  <2> QED BY <2>1, <2>2, KeysAre
<1>6. S!RuleKeys(s.rule, t) \subseteq {S!Prefixed(s.rule, t, x)}
  BY <1>3, KeysAre
<1>7. /\ IF S!RuleKeys(s.rule, t) # {} THEN k \in S!RuleKeys(s.rule, t) ELSE k \in {<<x>>}
      /\ IF S!RuleKeys(s.rule, t) # {} THEN l \in S!RuleKeys(s.rule, t) ELSE l \in {<<x>>}
  <2>1. FromKeys(s, t, k) /\ FromKeys(s, u, l)
    BY KeysAre, Zenon
  <2> QED BY <1>4, <1>5, <2>1 DEF FromKeys
<1> QED BY <1>6, <1>7

(* A turn has finitely many names.                                            *)
LEMMA NamesAreFinite == \A t \in Utterances : IsFiniteSet(S!NamesOf(t))
<1> SUFFICES ASSUME NEW t \in Utterances PROVE IsFiniteSet(S!NamesOf(t))
  OBVIOUS
<1>1. IsFiniteSet(t.root) /\ IsFiniteSet(t.below)
  BY SettingAssumption
<1>2. \A name : IsFiniteSet(S!Given(name))
  BY FS_EmptySet, FS_Singleton, Zenon DEF S!Given
<1> QED BY <1>1, <1>2, FS_Union DEF S!NamesOf

(* Counting means the same in the module of the settings.                     *)
LEMMA SameSettingCardinality == \A X : S!Cardinality(X) = Cardinality(X)
BY DEF S!Cardinality, Cardinality

(* Turns that belong together have one key under the same settings.           *)
LEMMA TogetherIsOneKey ==
  ASSUME NEW t \in Utterances, NEW u \in Utterances, S!Together(t, u),
         NEW s, NEW k \in S!Keys(s, t), NEW l \in S!Keys(s, u)
  PROVE  k = l
<1>1. CASE S!NamesOf(t) = {}
  BY <1>1, NamelessKeys DEF S!Together
<1>2. CASE S!NamesOf(t) # {}
  <2>1. Cardinality(S!NamesOf(t)) = 1 /\ [t EXCEPT !.trace = u.trace, !.text = u.text] = u
    BY <1>2, SameSettingCardinality DEF S!Together
  <2>2. PICK x : S!NamesOf(t) = {x}
    BY <2>1, NamesAreFinite, FS_Singleton
  <2> QED BY <2>1, <2>2, NamedKeys, Zenon
<1> QED BY <1>1, <1>2

(* The invariant says that settings are fresh, and that conversations have    *)
(* one key.                                                                   *)
LEMMA SettingInvIsFresh == SettingInv => S!SettingsAreFresh /\ S!OneKeyPerConversation
<1> SUFFICES ASSUME SettingInv PROVE S!SettingsAreFresh /\ S!OneKeyPerConversation
  OBVIOUS
<1>1. S!SettingsAreFresh
  BY DEF SettingInv, RequestsKnow, After, S!SettingsAreFresh, S!Newest
<1>2. S!OneKeyPerConversation
  <2> SUFFICES ASSUME NEW k \in keys, NEW l \in keys, k.version = l.version,
                      S!Together(k.turn, l.turn)
               PROVE  k.key = l.key
    BY DEF S!OneKeyPerConversation
  <2>1. /\ k.turn \in Utterances /\ k.key \in S!Keys(S!SettingsOf(k.version), k.turn)
        /\ l.turn \in Utterances /\ l.key \in S!Keys(S!SettingsOf(k.version), l.turn)
    BY DEF SettingInv, KeysFollow
  <2> QED BY <2>1, TogetherIsOneKey
<1> QED BY <1>1, <1>2

-----------------------------------------------------------------------------
(* The overrides: every attempt rewrites what the client sent.  A fold over   *)
(* operations goes one operation at a time, as the attempt does.              *)

(* An attempt rewrites the body by such a fold.                               *)
LEMMA BodyFolds ==
  ASSUME NEW r, NEW base, NEW s \in Seq(Operations)
  PROVE  O!FoldLeft(LAMBDA d, o : IF O!Skipped(r, o) THEN d ELSE O!Applied(d, o), base, s)
           = Folded("body", r, base, s, Len(s))
<1> DEFINE Rewriting(it) == [t \in SUBSET DOMAIN s |->
                    IF t = {} THEN base
                    ELSE LET x == O!Max(t)
                         IN  IF O!Skipped(r, s[x]) THEN it[t \ {x}] ELSE O!Applied(it[t \ {x}], s[x])]
           It == CHOOSE it : it = Rewriting(it)
           n == Len(s)
           Jt == CHOOSE it : IsFold("body", r, base, s, n, it)
<1>1. O!FoldLeft(LAMBDA d, o : IF O!Skipped(r, o) THEN d ELSE O!Applied(d, o), base, s) = It[DOMAIN s]
  BY DEF O!FoldLeft, O!MapThenFoldSet
<1>2. DOMAIN s = 1 .. n /\ n \in Nat
  OBVIOUS
<1>3. ASSUME NEW it PROVE Rewriting(it) = Folding("body", r, base, s, n, it)
  BY <1>2 DEF Folding, Step
<1>4. IsFold("body", r, base, s, n, Jt)
  <2> HIDE DEF n
  <2> QED
    BY <1>2, FoldingExists
<1>5. It = Rewriting(It)
  <2>1. Jt = Rewriting(Jt)
    BY <1>3, <1>4 DEF IsFold
  <2> HIDE DEF Rewriting, Jt
  <2> QED
    BY <2>1
<1>6. IsFold("body", r, base, s, n, It)
  <2> HIDE DEF It, Rewriting
  <2> QED
    BY <1>3, <1>5 DEF IsFold
<1>7. It[1 .. n] = Jt[1 .. n]
  <2> HIDE DEF It, Jt, n
  <2> QED
    BY <1>2, <1>4, <1>6, FoldingsAgree
<1>8. Jt[1 .. n] = Folded("body", r, base, s, n)
  BY DEF Folded
<1> QED
  BY <1>1, <1>2, <1>7, <1>8, Zenon

(* The keys of a document.                                                    *)
KeysOfMaps == STRING \cup {"0", "1", "2", "3", "4", "5"} \cup {"model", "messages", "system", "role", "content"}
Paths == Seq(KeysOfMaps)

(* Names after names lead to a place in a document.                           *)
LEMMA NamesArePaths == Seq(STRING) \subseteq Paths
BY DEF Paths, KeysOfMaps

(* A document is a map, and still names the model where it was to.            *)
Keeps(named, d) == /\ <<>> \in DOMAIN d /\ d[<<>>] = O!Map
                   /\ named => O!Model \in DOMAIN d

(* Nothing but the document itself and the model's own place is above it.     *)
LEMMA AboveTheModel ==
  ASSUME NEW U, NEW p \in Seq(U), p # <<>>
  PROVE  ~O!IsPrefix(p, <<>>) /\ (p # O!Model => ~O!IsPrefix(p, O!Model))
<1>1. Len(p) \in Nat /\ Len(p) # 0 /\ Len(<<>>) = 0
  OBVIOUS
<1>2. ~O!IsPrefix(p, <<>>)
  BY <1>1 DEF O!IsPrefix
<1>3. ASSUME O!IsPrefix(p, O!Model) PROVE p = O!Model
  <2> DEFINE m == O!Model
  <2>1. Len(m) = 1 /\ m = <<m[1]>>
    BY DEF O!Model
  <2>2. SubSeq(p, 1, Len(p)) = SubSeq(m, 1, Len(p))
    BY <1>3 DEF O!IsPrefix
  <2>3. Len(p) = 1
    <3>1. Len(p) <= Len(m)
      BY <1>3 DEF O!IsPrefix
    <3> QED
      BY <1>1, <2>1, <3>1
  <2> HIDE DEF m
  <2>4. SubSeq(p, 1, 1)[1] = p[1] /\ SubSeq(m, 1, 1)[1] = m[1]
    BY <2>1, <2>3
  <2>5. p[1] = m[1]
    BY <2>2, <2>3, <2>4
  <2>6. p = m
    BY <2>1, <2>3, <2>5
  <2> QED
    BY <2>6 DEF m
<1> QED
  BY <1>2, <1>3

(* The way to a place leads neither through the document itself.              *)
LEMMA OnTheWay ==
  ASSUME NEW U, NEW p \in Seq(U), NEW n \in 1 .. Len(p) - 1
  PROVE  SubSeq(p, 1, n) \in Seq(U) /\ SubSeq(p, 1, n) # <<>>
<1>1. SubSeq(p, 1, n) \in Seq(U) /\ Len(SubSeq(p, 1, n)) = n
  OBVIOUS
<1> QED
  BY <1>1

(* What is written at a place below the document leaves the rest there.       *)
LEMMA PutKeepsModel ==
  ASSUME NEW named \in BOOLEAN, NEW d, NEW U, NEW p \in Seq(U), NEW tree,
         Keeps(named, d), p # <<>>, named => p # O!Model
  PROVE  Keeps(named, O!Put(d, p, tree))
<1> DEFINE way == {SubSeq(p, 1, n) : n \in 1 .. Len(p) - 1}
           dom == (DOMAIN d \ O!Under(d, p)) \cup way \cup {p \o r : r \in DOMAIN tree}
           e == O!Put(d, p, tree)
<1>1. e = [q \in dom |->
         IF O!IsPrefix(p, q) THEN tree[O!Rest(p, q)]
         ELSE IF q \in way /\ (q \notin DOMAIN d \/ O!IsText(d[q])) THEN O!Map ELSE d[q]]
  BY DEF O!Put
<1>2. <<>> \in dom /\ <<>> \notin way
  BY AboveTheModel, OnTheWay DEF Keeps, O!Under
<1>3. named => O!Model \in dom
  BY AboveTheModel DEF Keeps, O!Under
<1> HIDE DEF way, dom
<1> QED
  BY <1>1, <1>2, <1>3, AboveTheModel DEF Keeps

(* The model, and the document, are in no list whose items move.              *)
LEMMA MovedBelow ==
  ASSUME NEW l \in Seq(KeysOfMaps), l # <<>>, NEW n, NEW by
  PROVE  O!Moved(l, n, <<>>, by) = <<>> /\ O!Moved(l, n, O!Model, by) = O!Model
<1>1. Len(l) \in Nat /\ Len(l) # 0 /\ Len(<<>>) = 0 /\ Len(O!Model) = 1
  BY DEF O!Model
<1> QED
  BY <1>1 DEF O!Moved

(* Deleting a place below does not take away the document, nor a model        *)
(* elsewhere.                                                                 *)
LEMMA DeleteKeepsModel ==
  ASSUME NEW named \in BOOLEAN, NEW d, NEW p \in Seq(KeysOfMaps),
         Keeps(named, d), p # <<>>, named => p # O!Model
  PROVE  Keeps(named, O!Delete(d, p))
<1> DEFINE l == O!Front(p)
           left == DOMAIN d \ O!Under(d, p)
<1>1. <<>> \in left /\ (named => O!Model \in left)
  BY AboveTheModel DEF Keeps, O!Under
<1>2. l \in Seq(KeysOfMaps)
  BY DEF O!Front
<1>3. CASE p \notin DOMAIN d
  BY <1>3 DEF O!Delete
<1>4. CASE p \in DOMAIN d /\ d[l] # O!List
  BY <1>1, <1>4 DEF O!Delete, Keeps
<1>5. CASE p \in DOMAIN d /\ d[l] = O!List
  <2>1. l # <<>>
    BY <1>5 DEF Keeps, O!Map, O!List
  <2> DEFINE dom == {O!Moved(l, O!Place(O!Last(p)) + 1, q, -1) : q \in left}
  <2>2. <<>> \in dom /\ (named => O!Model \in dom)
    BY <1>1, <1>2, <2>1, MovedBelow
  <2>3. O!Delete(d, p) = [q \in dom |-> d[O!Moved(l, O!Place(O!Last(p)), q, 1)]]
    BY <1>5 DEF O!Delete
  <2> HIDE DEF dom, l
  <2> QED
    BY <1>2, <2>1, <2>2, <2>3, MovedBelow DEF Keeps
<1> QED
  BY <1>3, <1>4, <1>5

(* Nor does putting an item first, which moves the others by one.             *)
LEMMA InsertFirstKeepsModel ==
  ASSUME NEW named \in BOOLEAN, NEW d, NEW l \in Seq(KeysOfMaps), NEW tree, Keeps(named, d), l # <<>>
  PROVE  Keeps(named, O!InsertFirst(d, l, tree))
<1> DEFINE dom == {O!Moved(l, 1, r, 1) : r \in DOMAIN d} \cup {Append(l, "0") \o r : r \in DOMAIN tree}
<1>1. <<>> \in dom /\ (named => O!Model \in dom)
  BY MovedBelow DEF Keeps
<1>2. O!InsertFirst(d, l, tree)
        = [q \in dom |-> IF O!IsPrefix(Append(l, "0"), q) THEN tree[O!Rest(Append(l, "0"), q)]
                         ELSE d[O!Moved(l, 2, q, -1)]]
  BY DEF O!InsertFirst
<1>3. Append(l, "0") \in Seq(KeysOfMaps) /\ Append(l, "0") # <<>>
  BY AppendProperties DEF KeysOfMaps
<1>4. ~O!IsPrefix(Append(l, "0"), <<>>)
  BY <1>3, AboveTheModel
<1>5. d[O!Moved(l, 2, <<>>, -1)] = O!Map
  BY MovedBelow DEF Keeps
<1> HIDE DEF dom
<1> QED
  BY <1>1, <1>2, <1>4, <1>5 DEF Keeps

(* What is put behind the last item of a list has an index, whatever it is.   *)
LEMMA InsertLastKeepsModel ==
  ASSUME NEW named \in BOOLEAN, NEW d, NEW l \in Seq(KeysOfMaps), NEW tree, Keeps(named, d), l # <<>>
  PROVE  Keeps(named, O!InsertLast(d, l, tree))
<1> DEFINE k == O!Index[O!Count(d, l) + 1]
           U == KeysOfMaps \cup {k}
           p == Append(l, k)
<1>1. l \in Seq(U) /\ k \in U
  OBVIOUS
<1>2. p \in Seq(U) /\ Len(p) = Len(l) + 1 /\ p # <<>>
  <2> HIDE DEF U, k
  <2> QED
    BY <1>1, AppendProperties
<1>3. p # O!Model
  <2>1. Len(l) # 0 /\ Len(l) \in Nat /\ Len(O!Model) = 1
    BY DEF O!Model
  <2> HIDE DEF p
  <2> QED
    BY <1>2, <2>1
<1>4. O!InsertLast(d, l, tree) = O!Put(d, p, tree)
  BY DEF O!InsertLast
<1> HIDE DEF p, U, k
<1> QED
  BY <1>2, <1>3, <1>4, PutKeepsModel

(* A text gives way to another at its place.                                  *)
LEMMA ChangeKeepsModel ==
  ASSUME NEW named \in BOOLEAN, NEW d, NEW p, NEW v, Keeps(named, d), p # <<>>
  PROVE  Keeps(named, [d EXCEPT ![p] = v])
BY DEF Keeps

(* An operation that the parser knows, and that the body's loop does.         *)
Known(o) == \/ o.op \in {"copy", "move"} /\ o.from # <<>> /\ o.to # <<>>
            \/ o.op \in {"set", "delete", "append", "prepend", "replace"} /\ o.path # <<>>

(* No operation takes away the document, nor the model where it may not.      *)
LEMMA AppliedKeepsModel ==
  ASSUME NEW named \in BOOLEAN, NEW d, NEW o \in Operations, Keeps(named, d), Known(o),
         named => ~O!TouchesModel(o)
  PROVE  Keeps(named, O!Applied(d, o))
<1>1. /\ o.path \in Seq(KeysOfMaps) /\ o.from \in Seq(KeysOfMaps) /\ o.to \in Seq(KeysOfMaps)
      /\ named => o.path # O!Model /\ o.from # O!Model /\ o.to # O!Model
  BY NamesArePaths DEF Operations, O!TouchesModel, Paths
<1>2. CASE o.op = "set"
  <2>1. O!Applied(d, o) = O!Put(d, o.path, O!Leaf(O!Text(o.value)))
    BY <1>2 DEF O!Applied
  <2> QED
    BY <1>1, <1>2, <2>1, PutKeepsModel DEF Known
<1>3. CASE o.op = "delete"
  <2>1. O!Applied(d, o) = O!Delete(d, o.path)
    BY <1>3 DEF O!Applied
  <2> QED
    BY <1>1, <1>3, <2>1, DeleteKeepsModel DEF Known
<1>4. CASE o.op \in {"append", "prepend"}
  <2> DEFINE item == O!Leaf(O!Text(o.value))
             made == O!InsertLast(O!Leaf(O!List), <<>>, item)
             other == IF o.op = "append" THEN Append(d[o.path], o.value)
                      ELSE O!Text(o.value) \o Tail(d[o.path])
  <2>1. O!Applied(d, o) = IF o.path \notin DOMAIN d THEN O!Put(d, o.path, made)
                          ELSE IF d[o.path] = O!List
                            THEN IF o.op = "append" THEN O!InsertLast(d, o.path, item)
                                 ELSE O!InsertFirst(d, o.path, item)
                          ELSE [d EXCEPT ![o.path] = other]
    BY <1>4 DEF O!Applied, O!Added
  <2> HIDE DEF item, made, other
  <2>2. Keeps(named, O!Put(d, o.path, made))
    BY <1>1, <1>4, PutKeepsModel DEF Known
  <2>3. Keeps(named, O!InsertLast(d, o.path, item)) /\ Keeps(named, O!InsertFirst(d, o.path, item))
    BY <1>1, <1>4, InsertLastKeepsModel, InsertFirstKeepsModel DEF Known
  <2>4. Keeps(named, [d EXCEPT ![o.path] = other])
    BY <1>1, <1>4, ChangeKeepsModel DEF Known
  <2> QED
    BY <2>1, <2>2, <2>3, <2>4
<1>5. CASE o.op = "replace"
  <2> DEFINE other == [k \in DOMAIN d[o.path] |->
                         IF k > 1 /\ d[o.path][k] = o.from[1] THEN o.to[1] ELSE d[o.path][k]]
  <2>1. O!Applied(d, o) = IF o.path \notin DOMAIN d THEN d ELSE [d EXCEPT ![o.path] = other]
    BY <1>5 DEF O!Applied, O!Replaced
  <2> HIDE DEF other
  <2>2. Keeps(named, [d EXCEPT ![o.path] = other])
    BY <1>1, <1>5, ChangeKeepsModel DEF Known
  <2> QED
    BY <2>1, <2>2
<1>6. CASE o.op \in {"copy", "move"}
  <2>1. O!Applied(d, o) = IF o.from \notin DOMAIN d THEN d
                          ELSE IF o.op = "move" THEN O!Delete(O!Copied(d, o), o.from) ELSE O!Copied(d, o)
    BY <1>6 DEF O!Applied
  <2>2. Keeps(named, O!Copied(d, o))
    BY <1>1, <1>6, PutKeepsModel DEF Known, O!Copied
  <2>3. Keeps(named, O!Delete(O!Copied(d, o), o.from))
    <3> DEFINE e == O!Copied(d, o)
    <3>1. Keeps(named, e)
      BY <2>2
    <3> HIDE DEF e
    <3>2. Keeps(named, O!Delete(e, o.from))
      BY <1>1, <1>6, <3>1, DeleteKeepsModel DEF Known
    <3> QED
      BY <3>2 DEF e
  <2> QED
    BY <2>1, <2>2, <2>3
<1> QED
  BY <1>2, <1>3, <1>4, <1>5, <1>6 DEF Known

(* The first of the messages that are the system's is one of them.            *)
LEMMA SystemIsAPath ==
  ASSUME NEW d, O!SystemItems(d) # {}
  PROVE  /\ Append(O!FirstSystem(d), "content") \in Seq(KeysOfMaps)
         /\ Append(O!FirstSystem(d), "content") # <<>>
         /\ Append(O!FirstSystem(d), "content") # O!Model
<1> DEFINE n == O!Min(O!SystemItems(d))
           q == O!FirstSystem(d)
<1>1. n \in 1 .. 6
  <2>1. O!SystemItems(d) \subseteq 1 .. 6
    BY DEF O!SystemItems, O!Index
  <2>2. \A X \in SUBSET (1 .. 6) : X # {} => \E x \in X : \A y \in X : x <= y
    <3> SUFFICES ASSUME NEW X \in SUBSET (1 .. 6), X # {} PROVE \E x \in X : \A y \in X : x <= y
      OBVIOUS
    <3>1. CASE 1 \in X
      BY <3>1
    <3>2. CASE 1 \notin X /\ 2 \in X
      BY <3>2
    <3>3. CASE 1 \notin X /\ 2 \notin X /\ 3 \in X
      BY <3>3
    <3>4. CASE 1 \notin X /\ 2 \notin X /\ 3 \notin X /\ 4 \in X
      BY <3>4
    <3>6. CASE 1 \notin X /\ 2 \notin X /\ 3 \notin X /\ 4 \notin X /\ 5 \in X
      BY <3>6
    <3>7. CASE 1 \notin X /\ 2 \notin X /\ 3 \notin X /\ 4 \notin X /\ 5 \notin X /\ 6 \in X
      BY <3>7
    <3>5. 1 \in X \/ 2 \in X \/ 3 \in X \/ 4 \in X \/ 5 \in X \/ 6 \in X
      <4>1. PICK x \in X : TRUE
        OBVIOUS
      <4>2. x = 1 \/ x = 2 \/ x = 3 \/ x = 4 \/ x = 5 \/ x = 6
        BY <4>1
      <4> QED
        BY <4>1, <4>2
    <3> QED
      BY <3>1, <3>2, <3>3, <3>4, <3>5, <3>6, <3>7
  <2> QED
    BY <2>1, <2>2 DEF O!Min
<1>2. O!Index[n] \in KeysOfMaps
  BY <1>1 DEF O!Index, KeysOfMaps
<1>3. O!Messages \in Seq(KeysOfMaps) /\ Len(O!Messages) = 1 /\ "content" \in KeysOfMaps
  BY DEF O!Messages, KeysOfMaps
<1>4. q = Append(O!Messages, O!Index[n])
  BY DEF O!FirstSystem
<1>0. ASSUME NEW s \in Seq(KeysOfMaps), NEW x \in KeysOfMaps
      PROVE  Append(s, x) \in Seq(KeysOfMaps) /\ Len(Append(s, x)) = Len(s) + 1
  BY AppendProperties
<1>5. q \in Seq(KeysOfMaps) /\ Len(q) = 2
  <2>1. /\ Append(O!Messages, O!Index[n]) \in Seq(KeysOfMaps)
        /\ Len(Append(O!Messages, O!Index[n])) = Len(O!Messages) + 1
    BY <1>0, <1>2, <1>3
  <2> HIDE DEF n, q
  <2> QED
    BY <1>3, <1>4, <2>1
<1>6. Len(Append(q, "content")) = 3 /\ Append(q, "content") \in Seq(KeysOfMaps)
  <2> HIDE DEF q
  <2>1. Append(q, "content") \in Seq(KeysOfMaps) /\ Len(Append(q, "content")) = Len(q) + 1
    BY <1>0, <1>3, <1>5
  <2> QED
    BY <1>5, <2>1
<1>7. Len(O!Model) = 1 /\ Len(<<>>) = 0
  BY DEF O!Model
<1> QED
  BY <1>6, <1>7

(* Nor does the system prompt.                                                *)
LEMMA PromptedKeepsModel ==
  ASSUME NEW named \in BOOLEAN, NEW d, NEW how, Keeps(named, d)
  PROVE  Keeps(named, O!Prompted(d, how))
<1>1. /\ O!Messages \in Seq(KeysOfMaps) /\ O!Messages # <<>> /\ O!Messages # O!Model
      /\ O!System \in Seq(KeysOfMaps) /\ O!System # <<>> /\ O!System # O!Model
  BY DEF O!Messages, O!System, O!Model, KeysOfMaps
<1>2. Keeps(named, O!OpenAIPrompted(d, how))
  <2> DEFINE content == Append(O!FirstSystem(d), "content")
             other == O!Text(O!Prompt) \o Tail(d[content])
             leaf == O!Leaf(O!Text(O!Prompt))
  <2>1. O!OpenAIPrompted(d, how) =
          IF O!SystemItems(d) = {} THEN O!InsertFirst(d, O!Messages, O!SystemMessage)
          ELSE IF how = "if_absent" THEN d
          ELSE IF how = "prepend" /\ content \in DOMAIN d /\ O!IsText(d[content])
            THEN [d EXCEPT ![content] = other]
          ELSE O!Put(d, content, leaf)
    BY DEF O!OpenAIPrompted
  <2>2. Keeps(named, O!InsertFirst(d, O!Messages, O!SystemMessage))
    BY <1>1, InsertFirstKeepsModel
  <2>3. ASSUME O!SystemItems(d) # {}
        PROVE  Keeps(named, [d EXCEPT ![content] = other]) /\ Keeps(named, O!Put(d, content, leaf))
    <3>1. content \in Seq(KeysOfMaps) /\ content # <<>> /\ content # O!Model
      BY <2>3, SystemIsAPath
    <3> HIDE DEF content, other, leaf
    <3>2. Keeps(named, [d EXCEPT ![content] = other])
      BY <3>1, ChangeKeepsModel
    <3>3. Keeps(named, O!Put(d, content, leaf))
      BY <3>1, PutKeepsModel
    <3> QED
      BY <3>2, <3>3
  <2> HIDE DEF content, other, leaf
  <2> QED
    BY <2>1, <2>2, <2>3
<1>3. Keeps(named, O!Put(d, O!System, O!Leaf(O!Text(O!Prompt))))
  BY <1>1, PutKeepsModel
<1>4. Keeps(named, O!AnthropicPrompted(d, how))
  <2> DEFINE item == [q \in {<<>>, <<"text">>} |-> IF q = <<>> THEN O!Map ELSE O!Text(O!Prompt)]
             other == O!Text(O!Prompt) \o Tail(d[O!System])
             put == O!Put(d, O!System, O!Leaf(O!Text(O!Prompt)))
  <2>1. \/ O!AnthropicPrompted(d, how) = put
        \/ O!AnthropicPrompted(d, how) = d
        \/ O!AnthropicPrompted(d, how) = O!InsertFirst(d, O!System, item)
        \/ O!AnthropicPrompted(d, how) = [d EXCEPT ![O!System] = other]
    BY DEF O!AnthropicPrompted
  <2> HIDE DEF item, other, put
  <2>2. Keeps(named, O!InsertFirst(d, O!System, item))
    BY <1>1, InsertFirstKeepsModel
  <2>3. Keeps(named, [d EXCEPT ![O!System] = other])
    BY <1>1, ChangeKeepsModel
  <2>4. Keeps(named, put)
    BY <1>3 DEF put
  <2> QED
    BY <2>1, <2>2, <2>3, <2>4
<1>5. \/ O!Prompted(d, how) = d
      \/ O!Prompted(d, how) = O!OpenAIPrompted(d, how)
      \/ O!Prompted(d, how) = O!AnthropicPrompted(d, how)
      \/ O!Prompted(d, how) = O!Put(d, O!System, O!Leaf(O!Text(O!Prompt)))
  BY DEF O!Prompted
<1> QED
  BY <1>2, <1>3, <1>4, <1>5

(* Nor do the affinity rules, which write what they please on their way.      *)
LEMMA RulingKeepsModel ==
  ASSUME NEW d, NEW o \in Operations, Keeps(TRUE, d), o.path # <<>>
  PROVE  Keeps(TRUE, O!Ruling(d, o))
<1>1. CASE o.path = O!Model
  BY <1>1 DEF O!Ruling
<1>2. CASE o.path # O!Model
  <2> DEFINE p == o.path
             way == {SubSeq(p, 1, n) : n \in 1 .. Len(p) - 1}
             lost == UNION {O!Under(d, q) : q \in {r \in way \cap DOMAIN d : d[r] # O!Map}}
             e == [q \in DOMAIN d \ lost |-> d[q]]
             tree == O!Leaf(O!Text(o.value))
  <2>1. O!Ruling(d, o) = O!Put(e, p, tree)
    BY <1>2 DEF O!Ruling, O!PutMaps
  <2>2. p \in Seq(KeysOfMaps) /\ p # <<>> /\ p # O!Model
    BY <1>2, NamesArePaths DEF Operations, Paths
  <2>3. \A q \in way : q \in Seq(KeysOfMaps) /\ q # <<>>
    BY <2>2, OnTheWay
  <2>4. <<>> \notin lost
    BY <2>3, AboveTheModel DEF O!Under
  <2>5. Keeps(FALSE, e)
    BY <2>4 DEF Keeps
  <2>6. Keeps(FALSE, O!Put(e, p, tree))
    <3> HIDE DEF e, p, tree
    <3> QED
      BY <2>2, <2>5, PutKeepsModel
  <2>7. O!Model \in DOMAIN O!Put(e, p, tree)
    <3>1. O!Model \in DOMAIN e \/ O!Model \in way
      BY <2>3, AboveTheModel DEF O!Under, Keeps
    <3>2. DOMAIN O!Put(e, p, tree) = (DOMAIN e \ O!Under(e, p)) \cup way \cup {p \o r : r \in DOMAIN tree}
      BY DEF O!Put
    <3>3. O!Model \notin O!Under(e, p)
      BY <2>2, AboveTheModel DEF O!Under
    <3> HIDE DEF e, p, tree, way
    <3> QED
      BY <3>1, <3>2, <3>3
  <2> HIDE DEF e, p, tree
  <2> QED
    BY <2>1, <2>6, <2>7 DEF Keeps
<1> QED
  BY <1>1, <1>2

(* A place is a prefix of itself, with nothing left.                          *)
LEMMA PlaceItself ==
  ASSUME NEW p \in Seq(KeysOfMaps)
  PROVE  p \o <<>> = p /\ O!IsPrefix(p, p) /\ O!Rest(p, p) = <<>>
<1>1. p \o <<>> = p
  OBVIOUS
<1>2. O!IsPrefix(p, p)
  BY DEF O!IsPrefix
<1>3. SubSeq(p, Len(p) + 1, Len(p)) = <<>>
  BY SubSeqEmpty
<1> QED
  BY <1>1, <1>2, <1>3 DEF O!Rest

(* The model's own place is such a path.                                      *)
LEMMA ModelIsAPath == O!Model \in Seq(KeysOfMaps)
BY DEF O!Model, KeysOfMaps

(* What is put at the model's place is there.                                 *)
LEMMA ModelIsPut ==
  ASSUME NEW d, NEW r, r.model # "", O!Model \in DOMAIN d
  PROVE  LET e == O!WithModel(d, r) IN O!Model \in DOMAIN e /\ e[O!Model] = O!Text(r.model)
<1> DEFINE m == O!Model
           tree == O!Leaf(O!Text(r.model))
           way == {SubSeq(m, 1, n) : n \in 1 .. Len(m) - 1}
           dom == (DOMAIN d \ O!Under(d, m)) \cup way \cup {m \o x : x \in DOMAIN tree}
<1>1. O!WithModel(d, r) = O!Put(d, m, tree)
  BY Zenon DEF O!WithModel
<1>3. m \o <<>> = m /\ O!IsPrefix(m, m) /\ O!Rest(m, m) = <<>>
  BY ModelIsAPath, PlaceItself, Zenon
<1>4. <<>> \in DOMAIN tree /\ tree[<<>>] = O!Text(r.model)
  BY Zenon DEF O!Leaf
<1>5. O!Put(d, m, tree) =
        [q \in dom |-> IF O!IsPrefix(m, q) THEN tree[O!Rest(m, q)]
                       ELSE IF q \in way /\ (q \notin DOMAIN d \/ O!IsText(d[q])) THEN O!Map ELSE d[q]]
  BY Zenon DEF O!Put
<1>6. m \in dom
  BY <1>3, <1>4, Zenon
<1> HIDE DEF m, tree, way, dom
<1>7. m \in DOMAIN O!Put(d, m, tree) /\ O!Put(d, m, tree)[m] = O!Text(r.model)
  BY <1>3, <1>4, <1>5, <1>6, Zenon
<1> QED
  BY <1>1, <1>7, Zenon DEF m

(* The rules' fold, and the audit's.                                          *)
LEMMA RulesFold ==
  ASSUME NEW base, NEW s \in Seq(Operations), s = asking.settings.overrides
  PROVE  O!RuleOverridden(base) = Folded("rule", NoRoute, base, s, Len(s))
<1> DEFINE Rewriting(it) == [t \in SUBSET DOMAIN s |->
                    IF t = {} THEN base ELSE LET x == O!Max(t) IN O!Ruling(it[t \ {x}], s[x])]
           It == CHOOSE it : it = Rewriting(it)
           n == Len(s)
           Jt == CHOOSE it : IsFold("rule", NoRoute, base, s, n, it)
<1>1. O!RuleOverridden(base) = It[DOMAIN s]
  BY DEF O!RuleOverridden, O!FoldLeft, O!MapThenFoldSet
<1>2. DOMAIN s = 1 .. n /\ n \in Nat
  OBVIOUS
<1>3. ASSUME NEW it PROVE Rewriting(it) = Folding("rule", NoRoute, base, s, n, it)
  BY <1>2 DEF Folding, Step
<1>4. IsFold("rule", NoRoute, base, s, n, Jt)
  <2> HIDE DEF n
  <2> QED
    BY <1>2, FoldingExists
<1>5. It = Rewriting(It)
  <2>1. Jt = Rewriting(Jt)
    BY <1>3, <1>4 DEF IsFold
  <2> HIDE DEF Rewriting, Jt
  <2> QED
    BY <2>1
<1>6. IsFold("rule", NoRoute, base, s, n, It)
  <2> HIDE DEF It, Rewriting
  <2> QED
    BY <1>3, <1>5 DEF IsFold
<1>7. It[1 .. n] = Jt[1 .. n]
  <2> HIDE DEF It, Jt, n
  <2> QED
    BY <1>2, <1>4, <1>6, FoldingsAgree
<1>8. Jt[1 .. n] = Folded("rule", NoRoute, base, s, n)
  BY DEF Folded
<1> QED
  BY <1>1, <1>2, <1>7, <1>8

(* Recording the lines of the headers is a fold.                              *)
LEMMA LinesFold ==
  ASSUME NEW base, NEW s \in Seq(Operations)
  PROVE  O!FoldLeft(O!HeaderRecorded, base, s) = Folded("lines", NoRoute, base, s, Len(s))
<1> DEFINE Recording(it) == [t \in SUBSET DOMAIN s |->
                    IF t = {} THEN base ELSE LET x == O!Max(t) IN O!HeaderRecorded(it[t \ {x}], s[x])]
           It == CHOOSE it : it = Recording(it)
           n == Len(s)
           Jt == CHOOSE it : IsFold("lines", NoRoute, base, s, n, it)
<1>1. O!FoldLeft(O!HeaderRecorded, base, s) = It[DOMAIN s]
  BY DEF O!FoldLeft, O!MapThenFoldSet
<1>2. DOMAIN s = 1 .. n /\ n \in Nat
  OBVIOUS
<1>3. ASSUME NEW it PROVE Recording(it) = Folding("lines", NoRoute, base, s, n, it)
  BY <1>2 DEF Folding, Step
<1>4. IsFold("lines", NoRoute, base, s, n, Jt)
  <2> HIDE DEF n
  <2> QED
    BY <1>2, FoldingExists
<1>5. It = Recording(It)
  <2>1. Jt = Recording(Jt)
    BY <1>3, <1>4 DEF IsFold
  <2> HIDE DEF Recording, Jt
  <2> QED
    BY <2>1
<1>6. IsFold("lines", NoRoute, base, s, n, It)
  <2> HIDE DEF It, Recording
  <2> QED
    BY <1>3, <1>5 DEF IsFold
<1>7. It[1 .. n] = Jt[1 .. n]
  <2> HIDE DEF It, Jt, n
  <2> QED
    BY <1>2, <1>4, <1>6, FoldingsAgree
<1>8. Jt[1 .. n] = Folded("lines", NoRoute, base, s, n)
  BY DEF Folded
<1> QED
  BY <1>1, <1>2, <1>7, <1>8

(* After all rules the model is still named, as the first may not take it.    *)
LEMMA RulesKeepModel ==
  ASSUME asking.settings \in Globals, NEW d, Keeps(TRUE, d)
  PROVE  Keeps(TRUE, O!RuleOverridden(d))
<1> DEFINE s == asking.settings.overrides
           F(k) == Folded("rule", NoRoute, d, s, k)
           Q == {k \in Nat : k <= Len(s) => Keeps(TRUE, F(k))}
<1>1. s \in Seq(Operations) /\ \A k \in DOMAIN s : s[k].path # <<>>
  BY OverrideAssumption DEF OverridesWellFormed, Operations
<1>2. F(0) = d /\ \A n \in Nat : F(n + 1) = O!Ruling(F(n), s[n + 1])
  <2>1. GoesOn("rule", NoRoute, d, s)
    BY FoldGoesOn
  <2>2. \A y, o : Step("rule", NoRoute, y, o) = O!Ruling(y, o)
    BY DEF Step
  <2>3. F(0) = d /\ \A n \in Nat : F(n + 1) = Step("rule", NoRoute, F(n), s[n + 1])
    BY <2>1 DEF GoesOn
  <2> HIDE DEF F
  <2> QED
    BY <2>2, <2>3
<1>3. 0 \in Q
  BY <1>2
<1>7. Len(s) \in Nat /\ DOMAIN s = 1 .. Len(s) /\ \A k \in DOMAIN s : s[k] \in Operations
  BY <1>1
<1> HIDE DEF F
<1>4. ASSUME NEW k \in Nat, k \in Q PROVE k + 1 \in Q
  <2>1. ASSUME k + 1 <= Len(s) PROVE Keeps(TRUE, F(k + 1))
    <3>0. k <= Len(s) /\ k + 1 \in DOMAIN s
      BY <1>7, <2>1
    <3>1. Keeps(TRUE, F(k)) /\ k + 1 \in DOMAIN s
      BY <1>4, <3>0
    <3>2. Keeps(TRUE, O!Ruling(F(k), s[k + 1]))
      BY <1>1, <1>7, <3>1, RulingKeepsModel
    <3> QED
      BY <1>2, <3>2
  <2>2. k + 1 \in Nat
    OBVIOUS
  <2> QED
    BY <2>1, <2>2
<1>5. Nat \subseteq Q
  <2> HIDE DEF Q
  <2> QED
    BY <1>3, <1>4, Counting
<1>6. O!RuleOverridden(d) = F(Len(s))
  BY <1>1, RulesFold DEF F
<1>8. Len(s) \in Q /\ Len(s) <= Len(s)
  <2> HIDE DEF Q
  <2> QED
    BY <1>5, <1>7
<1> QED
  BY <1>6, <1>8

(* The lines of the audit: each once, and no more than there is room for.     *)
Told(x) == /\ \E X : x \in Seq(X)
           /\ Len(x) <= MaxLines
           /\ O!IsInjective(x)

Tells(x, said) == said \subseteq O!ToSet(x) \/ Len(x) = MaxLines

(* An audit with a line more tells that line too, or is full.                 *)
LEMMA RecordedTells ==
  ASSUME NEW x, NEW said, NEW line, Told(x), Tells(x, said)
  PROVE  LET y == O!Recorded(x, line) IN Told(y) /\ Tells(y, said \cup {line})
<1>1. PICK X : x \in Seq(X)
  BY DEF Told
<1>0. Len(x) \in Nat /\ MaxLines \in Nat
  BY <1>1, OverrideAssumption DEF OverridesWellFormed
<1>2. Len(x) \in Nat /\ DOMAIN x = 1 .. Len(x) /\ MaxLines \in Nat
  BY <1>0, <1>1
<1>6. Len(x) <= MaxLines
  BY DEF Told
<1>3. CASE Len(x) >= MaxLines
  <2>1. O!Recorded(x, line) = x /\ Len(x) = MaxLines
    <3>1. Len(x) = MaxLines
      BY <1>0, <1>3, <1>6
    <3> QED
      BY <1>3, <3>1 DEF O!Recorded
  <2> QED
    BY <2>1 DEF Tells
<1>4. CASE O!Contains(x, line)
  <2>1. O!Recorded(x, line) = x /\ line \in O!ToSet(x)
    BY <1>2, <1>4, Zenon DEF O!Recorded, O!Contains, O!ToSet
  <2> QED
    BY <2>1 DEF Tells
<1>5. CASE Len(x) < MaxLines /\ ~O!Contains(x, line)
  <2> DEFINE Y == X \cup {line}
             y == Append(x, line)
  <2>1. O!Recorded(x, line) = y
    <3>1. ~(Len(x) >= MaxLines)
      BY <1>2, <1>5
    <3> QED
      BY <1>5, <3>1 DEF O!Recorded
  <2>2. x \in Seq(Y) /\ line \in Y
    BY <1>1
  <2>3. /\ y \in Seq(Y) /\ Len(y) = Len(x) + 1 /\ y[Len(x) + 1] = line
        /\ \A i \in 1 .. Len(x) : y[i] = x[i]
    <3> HIDE DEF Y
    <3> QED
      BY <2>2, AppendProperties
  <2> HIDE DEF y, Y
  <2>4. DOMAIN y = 1 .. Len(x) + 1
    BY <2>3
  <2>5. O!IsInjective(y)
    <3>1. ASSUME NEW i \in 1 .. Len(x) + 1, NEW j \in 1 .. Len(x) + 1, y[i] = y[j]
          PROVE  i = j
      <4>1. \A k \in 1 .. Len(x) : x[k] # line
        BY <1>5 DEF O!Contains
      <4>2. \A k, l \in 1 .. Len(x) : x[k] = x[l] => k = l
        BY <1>2 DEF Told, O!IsInjective
      <4>3. CASE i = Len(x) + 1 /\ j = Len(x) + 1
        BY <4>3
      <4>4. CASE i \in 1 .. Len(x) /\ j \in 1 .. Len(x)
        BY <2>3, <3>1, <4>2, <4>4
      <4>5. CASE i \in 1 .. Len(x) /\ j = Len(x) + 1
        BY <2>3, <3>1, <4>1, <4>5
      <4>6. CASE i = Len(x) + 1 /\ j \in 1 .. Len(x)
        BY <2>3, <3>1, <4>1, <4>6
      <4> QED
        BY <1>2, <4>3, <4>4, <4>5, <4>6
    <3> QED
      BY <2>4, <3>1 DEF O!IsInjective
  <2>6. Told(y)
    BY <1>2, <1>5, <2>3, <2>5 DEF Told
  <2>7. said \subseteq O!ToSet(x)
    <3>1. Len(x) # MaxLines
      BY <1>0, <1>5
    <3> QED
      BY <3>1 DEF Tells
  <2>8. O!ToSet(x) \subseteq O!ToSet(y) /\ line \in O!ToSet(y)
    BY <1>2, <2>3, <2>4 DEF O!ToSet
  <2> QED
    BY <2>1, <2>6, <2>7, <2>8 DEF Tells
<1> QED
  BY <1>2, <1>3, <1>4, <1>5

(* The lines of the header operations, after all of them.                     *)
LEMMA HeadersTold ==
  ASSUME NEW x, NEW said, NEW s \in Seq(Operations), Told(x), Tells(x, said)
  PROVE  LET y == O!FoldLeft(O!HeaderRecorded, x, s)
         IN  /\ Told(y)
             /\ Tells(y, said \cup {O!Line(o) : o \in {p \in O!ToSet(s) : O!HeaderOp(p)}})
<1> DEFINE G(k) == Folded("lines", NoRoute, x, s, k)
           Of(k) == said \cup {O!Line(s[i]) : i \in {j \in 1 .. k : O!HeaderOp(s[j])}}
           Q == {k \in Nat : k <= Len(s) => Told(G(k)) /\ Tells(G(k), Of(k))}
<1>1. G(0) = x /\ \A n \in Nat : G(n + 1) = O!HeaderRecorded(G(n), s[n + 1])
  <2>1. \A y, o : Step("lines", NoRoute, y, o) = O!HeaderRecorded(y, o)
    BY DEF Step
  <2>2. G(0) = x /\ \A n \in Nat : G(n + 1) = Step("lines", NoRoute, G(n), s[n + 1])
    <3>1. GoesOn("lines", NoRoute, x, s)
      BY FoldGoesOn
    <3> QED
      BY <3>1 DEF GoesOn
  <2> HIDE DEF G
  <2> QED
    BY <2>1, <2>2
<1>2. Of(0) = said
  OBVIOUS
<1>3. 0 \in Q
  <2> HIDE DEF G, Of
  <2> QED
    BY <1>1, <1>2
<1>4. ASSUME NEW k \in Nat, k \in Q PROVE k + 1 \in Q
  <2> SUFFICES ASSUME k + 1 <= Len(s) PROVE Told(G(k + 1)) /\ Tells(G(k + 1), Of(k + 1))
    OBVIOUS
  <2>1. Told(G(k)) /\ Tells(G(k), Of(k))
    BY <1>4
  <2>2. CASE O!HeaderOp(s[k + 1])
    <3>1. G(k + 1) = O!Recorded(G(k), O!Line(s[k + 1]))
      BY <1>1, <2>2 DEF O!HeaderRecorded
    <3>2. Of(k + 1) = Of(k) \cup {O!Line(s[k + 1])}
      BY <2>2
    <3> HIDE DEF G, Of
    <3> QED
      BY <2>1, <3>1, <3>2, RecordedTells
  <2>3. CASE ~O!HeaderOp(s[k + 1])
    <3>1. G(k + 1) = G(k)
      BY <1>1, <2>3 DEF O!HeaderRecorded
    <3>2. Of(k + 1) = Of(k)
      BY <2>3
    <3> HIDE DEF G, Of
    <3> QED
      BY <2>1, <3>1, <3>2
  <2> QED
    BY <2>2, <2>3
<1>5. Nat \subseteq Q
  <2> HIDE DEF Q
  <2> QED
    BY <1>3, <1>4, Counting
<1>6. O!FoldLeft(O!HeaderRecorded, x, s) = G(Len(s))
  BY LinesFold
<1>7. Of(Len(s)) = said \cup {O!Line(o) : o \in {p \in O!ToSet(s) : O!HeaderOp(p)}}
  BY DEF O!ToSet
<1>8. Told(G(Len(s))) /\ Tells(G(Len(s)), Of(Len(s)))
  <2>1. Len(s) \in Q /\ Len(s) <= Len(s)
    <3> HIDE DEF Q
    <3> QED
      BY <1>5
  <2> HIDE DEF G, Of
  <2> QED
    BY <2>1
<1> HIDE DEF G, Of
<1> QED
  BY <1>6, <1>7, <1>8

-----------------------------------------------------------------------------
(* The attempts.                                                              *)

(* The model that has to stay named, as the route does not let it be changed. *)
Owed == ~route.allow /\ O!Model \in DOMAIN asking.body

Asked == asking.body \in Bodies /\ asking.settings \in Globals

Kept == history.given \in Histories /\ history.kept \in {history.given, O!Trimmed(history.given)}

(* What is done of an attempt is the beginning of its fold.                   *)
Begun == O!Prompted(asking.body, route.prompt)

Rewriting ==
  stage = "rewrite" =>
    /\ route \in Routes /\ ~O!Unparsable(route)
    /\ Keeps(Owed, doc)
    /\ \E k \in 0 .. Len(route.ops) :
         /\ todo = SubSeq(route.ops, k + 1, Len(route.ops))
         /\ doc = Folded("body", route, Begun, route.ops, k)

Auditing == Told(audit) /\ (stage \in {"rewrite", "sent", "answered"} => Tells(audit, lines))

(* What is sent is two folds and the route's model.                           *)
Sent ==
  stage = "sent" =>
    /\ route \in Routes
    /\ doc = O!WithModel(Folded("rule", NoRoute, Folded("body", route, Begun, route.ops, Len(route.ops)),
                               asking.settings.overrides, Len(asking.settings.overrides)),
                        route)

OverrideInv == /\ Asked /\ Kept /\ Rewriting /\ Auditing
               /\ Sent /\ O!RouteModelIsAsked /\ O!DroppedBetasAreDropped

(* The replay guard begins with nothing rewritten.                            *)
LEMMA OverrideInit == O!Init => OverrideInv
<1> SUFFICES ASSUME O!Init PROVE OverrideInv
  OBVIOUS
<1>1. Asked /\ Kept /\ stage = "read" /\ audit = <<>>
  BY DEF O!Init, Asked, Kept
<1>2. Told(<<>>)
  <2>1. <<>> \in Seq({}) /\ Len(<<>>) = 0 /\ DOMAIN <<>> = {} /\ 0 <= MaxLines
    BY OverrideAssumption DEF OverridesWellFormed
  <2> QED
    BY <2>1 DEF Told, O!IsInjective
<1> QED
  BY <1>1, <1>2 DEF OverrideInv, Rewriting, Auditing, Sent, O!RouteModelIsAsked,
                    O!DroppedBetasAreDropped

(* A step that leaves no attempt under way keeps the request and its audit.   *)
LEMMA BetweenAttempts ==
  ASSUME OverrideInv, UNCHANGED asking, Kept', UNCHANGED <<audit, lines>>,
         stage' \notin {"rewrite", "sent"}, stage' = "answered" => stage = "sent"
  PROVE  OverrideInv'
<1>1. Asked'
  BY DEF OverrideInv, Asked
<1>2. Told(audit)' /\ (stage' = "answered" => Tells(audit, lines)')
  BY DEF OverrideInv, Auditing, Told, Tells
<1>3. Auditing'
  BY <1>2 DEF Auditing
<1> QED
  BY <1>1, <1>3, Zenon DEF OverrideInv, Rewriting, Sent, O!RouteModelIsAsked,
                    O!DroppedBetasAreDropped

(* The guard's cut rewrites nothing.                                          *)
LEMMA GuardKeeps == OverrideInv /\ O!Guard => OverrideInv'
<1> SUFFICES ASSUME OverrideInv, O!Guard PROVE OverrideInv'
  OBVIOUS
<1>1. Kept'
  <2>1. history' = [history EXCEPT !.kept = O!Trimmed(history.given)]
    BY DEF O!Guard
  <2> QED
    BY <2>1 DEF OverrideInv, Kept
<1> QED
  BY <1>1, BetweenAttempts DEF O!Guard

(* An answer ends the attempt, and the audit stays.                           *)
LEMMA AnswersKeep ==
  ASSUME OverrideInv, NEW s, NEW text, O!TryAgain(s) \/ O!Answer(s, text) \/ O!GiveUp
  PROVE  OverrideInv'
<1>1. /\ UNCHANGED <<asking, history, audit, lines>>
      /\ stage' \notin {"rewrite", "sent"} /\ stage = "sent"
  BY DEF O!TryAgain, O!Answer, O!GiveUp
<1>2. Kept'
  BY <1>1 DEF OverrideInv, Kept
<1> QED
  BY <1>1, <1>2, BetweenAttempts

(* An attempt begins with the client's body and its own prompt.               *)
LEMMA AttemptKeeps ==
  ASSUME OverrideInv, NEW r \in Routes, O!Attempt(r)
  PROVE  OverrideInv'
<1> DEFINE d == O!Prompted(O!StartsFrom, r.prompt)
           base == O!Prompted(asking.body, r.prompt)
           said == IF d = O!StartsFrom THEN {} ELSE {O!PromptLine(r.prompt)}
<1>1. /\ UNCHANGED <<asking, history>>
      /\ route' = r /\ doc' = d /\ todo' = r.ops /\ lines' = said
      /\ audit' = IF said = {} THEN audit ELSE O!Recorded(audit, O!PromptLine(r.prompt))
      /\ stage' = IF O!Unparsable(r) THEN "refused" ELSE "rewrite"
  BY DEF O!Attempt
<1>2. Asked' /\ Kept'
  BY <1>1 DEF OverrideInv, Asked, Kept
<1>3. Auditing'
  <2>1. Told(audit) /\ Tells(audit, {})
    BY DEF OverrideInv, Auditing, Tells
  <2>2. Told(O!Recorded(audit, O!PromptLine(r.prompt))) /\ Tells(O!Recorded(audit, O!PromptLine(r.prompt)), {} \cup {O!PromptLine(r.prompt)})
    BY <2>1, RecordedTells
  <2>3. Told(audit') /\ Tells(audit', lines')
    <3>1. CASE d = O!StartsFrom
      <4>1. audit' = audit /\ lines' = {}
        BY <1>1, <3>1
      <4> QED
        BY <2>1, <4>1
    <3>2. CASE d # O!StartsFrom
      <4>1. audit' = O!Recorded(audit, O!PromptLine(r.prompt)) /\ lines' = {} \cup {O!PromptLine(r.prompt)}
        BY <1>1, <3>2
      <4> QED
        BY <2>2, <4>1
    <3> QED
      BY <3>1, <3>2
  <2> QED
    BY <2>3 DEF Auditing, Told, Tells
<1>4. Rewriting'
  <2> SUFFICES ASSUME ~O!Unparsable(r)
               PROVE  /\ Keeps(Owed', doc')
                      /\ \E k \in 0 .. Len(r.ops) :
                           /\ todo' = SubSeq(r.ops, k + 1, Len(r.ops))
                           /\ doc' = Folded("body", r, base, r.ops, k)
    BY <1>1 DEF Rewriting, Begun, O!Unparsable, Keeps
  <2>1. doc' = base
    BY <1>1 DEF O!StartsFrom
  <2>2. r.ops \in Seq(Operations)
    BY OverrideAssumption DEF OverridesWellFormed, Operations
  <2>3. SubSeq(r.ops, 0 + 1, Len(r.ops)) = r.ops /\ 0 \in 0 .. Len(r.ops)
    BY <2>2
  <2>4. base = Folded("body", r, base, r.ops, 0)
    BY FoldGoesOn DEF GoesOn
  <2>5. Keeps(Owed', asking.body)
    BY <1>1, OverrideAssumption DEF OverridesWellFormed, OverrideInv, Asked, Keeps, Owed
  <2>6. Keeps(Owed', base)
    <3>1. Owed' \in BOOLEAN
      BY DEF Owed
    <3> HIDE DEF base
    <3> QED
      BY <2>5, <3>1, PromptedKeepsModel DEF base
  <2> HIDE DEF base
  <2> QED
    BY <1>1, <2>1, <2>3, <2>4, <2>6
<1> QED
  BY <1>1, <1>2, <1>3, <1>4, Zenon DEF OverrideInv, Sent, O!RouteModelIsAsked,
                                O!DroppedBetasAreDropped

(* What is left of a sequence, and what comes first of it.                    *)
LEMMA LeftOf ==
  ASSUME NEW X, NEW s \in Seq(X), NEW k \in 0 .. Len(s)
  PROVE  /\ SubSeq(s, k + 1, Len(s)) = <<>> => k = Len(s)
         /\ SubSeq(s, k + 1, Len(s)) # <<>> =>
              /\ k + 1 \in 1 .. Len(s)
              /\ Head(SubSeq(s, k + 1, Len(s))) = s[k + 1]
              /\ Tail(SubSeq(s, k + 1, Len(s))) = SubSeq(s, (k + 1) + 1, Len(s))
<1> DEFINE t == SubSeq(s, k + 1, Len(s))
<1>1. t \in Seq(X) /\ Len(t) = Len(s) - k /\ \A i \in 1 .. Len(t) : t[i] = s[k + i]
  <2> DEFINE m == k + 1
             n == Len(s)
             u == SubSeq(s, m, n)
  <2>1. /\ m \in Int /\ n \in Int /\ k \in Int /\ m <= n + 1 /\ m >= 1 /\ n - m + 1 = n - k
        /\ \A i \in m .. n : s[i] \in X
    OBVIOUS
  <2>2. \A i \in Int : m + i - 1 = k + i
    OBVIOUS
  <2> HIDE DEF m, n
  <2>3. /\ u \in Seq(X) /\ Len(u) = (IF m <= n THEN n - m + 1 ELSE 0)
        /\ \A i \in 1 .. n - m + 1 : u[i] = s[m + i - 1]
    BY <2>1, SubSeqProperties
  <2>4. u = t /\ n = Len(s)
    BY DEF m, n
  <2> HIDE DEF u, t
  <2>5. Len(u) = n - k
    BY <2>1, <2>3
  <2>6. \A i \in 1 .. n - k : u[i] = s[k + i]
    <3> SUFFICES ASSUME NEW i \in 1 .. n - k PROVE u[i] = s[k + i]
      OBVIOUS
    <3>1. i \in 1 .. n - m + 1 /\ i \in Int
      BY <2>1
    <3>2. u[i] = s[m + i - 1] /\ m + i - 1 = k + i
      BY <2>2, <2>3, <3>1, Zenon
    <3> QED BY <3>2
  <2> QED BY <2>3, <2>4, <2>5, <2>6
<1>2. t = <<>> => k = Len(s)
  <2> SUFFICES ASSUME t = <<>> PROVE k = Len(s)
    OBVIOUS
  <2>1. Len(t) = 0
    <3> HIDE DEF t
    <3> QED
      OBVIOUS
  <2> QED
    BY <1>1, <2>1
<1>3. ASSUME t # <<>>
      PROVE  /\ k + 1 \in 1 .. Len(s)
             /\ Head(t) = s[k + 1]
             /\ Tail(t) = SubSeq(s, (k + 1) + 1, Len(s))
  <2>1. Len(t) # 0
    <3> HIDE DEF t
    <3> QED
      BY <1>1, <1>3
  <2>2. k + 1 \in 1 .. Len(s)
    BY <1>1, <2>1
  <2>3. Head(t) = s[k + 1]
    <3> HIDE DEF t
    <3> QED
      BY <1>1, <1>3, <2>1
  <2> DEFINE u == SubSeq(s, (k + 1) + 1, Len(s))
  <2>4. u \in Seq(X) /\ Len(u) = Len(s) - (k + 1) /\ \A i \in 1 .. Len(u) : u[i] = s[k + 1 + i]
    BY <2>2
  <2>5. /\ Tail(t) \in Seq(X) /\ Len(Tail(t)) = Len(t) - 1
        /\ \A i \in 1 .. Len(Tail(t)) : Tail(t)[i] = t[i + 1]
    <3> HIDE DEF t
    <3> QED
      BY <1>1, <1>3, <2>1
  <2>6. Tail(t) = u
    <3> HIDE DEF t, u
    <3>1. Len(Tail(t)) = Len(u)
      BY <1>1, <2>4, <2>5
    <3>2. \A i \in 1 .. Len(u) : Tail(t)[i] = u[i]
      BY <1>1, <2>4, <2>5, <3>1
    <3> QED
      BY <2>4, <2>5, <3>1, <3>2, SeqEqual
  <2> QED
    BY <2>2, <2>3, <2>6
<1> QED
  BY <1>2, <1>3

(* A known operation of a route that can be parsed.                           *)
LEMMA OperationsAreKnown ==
  ASSUME NEW r \in Routes, ~O!Unparsable(r), NEW k \in 1 .. Len(r.ops), ~O!HeaderOp(r.ops[k])
  PROVE  r.ops[k] \in Operations /\ Known(r.ops[k])
<1>1. r.ops \in Seq(Operations) /\ k \in DOMAIN r.ops
  BY OverrideAssumption DEF OverridesWellFormed, Operations
<1>2. ~O!Unsupported(r.ops[k])
  BY <1>1 DEF O!Unparsable
<1>3. \A j \in DOMAIN r.ops : O!HeaderOp(r.ops[j]) \/ O!Unsupported(r.ops[j]) \/ Known(r.ops[j])
  BY OverrideAssumption DEF OverridesWellFormed, Known
<1> QED
  BY <1>1, <1>2, <1>3

(* One operation more, or the end of the request.                             *)
LEMMA ApplyKeeps == OverrideInv /\ O!Apply => OverrideInv'
<1> SUFFICES ASSUME OverrideInv, O!Apply PROVE OverrideInv'
  OBVIOUS
<1> DEFINE ops == route.ops
           o == Head(todo)
<1>1. /\ stage = "rewrite" /\ todo # <<>>
      /\ UNCHANGED <<history, asking, route>>
  BY DEF O!Apply
<1>2. Asked' /\ Kept'
  BY <1>1 DEF OverrideInv, Asked, Kept
<1>3. /\ route \in Routes /\ ~O!Unparsable(route) /\ Keeps(Owed, doc)
      /\ Told(audit) /\ Tells(audit, lines)
  BY <1>1 DEF OverrideInv, Rewriting, Auditing
<1>4. PICK k \in 0 .. Len(ops) : /\ todo = SubSeq(ops, k + 1, Len(ops))
                                 /\ doc = Folded("body", route, Begun, ops, k)
  BY <1>1 DEF OverrideInv, Rewriting
<1>5. ops \in Seq(Operations)
  BY <1>3, OverrideAssumption DEF OverridesWellFormed, Operations
<1>6. k + 1 \in 1 .. Len(ops) /\ o = ops[k + 1] /\ Tail(todo) = SubSeq(ops, (k + 1) + 1, Len(ops))
  <2> HIDE DEF ops
  <2> QED
    BY <1>1, <1>4, <1>5, LeftOf
<1>7. Folded("body", route, Begun, ops, k + 1) = IF O!Skipped(route, o) THEN doc ELSE O!Applied(doc, o)
  <2>1. GoesOn("body", route, Begun, ops)
    BY FoldGoesOn
  <2>2. Folded("body", route, Begun, ops, k + 1) = Step("body", route, doc, o)
    <3> HIDE DEF ops, o
    <3> QED
      BY <1>4, <1>6, <2>1 DEF GoesOn
  <2> QED
    BY <2>2 DEF Step
<1>8. ASSUME stage' = "rewrite", todo' = Tail(todo), doc' = Folded("body", route, Begun, ops, k + 1),
             Keeps(Owed, doc'), Told(audit'), Tells(audit', lines')
      PROVE  OverrideInv'
  <2>1. Auditing'
    BY <1>8 DEF Auditing, Told, Tells
  <2>2. Begun' = Begun /\ Owed' = Owed
    BY <1>1 DEF Begun, Owed
  <2>3. ~O!Unparsable(route)'
    BY <1>1, <1>3 DEF O!Unparsable, O!Unsupported
  <2>4. k + 1 \in 0 .. Len(ops)
    BY <1>6
  <2>5. \E j \in 0 .. Len(ops) : /\ todo' = SubSeq(ops, j + 1, Len(ops))
                                 /\ doc' = Folded("body", route, Begun, ops, j)
    <3> HIDE DEF ops
    <3> QED
      BY <1>6, <1>8, <2>4
  <2>6. Keeps(Owed', doc')
    BY <1>8, <2>2
  <2>7. Rewriting'
    BY <1>1, <1>3, <2>2, <2>3, <2>5, <2>6 DEF Rewriting, Keeps
  <2> QED
    BY <1>2, <1>8, <2>1, <2>7, Zenon DEF OverrideInv, Sent, O!RouteModelIsAsked,
                                  O!DroppedBetasAreDropped
<1>9. CASE O!Skipped(route, o) /\ todo' = Tail(todo) /\ UNCHANGED <<doc, audit, lines, stage>>
  BY <1>1, <1>3, <1>7, <1>8, <1>9
<1>10. CASE stage' = "refused" /\ UNCHANGED <<doc, todo, audit, lines>>
  BY <1>1, <1>2, <1>10, BetweenAttempts
<1>11. CASE /\ ~O!Skipped(route, o)
            /\ doc' = O!Applied(doc, o) /\ todo' = Tail(todo)
            /\ audit' = IF O!Audited(o) THEN O!Recorded(audit, O!Line(o)) ELSE audit
            /\ lines' = IF O!Audited(o) THEN lines \cup {O!Line(o)} ELSE lines
            /\ UNCHANGED stage
  <2>1. Keeps(Owed, O!Applied(doc, o))
    <3>1. o \in Operations /\ Known(o)
      BY <1>3, <1>6, <1>11, OperationsAreKnown DEF O!Skipped
    <3>2. Owed => ~O!TouchesModel(o)
      BY <1>11 DEF Owed, O!Skipped
    <3>3. Owed \in BOOLEAN
      BY DEF Owed
    <3> HIDE DEF o
    <3> QED
      BY <1>3, <3>1, <3>2, <3>3, AppliedKeepsModel
  <2>2. Told(audit') /\ Tells(audit', lines')
    <3>1. Told(O!Recorded(audit, O!Line(o))) /\ Tells(O!Recorded(audit, O!Line(o)), lines \cup {O!Line(o)})
      BY <1>3, RecordedTells
    <3> HIDE DEF o
    <3> QED
      BY <1>3, <1>11, <3>1
  <2> QED
    BY <1>1, <1>7, <1>8, <1>11, <2>1, <2>2
<1> QED
  BY <1>9, <1>10, <1>11 DEF O!Apply

(* What is sent is the whole fold, what the rules write and the route's model.*)
LEMMA SendKeeps == OverrideInv /\ O!Send => OverrideInv'
<1> SUFFICES ASSUME OverrideInv, O!Send PROVE OverrideInv'
  OBVIOUS
<1> DEFINE ops == route.ops
           ruled == O!RuleOverridden(doc)
<1>1. /\ stage = "rewrite" /\ todo = <<>> /\ stage' = "sent"
      /\ UNCHANGED <<history, asking, route>>
      /\ doc' = O!WithModel(ruled, route)
      /\ header' = O!UpstreamHeader(route)
      /\ audit' = O!FoldLeft(O!HeaderRecorded, audit, ops)
      /\ lines' = lines \cup {O!Line(o) : o \in {p \in O!ToSet(ops) : O!HeaderOp(p)}}
  BY DEF O!Send
<1>2. Asked' /\ Kept'
  BY <1>1 DEF OverrideInv, Asked, Kept
<1>3. /\ route \in Routes /\ ~O!Unparsable(route) /\ Keeps(Owed, doc)
      /\ Told(audit) /\ Tells(audit, lines) /\ asking.settings \in Globals
  BY <1>1 DEF OverrideInv, Rewriting, Auditing, Asked
<1>4. PICK k \in 0 .. Len(ops) : /\ todo = SubSeq(ops, k + 1, Len(ops))
                                 /\ doc = Folded("body", route, Begun, ops, k)
  BY <1>1 DEF OverrideInv, Rewriting
<1>5. ops \in Seq(Operations)
  BY <1>3, OverrideAssumption DEF OverridesWellFormed, Operations
<1>6. doc = Folded("body", route, Begun, ops, Len(ops))
  <2> HIDE DEF ops
  <2>1. k = Len(ops)
    BY <1>1, <1>4, <1>5, LeftOf
  <2> QED
    BY <1>4, <2>1
<1>7. Sent'
  <2> DEFINE rules == asking.settings.overrides
             all == Folded("rule", NoRoute, Folded("body", route, Begun, ops, Len(ops)), rules, Len(rules))
  <2>1. rules \in Seq(Operations)
    BY <1>3, OverrideAssumption DEF OverridesWellFormed, Operations
  <2>2. ruled = all
    BY <1>6, <2>1, RulesFold
  <2>3. all' = all
    BY <1>1 DEF Begun
  <2>4. doc' = O!WithModel(all', route')
    <3> HIDE DEF all, ruled
    <3> QED
      BY <1>1, <2>2, <2>3
  <2> QED
    BY <1>1, <1>3, <2>4 DEF Sent
<1>8. O!RouteModelIsAsked'
  <2> SUFFICES ASSUME Owed, route.model # ""
               PROVE  O!Model \in DOMAIN doc' /\ doc'[O!Model] = O!Text(route.model)
    BY <1>1, Zenon DEF O!RouteModelIsAsked, Owed
  <2>1. Keeps(TRUE, doc)
    BY <1>3, Zenon DEF Keeps
  <2>2. Keeps(TRUE, ruled)
    BY <1>3, <2>1, RulesKeepModel, Zenon
  <2>3. O!Model \in DOMAIN ruled
    BY <2>2, Zenon DEF Keeps
  <2> HIDE DEF ruled
  <2> QED
    BY <1>1, <2>3, ModelIsPut, Zenon
<1>9. O!DroppedBetasAreDropped'
  BY <1>1 DEF O!DroppedBetasAreDropped, O!UpstreamHeader, O!BetasLeft, O!HeaderNames
<1>10. Auditing'
  <2>1. Told(audit') /\ Tells(audit', lines')
    BY <1>1, <1>3, <1>5, HeadersTold
  <2> QED
    BY <2>1 DEF Auditing, Told, Tells
<1> QED
  BY <1>1, <1>2, <1>7, <1>8, <1>9, <1>10 DEF OverrideInv, Rewriting

(* Every step keeps what is true of the attempts.                             *)
LEMMA OverrideNext == OverrideInv /\ O!Next => OverrideInv'
BY GuardKeeps, AnswersKeep, AttemptKeeps, ApplyKeeps, SendKeeps DEF O!Next

(* So do the steps of other parts.                                            *)
LEMMA OverrideStays == OverrideInv /\ UNCHANGED overrideVars => OverrideInv'
<1> SUFFICES ASSUME OverrideInv, UNCHANGED overrideVars PROVE OverrideInv'
  OBVIOUS
<1>1. UNCHANGED <<history, asking, route, stage, doc, todo, header, audit, lines>>
  BY DEF overrideVars
<1>2. Begun' = Begun /\ Owed' = Owed
  BY <1>1 DEF Begun, Owed
<1>3. Asked' /\ Kept' /\ Auditing'
  BY <1>1 DEF OverrideInv, Asked, Kept, Auditing, Told, Tells
<1>4. Rewriting'
  BY <1>1, <1>2 DEF OverrideInv, Rewriting, O!Unparsable, O!Unsupported, Keeps
<1>5. Sent'
  BY <1>1, <1>2, Zenon DEF OverrideInv, Sent, O!WithModel
<1>6. O!RouteModelIsAsked' /\ O!DroppedBetasAreDropped'
  BY <1>1, Zenon DEF OverrideInv, O!RouteModelIsAsked, O!DroppedBetasAreDropped
<1> QED
  BY <1>3, <1>4, <1>5, <1>6 DEF OverrideInv

-----------------------------------------------------------------------------
(* What holds of an attempt that is sent, and of a history that is kept.      *)

(* The whole of an attempt, as the folds of its operations and of the rules.  *)
LEMMA SentIsAfresh == OverrideInv => O!RetriesStartAfresh
<1> SUFFICES ASSUME OverrideInv, stage = "sent"
             PROVE  LET Done(d, o) == IF O!Skipped(route, o) THEN d ELSE O!Applied(d, o)
                    IN  doc = O!WithModel(O!RuleOverridden(O!FoldLeft(Done, Begun, route.ops)), route)
  BY DEF O!RetriesStartAfresh, Begun, O!FoldLeft, O!MapThenFoldSet
<1> DEFINE body == Folded("body", route, Begun, route.ops, Len(route.ops))
           rules == asking.settings.overrides
<1>1. /\ route.ops \in Seq(Operations) /\ rules \in Seq(Operations)
      /\ doc = O!WithModel(Folded("rule", NoRoute, body, rules, Len(rules)), route)
  BY OverrideAssumption DEF OverridesWellFormed, OverrideInv, Sent, Asked, Operations
<1>2. O!RuleOverridden(body) = Folded("rule", NoRoute, body, rules, Len(rules))
  BY <1>1, RulesFold
<1>3. O!FoldLeft(LAMBDA d, o : IF O!Skipped(route, o) THEN d ELSE O!Applied(d, o), Begun, route.ops) = body
  BY <1>1, BodyFolds, Zenon
<1> HIDE DEF body
<1> QED
  BY <1>1, <1>2, <1>3, Zenon

(* The guard goes back to an item that needs none before it.                  *)
LEMMA BackIs ==
  ASSUME NEW items, NEW n \in Nat, n >= 1
  PROVE  /\ O!Back(items, n) \in 1 .. n
         /\ O!Back(items, n) = 1 \/ ~O!NeedsPrevious(items[O!Back(items, n)])
<1> DEFINE X == {m \in 1 .. n : m = 1 \/ ~O!NeedsPrevious(items[m])}
<1>1. 1 \in X /\ X \in SUBSET (1 .. n)
  OBVIOUS
<1>2. PICK m \in X : \A y \in X : y <= m
  <2> HIDE DEF X
  <2> QED
    BY <1>1, GreatestExists
<1>3. m \in 1 .. n /\ (m = 1 \/ ~O!NeedsPrevious(items[m]))
  OBVIOUS
<1>4. ASSUME NEW k \in m + 1 .. n PROVE O!NeedsPrevious(items[k])
  <2>1. k \in 1 .. n /\ ~(k <= m)
    BY <1>3
  <2>2. k \notin X
    BY <1>2, <2>1
  <2> QED
    BY <2>1, <2>2
<1>5. \E j \in 1 .. n : /\ j = 1 \/ ~O!NeedsPrevious(items[j])
                        /\ \A k \in j + 1 .. n : O!NeedsPrevious(items[k])
  BY <1>3, <1>4
<1> QED
  BY <1>5 DEF O!Back

(* The guard goes back over the pairs to one that needs no item before it.    *)
LEMMA BackPairsIs ==
  ASSUME NEW items, NEW n \in Nat, n >= 1
  PROVE  LET b == O!BackPairs(items, n)
         IN  /\ b \in 1 .. n
             /\ b = 1 \/ ~O!PairNeedsPrevious(items[b - 1], items[b])
             /\ \A k \in b + 1 .. n : O!PairNeedsPrevious(items[k - 1], items[k])
<1> DEFINE X == {m \in 1 .. n : m = 1 \/ ~O!PairNeedsPrevious(items[m - 1], items[m])}
<1>1. 1 \in X /\ X \in SUBSET (1 .. n)
  OBVIOUS
<1>2. PICK m \in X : \A y \in X : y <= m
  <2> HIDE DEF X
  <2> QED
    BY <1>1, GreatestExists
<1>3. m \in 1 .. n /\ (m = 1 \/ ~O!PairNeedsPrevious(items[m - 1], items[m]))
  OBVIOUS
<1>4. ASSUME NEW k \in m + 1 .. n PROVE O!PairNeedsPrevious(items[k - 1], items[k])
  <2>1. k \in 1 .. n /\ ~(k <= m)
    BY <1>3
  <2>2. k \notin X
    BY <1>2, <2>1
  <2> QED
    BY <2>1, <2>2
<1>5. \E j \in 1 .. n : /\ j = 1 \/ ~O!PairNeedsPrevious(items[j - 1], items[j])
                        /\ \A k \in j + 1 .. n : O!PairNeedsPrevious(items[k - 1], items[k])
  BY <1>3, <1>4
<1> QED
  BY <1>5 DEF O!BackPairs

(* What the guard leaves is the end of the items, as many as it may keep or   *)
(* more, and it stops neither between two answers nor behind their call.      *)
LEMMA TrimmedIs ==
  ASSUME NEW items \in Histories
  PROVE  LET cut == Len(items) - Len(O!Trimmed(items))
         IN  /\ cut \in 0 .. Len(items)
             /\ O!Trimmed(items) = SubSeq(items, cut + 1, Len(items))
             /\ cut > 0 => Len(O!Trimmed(items)) >= MaxItems
             /\ \A c \in 1 .. cut, a \in cut + 1 .. Len(items) :
                  items[c].kind = "calls" => \E k \in c + 1 .. a : items[k].kind # "answers"
<1> DEFINE len == Len(items)
           n == len - MaxItems + 1
           b == O!Back(items, n)
           m == O!BackPairs(items, b)
           kept == SubSeq(items, m, len)
<1>1. /\ len \in Nat /\ MaxItems \in Nat /\ MaxItems >= 1
      /\ items \in Seq([kind : {"plain", "calls", "answers"}, ids : SUBSET Nat])
  BY OverrideAssumption DEF OverridesWellFormed
<1>2. CASE len <= MaxItems
  <2>1. O!Trimmed(items) = items
    BY <1>2 DEF O!Trimmed
  <2>2. len - Len(O!Trimmed(items)) = 0 /\ SubSeq(items, 1, len) = items
    BY <1>1, <2>1
  <2> QED
    BY <1>1, <2>1, <2>2
<1>3. CASE ~(len <= MaxItems)
  <2>1. O!Trimmed(items) = kept
    BY <1>3 DEF O!Trimmed
  <2>2. n \in Nat /\ n >= 1 /\ n <= len
    BY <1>1, <1>3
  <2>3. b \in 1 .. n /\ (b = 1 \/ ~O!NeedsPrevious(items[b]))
    <3> HIDE DEF n
    <3> QED
      BY <2>2, BackIs
  <2>4. b \in Nat /\ b >= 1 /\ b <= len
    <3> HIDE DEF b
    <3> QED
      BY <1>1, <2>2, <2>3
  <2>5. /\ m \in 1 .. b
        /\ m = 1 \/ ~O!PairNeedsPrevious(items[m - 1], items[m])
        /\ \A k \in m + 1 .. b : O!PairNeedsPrevious(items[k - 1], items[k])
    <3> HIDE DEF b
    <3> QED
      BY <2>4, BackPairsIs
  <2> HIDE DEF b, m
  <2>6. m \in Nat /\ m >= 1 /\ m <= len /\ len - m + 1 >= MaxItems
    BY <1>1, <2>3, <2>4, <2>5
  <2>7. Len(kept) = len - m + 1
    BY <1>1, <2>6
  <2>8. m = 1 \/ ~O!NeedsPrevious(items[m])
    <3> SUFFICES ASSUME m # 1, O!NeedsPrevious(items[m]) PROVE FALSE
      OBVIOUS
    <3>1. b # m
      BY <2>3
    <3>2. m + 1 \in m + 1 .. b /\ (m + 1) - 1 = m
      BY <2>4, <2>5, <2>6, <3>1
    <3>3. O!PairNeedsPrevious(items[m], items[m + 1])
      BY <2>5, <3>2
    <3> QED
      BY <3>3 DEF O!PairNeedsPrevious, O!NeedsPrevious
  <2> HIDE DEF kept
  <2>9. len - Len(O!Trimmed(items)) = m - 1 /\ (m - 1) + 1 = m
    BY <1>1, <2>1, <2>6, <2>7
  <2>10. ASSUME NEW c \in 1 .. m - 1, NEW a \in m .. len
         PROVE  \E k \in c + 1 .. a : items[k].kind # "answers"
    <3>1. m \in c + 1 .. a /\ m # 1
      BY <1>1, <2>6
    <3> QED
      BY <2>8, <3>1 DEF O!NeedsPrevious
  <2>11. m - 1 \in 0 .. len /\ Len(kept) >= MaxItems
    BY <1>1, <2>6, <2>7
  <2> QED
    BY <2>1, <2>9, <2>10, <2>11 DEF kept
<1> QED
  BY <1>2, <1>3

(* So it is with what the request keeps, which is all of it before the guard.  *)
LEMMA KeptIsTheEnd == OverrideInv => O!CutsSpareTheLastCall
<1> SUFFICES ASSUME OverrideInv PROVE O!CutsSpareTheLastCall
  OBVIOUS
<1>1. history.given \in Histories /\ history.kept \in {history.given, O!Trimmed(history.given)}
  BY DEF OverrideInv, Kept
<1>2. CASE history.kept = history.given
  <2>1. history.given \in Seq([kind : {"plain", "calls", "answers"}, ids : SUBSET Nat])
    BY <1>1, OverrideAssumption DEF OverridesWellFormed
  <2>2. /\ Len(history.given) \in Nat
        /\ Len(history.given) - Len(history.kept) = 0
        /\ SubSeq(history.given, 1, Len(history.given)) = history.given
    BY <1>2, <2>1
  <2> QED
    BY <1>2, <2>2 DEF O!CutsSpareTheLastCall
<1>3. CASE history.kept = O!Trimmed(history.given)
  BY <1>1, <1>3, TrimmedIs DEF O!CutsSpareTheLastCall
<1> QED
  BY <1>1, <1>2, <1>3

(* The audit names what was done, each line once.                             *)
LEMMA AuditIsTold == OverrideInv => O!AuditTellsWhatWasDone
BY DEF OverrideInv, Auditing, Told, Tells, O!AuditTellsWhatWasDone

(* What was to be shown of the attempts.                                      *)
LEMMA OverrideInvIsFresh ==
  OverrideInv => /\ O!RetriesStartAfresh /\ O!AuditTellsWhatWasDone
                 /\ O!RouteModelIsAsked /\ O!DroppedBetasAreDropped
                 /\ O!CutsSpareTheLastCall
BY SentIsAfresh, AuditIsTold, KeptIsTheEnd DEF OverrideInv

-----------------------------------------------------------------------------
(* From the parts to the relay: a step of a part is one of its own module,    *)
(* and the others do not run.                                                 *)
RelayInv == /\ part = "stream" => StreamInv
            /\ part = "session" => SessionInv
            /\ part = "setting" => SettingInv
            /\ part = "override" => OverrideInv
            /\ part = "answer" => AnswerInv
            /\ part = "request" => RequestInv

(* Whatever part is drawn begins with its own invariant.                      *)
LEMMA RelayInvInit == Init => RelayInv
BY StreamInit, SessionInit, SettingInit, OverrideInit, AnswerInit, RequestInit DEF Init, RelayInv

(* The part that runs keeps its invariant, and the others say nothing.        *)
LEMMA RelayInvNext == RelayInv /\ [Next]_vars => RelayInv'
<1> SUFFICES ASSUME RelayInv, [Next]_vars PROVE RelayInv'
  OBVIOUS
<1>1. UNCHANGED part
  BY DEF Next, Session, vars
<1>2. ASSUME part = "stream" PROVE StreamInv'
  <2>1. R!Next \/ UNCHANGED streamVars
    BY <1>2 DEF Next, Session, vars
  <2> QED BY <1>2, <2>1, StreamNext, StreamStays DEF RelayInv
<1>3. ASSUME part = "session" PROVE SessionInv'
  <2>1. W!Next \/ UNCHANGED sessionVars
    BY <1>3 DEF Next, Session, vars
  <2> QED BY <1>3, <2>1, SessionNext, SessionStays DEF RelayInv
<1>4. ASSUME part = "setting" PROVE SettingInv'
  <2>1. S!Next \/ UNCHANGED settingVars
    BY <1>4 DEF Next, Session, vars
  <2> QED BY <1>4, <2>1, SettingNext, SettingStays DEF RelayInv
<1>5. ASSUME part = "override" PROVE OverrideInv'
  <2>1. O!Next \/ UNCHANGED overrideVars
    BY <1>5 DEF Next, Session, vars
  <2> QED BY <1>5, <2>1, OverrideNext, OverrideStays DEF RelayInv
<1>6. ASSUME part = "answer" PROVE AnswerInv'
  <2>1. T!Next \/ UNCHANGED answerVars
    BY <1>6 DEF Next, Session, vars
  <2> QED BY <1>6, <2>1, AnswerNext, AnswerStays DEF RelayInv
<1>7. ASSUME part = "request" PROVE RequestInv'
  <2>1. C!Next \/ UNCHANGED requestVars
    BY <1>7 DEF Next, Session, vars
  <2> QED BY <1>7, <2>1, RequestNext, RequestStays DEF RelayInv
<1> QED BY <1>1, <1>2, <1>3, <1>4, <1>5, <1>6, <1>7 DEF RelayInv

(* Whatever part runs keeps to its invariant at every step of its handlers,   *)
(* its goroutines and its clients.                                            *)
THEOREM RelayStaysSound == Spec => []RelayInv
BY RelayInvInit, RelayInvNext, PTL DEF Spec

(* However many events an answer has and however often it is asked for, a     *)
(* streaming client sees one answer: events in order and once, not cut by a   *)
(* keep-alive or an error, and metered when they are sent whole               *)
(* (streamUpstream, streamCommitWriter, copyStreamAndMeterForRoute).          *)
THEOREM StreamStaysOneAnswer == Spec => []StreamIsOneAnswer
<1>1. RelayInv => StreamIsOneAnswer
  BY StreamInvIsOne DEF RelayInv, StreamIsOneAnswer
<1> QED BY <1>1, RelayStaysSound, PTL

(* Nothing is written once streamWriter.Close has returned, wherever the      *)
(* keep-alive goroutine is then (startKeepAliveLocked, Close).                *)
THEOREM ClosedStaysSilent == Spec => SilentAfterClose
<1>1. ASSUME RelayInv, [Next]_vars
      PROVE  [(pc \in {"closed", "end"}) => (client' = client)]_(R!vars)
  <2>1. (part = "stream" /\ R!Next) \/ UNCHANGED R!vars
    BY <1>1 DEF Next, Session, vars, streamVars, R!vars, R!copyVars, R!writerVars
  <2> QED BY <1>1, <2>1, ClosedIsSilent DEF RelayInv
<1> QED BY <1>1, RelayStaysSound, PTL DEF Spec, SilentAfterClose, R!SilentAfterClose

(* However many sessions meet on however many accounts, and however each of   *)
(* them ends, every account has its slots back, and claim, usage record,      *)
(* reservation and cost agree (northboundRealtimeWebSocket and its like).     *)
THEOREM SessionsStaySettled == Spec => []SessionsSettle
<1>1. RelayInv => SessionsSettle
  BY SessionInvSettles DEF RelayInv, SessionsSettle
<1> QED BY <1>1, RelayStaysSound, PTL

(* For any number of instances, requests and saves, and any time between the  *)
(* reading of the row and the writing of a copy, no request works by settings *)
(* replaced longer ago than a copy lives; and turns of one conversation have  *)
(* one routing key (reverseProxySettings, responseRouteAffinityDigest).       *)
THEOREM SettingsStayFresh == Spec => []SettingsAreFresh
<1>1. RelayInv => SettingsAreFresh
  BY SettingInvIsFresh DEF RelayInv, SettingsAreFresh
<1> QED BY <1>1, RelayStaysSound, PTL

(* However many operations, rules and lines there are, and however often a    *)
(* request is tried: every attempt rewrites what the client sent for its own  *)
(* route, the audit names what it did once, a route that forbids it is asked  *)
(* for its own model, no dropped beta comes back, and a history is cut at its *)
(* front only and not between a call and the answers that follow it directly  *)
(* (applyReverseProxyParamOverrides, rewriteRequestModel, replay_guard.go).   *)
THEOREM AttemptsStayFresh == Spec => []AttemptsStartAfresh
<1>1. RelayInv => AttemptsStartAfresh
  BY OverrideInvIsFresh DEF RelayInv, AttemptsStartAfresh
<1> QED BY <1>1, RelayStaysSound, PTL

(* However long an answer is, whatever its candidates, parts and frames hold  *)
(* and wherever they are cut, a client that streams is told the texts,        *)
(* thoughts and calls of the whole answer, in order, with the role once and   *)
(* first and one finish reason, last.  However long a conversation is, Kiro   *)
(* hears every turn once and in alternation, an answer is named after the     *)
(* last call of its id, and thoughts are asked for when there is a budget     *)
(* (geminiCLIChatSSETransformer, kiroRawStreamTransformer,                    *)
(* kiroOpenAIChatRequestBody and its like).                                   *)
THEOREM TranslationStaysFaithful == Spec => []TranslationIsFaithful
<1>1. RelayInv => TranslationIsFaithful
  BY AnswerInvIsFaithful, RequestInvIsFaithful DEF RelayInv, TranslationIsFaithful
<1> QED BY <1>1, RelayStaysSound, PTL
=============================================================================
