-------------------------- MODULE TranslationProofs --------------------------
(* What is proved of the relay's translations between protocols: the answers  *)
(* that are rewritten as they stream, and what Gemini, Antigravity and Kiro   *)
(* accounts are told of what a client has said.  The last lemmas say that     *)
(* each part keeps an invariant of its own; RelayProofs puts them together    *)
(* with those of the other parts.                                             *)
EXTENDS Relay, FiniteSetTheorems, SequenceTheorems, WellFoundedInduction, TLAPS

-----------------------------------------------------------------------------
(* A fold goes one element at a time: of operations, of parts, of candidates, *)
(* of frames, of messages.                                                    *)

(* What holds of zero, and of a number with its predecessor, holds of all.    *)
LEMMA Counting ==
  ASSUME NEW Q, 0 \in Q, \A n \in Nat : n \in Q => n + 1 \in Q
  PROVE  Nat \subseteq Q
<1> DEFINE D == Nat \ Q
           Less == OpToRel(<, Nat)
<1> SUFFICES ASSUME D # {} PROVE FALSE
  OBVIOUS
<1>1. IsWellFoundedOn(Less, Nat)
  BY NatLessThanWellFounded, Zenon
<1>2. D \subseteq Nat
  OBVIOUS
<1>3. \E x \in D : \A y \in D : ~ (<<y, x>> \in Less)
  <2> HIDE DEF D, Less
  <2> QED
    BY <1>1, <1>2, WFMin
<1>4. PICK m \in D : \A y \in D : ~ (<<y, m>> \in Less)
  BY <1>3, Zenon
<1>5. m \in Nat /\ m \notin Q
  BY <1>4, Zenon
<1>6. m # 0 /\ m - 1 \in Nat /\ m - 1 < m /\ (m - 1) + 1 = m
  BY <1>5
<1>7. <<m - 1, m>> \in Less
  BY <1>5, <1>6 DEF OpToRel
<1>8. m - 1 \notin D
  BY <1>4, <1>7, Zenon
<1> HIDE DEF Less
<1>9. m - 1 \in Q
  BY <1>6, <1>8
<1> QED
  BY <1>5, <1>6, <1>9

Operations == [op : STRING, path : Seq(STRING), from : Seq(STRING), to : Seq(STRING), value : STRING]

(* The folds: over the operations of an attempt, the parameters that the      *)
(* rules override, the lines of the audit; over what is said in a stream; and *)
(* over what a client has said.                                               *)
Step(kind, r, x, o) ==
  CASE kind = "body"  -> IF O!Skipped(r, o) THEN x ELSE O!Applied(x, o)
    [] kind = "rule"  -> O!Ruling(x, o)
    [] kind = "lines" -> O!HeaderRecorded(x, o)
    [] kind = "having" -> IF o[r[1]] = r[2] THEN Append(x, o) ELSE x
    [] kind = "flat"  -> x \o o
    [] kind = "texts" -> IF o = "" \/ (x # <<>> /\ T!Last(x) = o) THEN x ELSE Append(x, o)
    [] kind = "parts" -> T!PutPart(x, r, o)
    [] kind = "candidates" -> T!PutCandidate(x, o)
    [] kind = "frames" -> T!KiroFrame(x, o)
    [] kind = "named" -> IF o.name = "" THEN x ELSE Append(x, o)
    [] kind = "turns" -> x \o C!Between(x, o) \o <<o>>

(* What a fold's function has to be, and what it makes of the first n.        *)
Folding(kind, r, base, s, n, it) ==
  [t \in SUBSET (1 .. n) |->
     IF t = {} THEN base ELSE Step(kind, r, it[t \ {O!Max(t)}], s[O!Max(t)])]

IsFold(kind, r, base, s, n, it) == it = Folding(kind, r, base, s, n, it)

Folded(kind, r, base, s, n) == (CHOOSE it : IsFold(kind, r, base, s, n, it))[1 .. n]

(* The greatest of some numbers up to n is n, where it is one of them.        *)
LEMMA GreatestUpTo ==
  ASSUME NEW n \in Nat, NEW t \in SUBSET (1 .. n), n \in t
  PROVE  O!Max(t) = n
<1>1. \A y \in t : n >= y
  OBVIOUS
<1>2. O!Max(t) \in t /\ \A y \in t : O!Max(t) >= y
  <2>1. \E x \in t : \A y \in t : x >= y
    BY <1>1
  <2> QED
    BY <2>1 DEF O!Max
<1>3. O!Max(t) \in 1 .. n /\ O!Max(t) >= n
  BY <1>2
<1> QED
  BY <1>3

(* A fold's function exists: for one operation more it is made of the one     *)
(* for those before.                                                          *)
LEMMA FoldingExists ==
  ASSUME NEW kind, NEW r, NEW base, NEW s
  PROVE  \A n \in Nat : \E it : IsFold(kind, r, base, s, n, it)
<1> DEFINE Q == {n \in Nat : \E it : it = Folding(kind, r, base, s, n, it)}
<1>1. 0 \in Q
  <2> DEFINE it == [t \in SUBSET (1 .. 0) |-> base]
  <2>1. \A t \in SUBSET (1 .. 0) : t = {}
    OBVIOUS
  <2>2. it = Folding(kind, r, base, s, 0, it)
    BY <2>1 DEF Folding
  <2> QED
    BY <2>2
<1>2. ASSUME NEW n \in Nat, n \in Q PROVE n + 1 \in Q
  <2>1. PICK it : it = Folding(kind, r, base, s, n, it)
    BY <1>2
  <2> DEFINE jt == [t \in SUBSET (1 .. n + 1) |->
                      IF n + 1 \in t THEN Step(kind, r, it[t \ {n + 1}], s[n + 1]) ELSE it[t]]
  <2>2. ASSUME NEW t \in SUBSET (1 .. n + 1)
        PROVE  jt[t] = IF t = {} THEN base ELSE Step(kind, r, jt[t \ {O!Max(t)}], s[O!Max(t)])
    <3>1. CASE n + 1 \in t
      <4>1. O!Max(t) = n + 1
        BY <3>1, GreatestUpTo
      <4>2. t \ {n + 1} \in SUBSET (1 .. n + 1) /\ n + 1 \notin t \ {n + 1} /\ t \ {n + 1} \in SUBSET (1 .. n)
        OBVIOUS
      <4>3. jt[t \ {n + 1}] = it[t \ {n + 1}]
        BY <4>2
      <4>4. jt[t] = Step(kind, r, it[t \ {n + 1}], s[n + 1])
        BY <3>1
      <4> HIDE DEF jt
      <4> QED
        BY <3>1, <4>1, <4>3, <4>4
    <3>2. CASE n + 1 \notin t
      <4> DEFINE u == t \ {O!Max(t)}
      <4>1. t \in SUBSET (1 .. n) /\ u \in SUBSET (1 .. n + 1) /\ n + 1 \notin u
        <5>1. \A x \in t : x \in 1 .. n
          BY <3>2
        <5> QED
          BY <3>2, <5>1
      <4>2. jt[t] = it[t] /\ jt[u] = it[u]
        BY <3>2, <4>1
      <4>3. it[t] = IF t = {} THEN base ELSE Step(kind, r, it[u], s[O!Max(t)])
        BY <2>1, <4>1 DEF Folding
      <4> HIDE DEF jt
      <4> QED
        BY <4>2, <4>3
    <3> QED
      BY <3>1, <3>2
  <2>3. jt = Folding(kind, r, base, s, n + 1, jt)
    BY <2>2 DEF Folding
  <2> HIDE DEF jt
  <2> QED
    BY <2>3
<1>3. Nat \subseteq Q
  <2> HIDE DEF Q
  <2> QED
    BY <1>1, <1>2, Counting
<1> QED
  BY <1>3 DEF IsFold

(* It begins with the base, and takes one operation after the other.          *)
GoesBySteps(kind, r, base, s, n, it) ==
  /\ it[1 .. 0] = base
  /\ \A k \in Nat : k + 1 <= n => it[1 .. k + 1] = Step(kind, r, it[1 .. k], s[k + 1])

(* A function that folds takes one element more at each step.                 *)
LEMMA FoldingSteps ==
  ASSUME NEW kind, NEW r, NEW base, NEW s, NEW n \in Nat,
         NEW it, IsFold(kind, r, base, s, n, it)
  PROVE  GoesBySteps(kind, r, base, s, n, it)
<1>1. ASSUME NEW k \in Nat, k + 1 <= n PROVE it[1 .. k + 1] = Step(kind, r, it[1 .. k], s[k + 1])
  <2>1. O!Max(1 .. k + 1) = k + 1
    BY GreatestUpTo
  <2>2. 1 .. k + 1 \in SUBSET (1 .. n) /\ 1 .. k + 1 # {} /\ (1 .. k + 1) \ {k + 1} = 1 .. k
    BY <1>1
  <2>3. it[1 .. k + 1] = Folding(kind, r, base, s, n, it)[1 .. k + 1]
    BY DEF IsFold
  <2> QED
    BY <2>1, <2>2, <2>3 DEF Folding
<1>2. it[1 .. 0] = base
  <2>1. 1 .. 0 = {} /\ {} \in SUBSET (1 .. n)
    OBVIOUS
  <2>2. it[{}] = Folding(kind, r, base, s, n, it)[{}]
    BY DEF IsFold
  <2> QED
    BY <2>1, <2>2 DEF Folding
<1> QED
  BY <1>1, <1>2 DEF GoesBySteps

(* Two of them say the same of the first operations.                          *)
LEMMA FoldingsAgree ==
  ASSUME NEW kind, NEW r, NEW base, NEW s, NEW n \in Nat, NEW m \in Nat, n <= m,
         NEW it, IsFold(kind, r, base, s, n, it),
         NEW jt, IsFold(kind, r, base, s, m, jt)
  PROVE  it[1 .. n] = jt[1 .. n]
<1>1. /\ it[1 .. 0] = base /\ jt[1 .. 0] = base
      /\ \A k \in Nat : k + 1 <= n => it[1 .. k + 1] = Step(kind, r, it[1 .. k], s[k + 1])
      /\ \A k \in Nat : k + 1 <= m => jt[1 .. k + 1] = Step(kind, r, jt[1 .. k], s[k + 1])
  <2>1. GoesBySteps(kind, r, base, s, n, it) /\ GoesBySteps(kind, r, base, s, m, jt)
    BY FoldingSteps
  <2> QED
    BY <2>1 DEF GoesBySteps
<1> DEFINE Q == {k \in Nat : k <= n => it[1 .. k] = jt[1 .. k]}
<1>2. 0 \in Q
  BY <1>1
<1>3. ASSUME NEW k \in Nat, k \in Q PROVE k + 1 \in Q
  BY <1>1, <1>3
<1>4. Nat \subseteq Q
  <2> HIDE DEF Q
  <2> QED
    BY <1>2, <1>3, Counting
<1> QED
  BY <1>4

(* So a fold begins with its base and takes one operation after the other.    *)
GoesOn(kind, r, base, s) ==
  /\ Folded(kind, r, base, s, 0) = base
  /\ \A n \in Nat : Folded(kind, r, base, s, n + 1) = Step(kind, r, Folded(kind, r, base, s, n), s[n + 1])

(* So does the fold: what it was after n elements, and one element more.      *)
LEMMA FoldGoesOn ==
  ASSUME NEW kind, NEW r, NEW base, NEW s
  PROVE  GoesOn(kind, r, base, s)
<1> DEFINE It(n) == CHOOSE it : IsFold(kind, r, base, s, n, it)
<1>1. \A n \in Nat : IsFold(kind, r, base, s, n, It(n))
  BY FoldingExists
<1>2. \A n \in Nat : Folded(kind, r, base, s, n) = It(n)[1 .. n]
  BY DEF Folded
<1> HIDE DEF It
<1>3. Folded(kind, r, base, s, 0) = base
  <2>1. GoesBySteps(kind, r, base, s, 0, It(0))
    BY <1>1, FoldingSteps
  <2> QED
    BY <1>2, <2>1 DEF GoesBySteps
<1>5. ASSUME NEW n \in Nat, NEW m \in Nat, n <= m PROVE It(n)[1 .. n] = It(m)[1 .. n]
  <2> DEFINE it == It(n)
             jt == It(m)
  <2>1. IsFold(kind, r, base, s, n, it) /\ IsFold(kind, r, base, s, m, jt)
    BY <1>1
  <2> HIDE DEF it, jt
  <2>2. it[1 .. n] = jt[1 .. n]
    BY <1>5, <2>1, FoldingsAgree
  <2> QED
    BY <2>2 DEF it, jt
<1>4. ASSUME NEW n \in Nat
      PROVE  Folded(kind, r, base, s, n + 1) = Step(kind, r, Folded(kind, r, base, s, n), s[n + 1])
  <2>0. /\ n + 1 \in Nat /\ n <= n + 1 /\ n + 1 <= n + 1
        /\ IsFold(kind, r, base, s, n, It(n))
        /\ IsFold(kind, r, base, s, n + 1, It(n + 1))
    BY <1>1
  <2>1. It(n)[1 .. n] = It(n + 1)[1 .. n]
    BY <1>5, <2>0
  <2>2. It(n + 1)[1 .. n + 1] = Step(kind, r, It(n + 1)[1 .. n], s[n + 1])
    <3> DEFINE m == n + 1
               b == It(m)
    <3>1. m \in Nat /\ m <= m /\ n + 1 <= m /\ IsFold(kind, r, base, s, m, b)
      BY <2>0
    <3> HIDE DEF m, b
    <3>2. GoesBySteps(kind, r, base, s, m, b)
      BY <3>1, FoldingSteps
    <3>3. b[1 .. n + 1] = Step(kind, r, b[1 .. n], s[n + 1])
      BY <3>1, <3>2 DEF GoesBySteps
    <3> QED
      BY <3>3 DEF m, b
  <2> QED
    BY <1>2, <2>1, <2>2
<1> QED
  BY <1>3, <1>4 DEF GoesOn

NoRoute == CHOOSE r : TRUE

(* The greatest is the greatest, whatever module it is of.                    *)
LEMMA SameMax == \A X : T!Max(X) = O!Max(X)
BY DEF T!Max, O!Max

(* A sequence, of whatever.                                                   *)
IsSeq(s) == \E X : s \in Seq(X)

(* A sequence has a length, a domain, and the elements it has.                *)
LEMMA SeqDomain ==
  ASSUME NEW s, IsSeq(s)
  PROVE  Len(s) \in Nat /\ DOMAIN s = 1 .. Len(s) /\ \A X : (\A k \in DOMAIN s : s[k] \in X) => s \in Seq(X)
<1>1. PICK Y : s \in Seq(Y)
  BY DEF IsSeq
<1>2. Len(s) \in Nat /\ DOMAIN s = 1 .. Len(s) /\ s = [k \in 1 .. Len(s) |-> s[k]]
  BY <1>1
<1>3. ASSUME NEW X, \A k \in DOMAIN s : s[k] \in X PROVE s \in Seq(X)
  BY <1>2, <1>3
<1> QED
  BY <1>2, <1>3

(* With one more, of which the last is that one.                              *)
LEMMA SeqGrows ==
  ASSUME NEW s, IsSeq(s), NEW x
  PROVE  /\ IsSeq(Append(s, x)) /\ Len(Append(s, x)) = Len(s) + 1
         /\ DOMAIN Append(s, x) = 1 .. Len(s) + 1
         /\ Append(s, x)[Len(s) + 1] = x
         /\ \A k \in DOMAIN s : Append(s, x)[k] = s[k]
<1>1. PICK Y : s \in Seq(Y)
  BY DEF IsSeq
<1> DEFINE Z == Y \cup {x}
<1>2. s \in Seq(Z) /\ x \in Z
  BY <1>1
<1> HIDE DEF Z
<1>3. Append(s, x) \in Seq(Z)
  BY <1>2
<1> QED
  BY <1>2, <1>3 DEF IsSeq

(* Any of them is what is made of the whole sequence.                         *)
LEMMA FoldChosen ==
  ASSUME NEW kind, NEW r, NEW base, NEW s, NEW n \in Nat, NEW it, IsFold(kind, r, base, s, n, it)
  PROVE  it[1 .. n] = Folded(kind, r, base, s, n)
<1> DEFINE Jt == CHOOSE jt : IsFold(kind, r, base, s, n, jt)
<1>1. IsFold(kind, r, base, s, n, Jt)
  BY FoldingExists
<1>2. Jt[1 .. n] = Folded(kind, r, base, s, n)
  BY DEF Folded
<1> HIDE DEF Jt
<1>3. n <= n
  OBVIOUS
<1>4. it[1 .. n] = Jt[1 .. n]
  BY <1>1, <1>3, FoldingsAgree
<1> QED
  BY <1>2, <1>4

(* One more at the end is one more step.                                      *)
LEMMA FoldAppends ==
  ASSUME NEW kind, NEW r, NEW base, NEW s, IsSeq(s), NEW x
  PROVE  Folded(kind, r, base, Append(s, x), Len(s) + 1) = Step(kind, r, Folded(kind, r, base, s, Len(s)), x)
<1> DEFINE t == Append(s, x)
           F(n) == Folded(kind, r, base, s, n)
           G(n) == Folded(kind, r, base, t, n)
           Q == {n \in Nat : n <= Len(s) => F(n) = G(n)}
<1>1. /\ Len(s) \in Nat /\ DOMAIN s = 1 .. Len(s) /\ t[Len(s) + 1] = x
      /\ \A n \in DOMAIN s : t[n] = s[n]
  BY SeqDomain, SeqGrows
<1> HIDE DEF t
<1>2. GoesOn(kind, r, base, s) /\ GoesOn(kind, r, base, t)
  BY FoldGoesOn
<1>3. /\ F(0) = base /\ G(0) = base
      /\ \A n \in Nat : F(n + 1) = Step(kind, r, F(n), s[n + 1]) /\ G(n + 1) = Step(kind, r, G(n), t[n + 1])
  BY <1>2 DEF GoesOn
<1> HIDE DEF F, G
<1>4. 0 \in Q
  BY <1>3
<1>5. ASSUME NEW n \in Nat, n \in Q PROVE n + 1 \in Q
  <2>1. ASSUME n + 1 <= Len(s) PROVE F(n + 1) = G(n + 1)
    <3>1. n <= Len(s) /\ n + 1 \in DOMAIN s
      BY <1>1, <2>1
    <3>2. F(n) = G(n) /\ s[n + 1] = t[n + 1]
      BY <1>1, <1>5, <3>1
    <3> QED
      BY <1>3, <3>2
  <2> QED
    BY <2>1
<1>6. Nat \subseteq Q
  <2> HIDE DEF Q
  <2> QED
    BY <1>4, <1>5, Counting
<1>7. F(Len(s)) = G(Len(s))
  BY <1>1, <1>6
<1>8. G(Len(s) + 1) = Step(kind, r, F(Len(s)), x)
  BY <1>1, <1>3, <1>7
<1> QED
  BY <1>8 DEF F, G, t

(* What holds at the beginning, and after every step, holds of the fold.      *)
LEMMA FoldKeeps ==
  ASSUME NEW kind, NEW r, NEW base, NEW s, NEW m \in Nat, NEW P,
         base \in P[0],
         \A n \in 0 .. m - 1 : \A y \in P[n] : Step(kind, r, y, s[n + 1]) \in P[n + 1]
  PROVE  Folded(kind, r, base, s, m) \in P[m]
<1> DEFINE F(n) == Folded(kind, r, base, s, n)
           Q == {n \in Nat : n <= m => F(n) \in P[n]}
<1>1. F(0) = base /\ \A n \in Nat : F(n + 1) = Step(kind, r, F(n), s[n + 1])
  <2>1. GoesOn(kind, r, base, s)
    BY FoldGoesOn
  <2> QED
    BY <2>1 DEF GoesOn
<1> HIDE DEF F
<1>2. 0 \in Q
  BY <1>1
<1>3. ASSUME NEW n \in Nat, n \in Q PROVE n + 1 \in Q
  <2>1. ASSUME n + 1 <= m PROVE F(n + 1) \in P[n + 1]
    <3>1. n \in 0 .. m - 1 /\ n <= m
      BY <2>1
    <3>2. F(n) \in P[n]
      BY <1>3, <3>1
    <3> QED
      BY <1>1, <3>1, <3>2
  <2> QED
    BY <2>1
<1>4. Nat \subseteq Q
  <2> HIDE DEF Q
  <2> QED
    BY <1>2, <1>3, Counting
<1>5. F(m) \in P[m]
  BY <1>4
<1> QED
  BY <1>5 DEF F

(* Choosing the elements of one kind is a fold.                               *)
LEMMA HavingFolds ==
  ASSUME NEW s, IsSeq(s), NEW f, NEW v
  PROVE  T!Having(s, f, v) = Folded("having", <<f, v>>, <<>>, s, Len(s))
<1> DEFINE Going(it) == [t \in SUBSET DOMAIN s |->
                    IF t = {} THEN <<>>
                    ELSE LET x == T!Max(t) IN IF s[x][f] = v THEN Append(it[t \ {x}], s[x]) ELSE it[t \ {x}]]
           It == CHOOSE it : it = Going(it)
<1>1. T!Having(s, f, v) = It[DOMAIN s]
  BY DEF T!Having, T!FoldLeft, T!MapThenFoldSet
<1>2. DOMAIN s = 1 .. Len(s) /\ Len(s) \in Nat
  BY SeqDomain
<1>3. ASSUME NEW it PROVE Going(it) = Folding("having", <<f, v>>, <<>>, s, Len(s), it)
  BY <1>2, SameMax DEF Folding, Step
<1> HIDE DEF Going
<1>4. \E it : it = Going(it)
  BY <1>2, <1>3, FoldingExists DEF IsFold
<1>5. IsFold("having", <<f, v>>, <<>>, s, Len(s), It)
  BY <1>3, <1>4 DEF IsFold
<1> HIDE DEF It
<1> QED
  BY <1>1, <1>2, <1>5, FoldChosen

(* So is putting sequences one after the other.                               *)
LEMMA FlatFolds ==
  ASSUME NEW s, IsSeq(s)
  PROVE  T!Flat(s) = Folded("flat", NoRoute, <<>>, s, Len(s))
<1> DEFINE Going(it) == [t \in SUBSET DOMAIN s |->
                    IF t = {} THEN <<>>
                    ELSE LET x == T!Max(t) IN it[t \ {x}] \o s[x]]
           It == CHOOSE it : it = Going(it)
<1>1. T!Flat(s) = It[DOMAIN s]
  BY DEF T!Flat, T!FoldLeft, T!MapThenFoldSet
<1>2. DOMAIN s = 1 .. Len(s) /\ Len(s) \in Nat
  BY SeqDomain
<1>3. ASSUME NEW it PROVE Going(it) = Folding("flat", NoRoute, <<>>, s, Len(s), it)
  BY <1>2, SameMax DEF Folding, Step
<1> HIDE DEF Going
<1>4. \E it : it = Going(it)
  BY <1>2, <1>3, FoldingExists DEF IsFold
<1>5. IsFold("flat", NoRoute, <<>>, s, Len(s), It)
  BY <1>3, <1>4 DEF IsFold
<1> HIDE DEF It
<1> QED
  BY <1>1, <1>2, <1>5, FoldChosen


(* What is selected of a longer sequence.                                     *)
LEMMA HavingNothing == \A f, v : T!Having(<<>>, f, v) = <<>>
<1> SUFFICES ASSUME NEW f, NEW v PROVE T!Having(<<>>, f, v) = <<>>
  OBVIOUS
<1>1. <<>> \in Seq({}) /\ Len(<<>>) = 0
  OBVIOUS
<1>2. IsSeq(<<>>)
  BY <1>1 DEF IsSeq
<1>3. T!Having(<<>>, f, v) = Folded("having", <<f, v>>, <<>>, <<>>, 0)
  BY <1>1, <1>2, HavingFolds
<1>4. GoesOn("having", <<f, v>>, <<>>, <<>>)
  BY FoldGoesOn
<1> QED
  BY <1>3, <1>4 DEF GoesOn

(* One element more is chosen if it is of that kind.                          *)
LEMMA HavingOneMore ==
  ASSUME NEW s, IsSeq(s), NEW x, NEW f, NEW v
  PROVE  T!Having(Append(s, x), f, v) = IF x[f] = v THEN Append(T!Having(s, f, v), x) ELSE T!Having(s, f, v)
<1> DEFINE r == <<f, v>>
<1>1. IsSeq(Append(s, x)) /\ Len(Append(s, x)) = Len(s) + 1
  BY SeqGrows
<1>2. T!Having(s, f, v) = Folded("having", r, <<>>, s, Len(s))
  BY HavingFolds
<1>3. T!Having(Append(s, x), f, v) = Folded("having", r, <<>>, Append(s, x), Len(s) + 1)
  BY <1>1, HavingFolds
<1>4. \A y : Step("having", r, y, x) = IF x[f] = v THEN Append(y, x) ELSE y
  BY DEF Step
<1> HIDE DEF r
<1>5. Folded("having", r, <<>>, Append(s, x), Len(s) + 1)
        = Step("having", r, Folded("having", r, <<>>, s, Len(s)), x)
  BY FoldAppends
<1> QED
  BY <1>2, <1>3, <1>4, <1>5

(* Of no sequences nothing is put together.                                   *)
LEMMA FlatNothing == T!Flat(<<>>) = <<>>
<1>1. <<>> \in Seq({}) /\ Len(<<>>) = 0
  OBVIOUS
<1>2. IsSeq(<<>>)
  BY <1>1 DEF IsSeq
<1>3. T!Flat(<<>>) = Folded("flat", NoRoute, <<>>, <<>>, 0)
  BY <1>1, <1>2, FlatFolds
<1>4. GoesOn("flat", NoRoute, <<>>, <<>>)
  BY FoldGoesOn
<1> QED
  BY <1>3, <1>4 DEF GoesOn

(* One sequence more comes after the others.                                  *)
LEMMA FlatOneMore ==
  ASSUME NEW s, IsSeq(s), NEW x
  PROVE  T!Flat(Append(s, x)) = T!Flat(s) \o x
<1>1. IsSeq(Append(s, x)) /\ Len(Append(s, x)) = Len(s) + 1
  BY SeqGrows
<1>2. T!Flat(s) = Folded("flat", NoRoute, <<>>, s, Len(s))
  BY FlatFolds
<1>3. T!Flat(Append(s, x)) = Folded("flat", NoRoute, <<>>, Append(s, x), Len(s) + 1)
  BY <1>1, FlatFolds
<1>4. \A y : Step("flat", NoRoute, y, x) = y \o x
  BY DEF Step
<1>5. Folded("flat", NoRoute, <<>>, Append(s, x), Len(s) + 1)
        = Step("flat", NoRoute, Folded("flat", NoRoute, <<>>, s, Len(s)), x)
  BY FoldAppends
<1> QED
  BY <1>2, <1>3, <1>4, <1>5

(* A sequence begins empty and has one more at a time: a property of the      *)
(* beginnings that goes from each to the next is one of the whole.            *)
LEMMA Beginnings ==
  ASSUME NEW X, NEW s \in Seq(X)
  PROVE  /\ SubSeq(s, 1, 0) = <<>> /\ SubSeq(s, 1, Len(s)) = s
         /\ \A n \in 0 .. Len(s) - 1 : /\ SubSeq(s, 1, n) \in Seq(X) /\ Len(SubSeq(s, 1, n)) = n
                                       /\ s[n + 1] \in X
                                       /\ SubSeq(s, 1, n + 1) = Append(SubSeq(s, 1, n), s[n + 1])
<1>1. Len(s) \in Nat /\ DOMAIN s = 1 .. Len(s) /\ \A k \in 1 .. Len(s) : s[k] \in X
  OBVIOUS
<1>2. SubSeq(s, 1, 0) = <<>>
  <2>1. Len(SubSeq(s, 1, 0)) = 0
    BY <1>1
  <2>2. SubSeq(s, 1, 0) \in Seq(X)
    BY <1>1
  <2> QED
    BY <2>1, <2>2
<1>3. SubSeq(s, 1, Len(s)) = s
  BY <1>1
<1>4. ASSUME NEW n \in 0 .. Len(s) - 1
      PROVE  /\ SubSeq(s, 1, n) \in Seq(X) /\ Len(SubSeq(s, 1, n)) = n
             /\ s[n + 1] \in X
             /\ SubSeq(s, 1, n + 1) = Append(SubSeq(s, 1, n), s[n + 1])
  <2>1. n \in Nat /\ n + 1 \in 1 .. Len(s) /\ s[n + 1] \in X
    BY <1>1
  <2>2. SubSeq(s, 1, n) \in Seq(X) /\ Len(SubSeq(s, 1, n)) = n /\ \A k \in 1 .. n : SubSeq(s, 1, n)[k] = s[k]
    BY <1>1, <2>1
  <2>3. SubSeq(s, 1, n + 1) \in Seq(X) /\ Len(SubSeq(s, 1, n + 1)) = n + 1 /\ \A k \in 1 .. n + 1 : SubSeq(s, 1, n + 1)[k] = s[k]
    BY <1>1, <2>1
  <2>4. /\ Append(SubSeq(s, 1, n), s[n + 1]) \in Seq(X) /\ Len(Append(SubSeq(s, 1, n), s[n + 1])) = n + 1
        /\ \A k \in 1 .. n + 1 : Append(SubSeq(s, 1, n), s[n + 1])[k] = s[k]
    BY <2>1, <2>2
  <2>5. SubSeq(s, 1, n + 1) = Append(SubSeq(s, 1, n), s[n + 1])
    BY <2>3, <2>4
  <2> QED
    BY <2>1, <2>2, <2>5
<1> QED
  BY <1>2, <1>3, <1>4

(* What a sequence begins with is a sequence.                                 *)
LEMMA BeginningsAreSeqs ==
  ASSUME NEW X, NEW s \in Seq(X)
  PROVE  \A n \in 0 .. Len(s) - 1 : IsSeq(SubSeq(s, 1, n))
<1> SUFFICES ASSUME NEW n \in 0 .. Len(s) - 1 PROVE IsSeq(SubSeq(s, 1, n))
  OBVIOUS
<1>1. SubSeq(s, 1, n) \in Seq(X)
  BY Beginnings
<1> QED
  BY <1>1, Zenon DEF IsSeq

(* Selecting keeps the kind of elements, and selects them.                    *)
LEMMA HavingKeeps ==
  ASSUME NEW X, NEW s \in Seq(X), NEW f, NEW v
  PROVE  T!Having(s, f, v) \in Seq({x \in X : x[f] = v})
<1> DEFINE Y == {x \in X : x[f] = v}
           Q == {n \in Nat : n <= Len(s) => T!Having(SubSeq(s, 1, n), f, v) \in Seq(Y)}
<1>1. 0 \in Q
  <2>1. T!Having(SubSeq(s, 1, 0), f, v) = <<>>
    BY Beginnings, HavingNothing
  <2> HIDE DEF Y
  <2>3. <<>> \in Seq(Y)
    OBVIOUS
  <2>2. T!Having(SubSeq(s, 1, 0), f, v) \in Seq(Y)
    BY <2>1, <2>3, Zenon
  <2> QED
    BY <2>2
<1>2. ASSUME NEW n \in Nat, n \in Q PROVE n + 1 \in Q
  <2> SUFFICES ASSUME n + 1 <= Len(s) PROVE T!Having(SubSeq(s, 1, n + 1), f, v) \in Seq(Y)
    OBVIOUS
  <2>1. n \in 0 .. Len(s) - 1 /\ n <= Len(s)
    OBVIOUS
  <2> DEFINE b == SubSeq(s, 1, n)
             x == s[n + 1]
  <2>2. b \in Seq(X) /\ x \in X /\ SubSeq(s, 1, n + 1) = Append(b, x)
    BY <2>1, Beginnings
  <2>3. T!Having(b, f, v) \in Seq(Y)
    BY <1>2, <2>1
  <2>6. x[f] = v => x \in Y
    BY <2>2
  <2> HIDE DEF b, x, Y
  <2>4. IsSeq(b)
    BY <2>2 DEF IsSeq
  <2>5. T!Having(Append(b, x), f, v) = IF x[f] = v THEN Append(T!Having(b, f, v), x) ELSE T!Having(b, f, v)
    BY <2>4, HavingOneMore
  <2>7. T!Having(Append(b, x), f, v) \in Seq(Y)
    BY <2>3, <2>5, <2>6
  <2> QED
    BY <2>2, <2>7
<1>3. Nat \subseteq Q
  <2> HIDE DEF Q
  <2> QED
    BY <1>1, <1>2, Counting
<1>4. Len(s) \in Q /\ Len(s) <= Len(s) /\ SubSeq(s, 1, Len(s)) = s
  BY <1>3, Beginnings
<1> QED
  BY <1>4


(* What chunks and their parts carry.                                         *)
LEMMA CarriedOneMore ==
  ASSUME NEW s, IsSeq(s), NEW x
  PROVE  /\ IsSeq(T!Values(s)) /\ T!Values(Append(s, x)) = Append(T!Values(s), x.value)
         /\ IsSeq(T!DeltasOf(s)) /\ T!DeltasOf(Append(s, x)) = Append(T!DeltasOf(s), x.delta)
<1>1. /\ Len(s) \in Nat /\ DOMAIN s = 1 .. Len(s)
      /\ DOMAIN Append(s, x) = 1 .. Len(s) + 1
      /\ Append(s, x)[Len(s) + 1] = x /\ \A k \in DOMAIN s : Append(s, x)[k] = s[k]
  BY SeqDomain, SeqGrows
<1> DEFINE t == Append(s, x)
           V == {s[k].value : k \in DOMAIN s} \cup {x.value}
           D == {s[k].delta : k \in DOMAIN s} \cup {x.delta}
<1>2. /\ T!Values(s) = [k \in 1 .. Len(s) |-> s[k].value] /\ T!DeltasOf(s) = [k \in 1 .. Len(s) |-> s[k].delta]
      /\ T!Values(t) = [k \in 1 .. Len(s) + 1 |-> t[k].value] /\ T!DeltasOf(t) = [k \in 1 .. Len(s) + 1 |-> t[k].delta]
  BY <1>1 DEF T!Values, T!DeltasOf
<1>3. T!Values(s) \in Seq(V) /\ T!DeltasOf(s) \in Seq(D) /\ x.value \in V /\ x.delta \in D
      /\ Len(T!Values(s)) = Len(s) /\ Len(T!DeltasOf(s)) = Len(s)
  BY <1>1, <1>2
<1> HIDE DEF t, V, D
<1>4. T!Values(t) = Append(T!Values(s), x.value)
  BY <1>1, <1>2, <1>3 DEF t
<1>5. T!DeltasOf(t) = Append(T!DeltasOf(s), x.delta)
  BY <1>1, <1>2, <1>3 DEF t
<1> QED
  BY <1>3, <1>4, <1>5 DEF t, IsSeq

-----------------------------------------------------------------------------
Finishes == {"", "stop", "length", "tool_calls", "content_filter"}
Words == STRING \cup {""}
ToolCalls == [name : Words, args : Seq(STRING)]
DeltaRows == [kind : {"content", "reasoning", "call", "none"}, value : Words \cup ToolCalls, n : Nat]
ChunkRows == [index : T!Indexes, role : BOOLEAN, delta : DeltaRows, finish : Finishes]
Kinds == {"content", "reasoning", "call"}

(* What a client puts together of some chunks, and what some parts say.       *)
Gathered(out_, i, kind) == T!Values(T!Pick(T!DeltasOf(T!Having(out_, "index", i)), kind))
Spoken(parts, kind) == T!Values(T!Pick(parts, kind))

(* A client gathers what one chunk more tells of an index and a kind.         *)
LEMMA GatheredOneMore ==
  ASSUME NEW s \in Seq(ChunkRows), NEW c \in ChunkRows, NEW i, NEW kind
  PROVE  Gathered(Append(s, c), i, kind)
           = IF c.index = i /\ c.delta.kind = kind THEN Append(Gathered(s, i, kind), c.delta.value)
             ELSE Gathered(s, i, kind)
<1> DEFINE H == T!Having(s, "index", i)
           D == T!DeltasOf(H)
           K == T!Having(D, "kind", kind)
<1>1. IsSeq(s)
  BY DEF IsSeq
<1>2. IsSeq(H)
  BY HavingKeeps DEF IsSeq
<1>3. T!Having(Append(s, c), "index", i) = IF c.index = i THEN Append(H, c) ELSE H
  BY <1>1, HavingOneMore
<1> HIDE DEF H
<1>4. IsSeq(D) /\ T!DeltasOf(Append(H, c)) = Append(D, c.delta)
  BY <1>2, CarriedOneMore
<1> HIDE DEF D
<1>5. IsSeq(K)
  BY <1>4, HavingKeeps DEF IsSeq
<1>6. T!Having(Append(D, c.delta), "kind", kind) = IF c.delta.kind = kind THEN Append(K, c.delta) ELSE K
  <2> DEFINE d == c.delta
  <2> HIDE DEF d
  <2>1. T!Having(Append(D, d), "kind", kind) = IF d.kind = kind THEN Append(K, d) ELSE K
    BY <1>4, HavingOneMore
  <2> QED
    BY <2>1 DEF d
<1> HIDE DEF K
<1>7. T!Values(Append(K, c.delta)) = Append(T!Values(K), c.delta.value)
  BY <1>5, CarriedOneMore
<1>8. Gathered(s, i, kind) = T!Values(K)
  BY DEF Gathered, T!Pick, H, D, K
<1>9. Gathered(Append(s, c), i, kind) = T!Values(T!Having(T!DeltasOf(T!Having(Append(s, c), "index", i)), "kind", kind))
  BY DEF Gathered, T!Pick
<1>10. CASE c.index = i
  BY <1>3, <1>4, <1>6, <1>7, <1>8, <1>9, <1>10
<1>11. CASE c.index # i
  <2>1. Gathered(Append(s, c), i, kind) = Gathered(s, i, kind)
    BY <1>3, <1>9, <1>11 DEF Gathered, T!Pick, H
  <2> QED
    BY <1>11, <2>1
<1> QED
  BY <1>10, <1>11

(* One part more is spoken, or is of another kind.                            *)
LEMMA SpokenOneMore ==
  ASSUME NEW s, IsSeq(s), NEW p, NEW kind
  PROVE  Spoken(Append(s, p), kind) = IF p.kind = kind THEN Append(Spoken(s, kind), p.value) ELSE Spoken(s, kind)
<1> DEFINE K == T!Having(s, "kind", kind)
<1>1. IsSeq(K)
  BY HavingKeeps DEF IsSeq
<1>2. T!Having(Append(s, p), "kind", kind) = IF p.kind = kind THEN Append(K, p) ELSE K
  BY HavingOneMore
<1> HIDE DEF K
<1>3. T!Values(Append(K, p)) = Append(T!Values(K), p.value)
  BY <1>1, CarriedOneMore
<1> QED
  BY <1>2, <1>3 DEF Spoken, T!Pick, K

(* The order in which choices are seen, and the state of the transformer.     *)
Orders == {<<>>, <<0>>, <<1>>, <<0, 1>>, <<1, 0>>}
GeminiStates == [seen : Orders, role : SUBSET T!Indexes, finish : [T!Indexes -> Finishes], tools : Nat]

(* The calls among chunks have numbers below n, and no two have the same.     *)
Numbered(s, n) == \A k \in DOMAIN s : s[k].delta.n \in Nat /\ (s[k].delta.kind = "call" => s[k].delta.n < n)
Apart(s) == \A k, l \in DOMAIN s :
              k # l /\ s[k].delta.kind = "call" /\ s[l].delta.kind = "call" => s[k].delta.n # s[l].delta.n

(* The chunks of a choice so far: the first has the role, none ends it, and   *)
(* no two calls have one number.                                              *)
SoundChoices(i, t) ==
  {s \in Seq(ChunkRows) :
     /\ i \in t.role <=> s # <<>>
     /\ s # <<>> => i \in T!ToSet(t.seen)
     /\ \A k \in DOMAIN s : s[k].role <=> k = 1
     /\ \A k \in DOMAIN s : s[k].finish = "" /\ s[k].delta.kind # "none"
     /\ Numbered(s, t.tools) /\ Apart(s)}

(* What a transformer in state t has written.                                 *)
Writings(t) == {o \in Seq(ChunkRows) : \A i \in T!Indexes : T!Having(o, "index", i) \in SoundChoices(i, t)}

(* One more chunk of a choice that was seen.                                  *)
NextChunk(t, i, d) == [index |-> i, role |-> i \notin t.role, delta |-> d, finish |-> ""]

(* A call takes a number that none before it has.                             *)
LEMMA NumbersStayApart ==
  ASSUME NEW s, IsSeq(s), NEW n \in Nat, NEW m \in Nat, n <= m, NEW c, c.delta.n \in Nat,
         c.delta.kind = "call" => c.delta.n = n /\ m = n + 1
  PROVE  Numbered(s, n) /\ Apart(s) => Numbered(Append(s, c), m) /\ Apart(Append(s, c))
<1> SUFFICES ASSUME Numbered(s, n), Apart(s) PROVE Numbered(Append(s, c), m) /\ Apart(Append(s, c))
  OBVIOUS
<1> DEFINE g == Append(s, c)
<1>1. /\ Len(s) \in Nat /\ DOMAIN s = 1 .. Len(s) /\ DOMAIN g = 1 .. Len(s) + 1
      /\ g[Len(s) + 1] = c /\ \A k \in DOMAIN s : g[k] = s[k]
  BY SeqDomain, SeqGrows
<1> HIDE DEF g
<1>2. \A k \in DOMAIN s : s[k].delta.n \in Nat /\ (s[k].delta.kind = "call" => s[k].delta.n < n)
  BY DEF Numbered
<1>3. ASSUME NEW k \in DOMAIN g
      PROVE  g[k].delta.n \in Nat /\ (g[k].delta.kind = "call" => g[k].delta.n < m)
  <2>1. CASE k \in DOMAIN s
    <3>1. g[k] = s[k] /\ s[k].delta.n \in Nat
      BY <1>1, <1>2, <2>1
    <3>2. s[k].delta.kind = "call" => s[k].delta.n < n
      BY <1>2, <2>1
    <3> QED
      BY <3>1, <3>2
  <2>2. CASE k = Len(s) + 1
    BY <1>1, <2>2
  <2> QED
    BY <1>1, <2>1, <2>2
<1>4. ASSUME NEW k \in DOMAIN g, NEW l \in DOMAIN g, k # l,
             g[k].delta.kind = "call", g[l].delta.kind = "call"
      PROVE  g[k].delta.n # g[l].delta.n
  <2>1. ASSUME NEW x \in DOMAIN s, s[x].delta.kind = "call", c.delta.kind = "call"
        PROVE  s[x].delta.n # c.delta.n
    <3>1. s[x].delta.n < n /\ s[x].delta.n \in Nat /\ c.delta.n = n
      BY <1>2, <2>1
    <3> QED
      BY <3>1
  <2>2. CASE k \in DOMAIN s /\ l \in DOMAIN s
    BY <1>1, <1>4, <2>2 DEF Apart
  <2>3. CASE k \in DOMAIN s /\ l = Len(s) + 1
    BY <1>1, <1>4, <2>1, <2>3
  <2>4. CASE k = Len(s) + 1 /\ l \in DOMAIN s
    BY <1>1, <1>4, <2>1, <2>4
  <2>5. (k \in DOMAIN s \/ k = Len(s) + 1) /\ (l \in DOMAIN s \/ l = Len(s) + 1)
    BY <1>1
  <2> QED
    BY <1>4, <2>2, <2>3, <2>4, <2>5
<1>5. Numbered(g, m)
  BY <1>3 DEF Numbered
<1>6. Apart(g)
  BY <1>4 DEF Apart
<1> QED
  BY <1>5, <1>6 DEF g

(* A choice that goes on with a sound chunk stays sound.                      *)
LEMMA SoundChoiceGrows ==
  ASSUME NEW t \in GeminiStates, NEW i \in T!Indexes, NEW s \in SoundChoices(i, t),
         NEW d \in DeltaRows, d.kind # "none",
         NEW u \in GeminiStates, i \in T!ToSet(u.seen), i \in u.role,
         t.tools <= u.tools, d.kind = "call" => d.n = t.tools /\ u.tools = t.tools + 1
  PROVE  Append(s, NextChunk(t, i, d)) \in SoundChoices(i, u)
<1> DEFINE c == NextChunk(t, i, d)
           g == Append(s, c)
<1>1. c \in ChunkRows /\ c.delta = d /\ c.finish = ""
  BY DEF ChunkRows, Finishes, NextChunk
<1>2. c.role <=> i \notin t.role
  BY DEF NextChunk
<1> HIDE DEF c
<1>3. t.tools \in Nat /\ u.tools \in Nat /\ d.n \in Nat
  BY DEF GeminiStates, DeltaRows
<1>4. s \in Seq(ChunkRows) /\ IsSeq(s)
  BY Zenon DEF SoundChoices, IsSeq
<1>5. /\ Len(s) \in Nat /\ DOMAIN s = 1 .. Len(s) /\ DOMAIN g = 1 .. Len(s) + 1
      /\ g[Len(s) + 1] = c /\ \A k \in DOMAIN s : g[k] = s[k]
  BY <1>4, SeqDomain, SeqGrows
<1>6. g \in Seq(ChunkRows)
  BY <1>1, <1>4, AppendProperties, Zenon
<1>7. Numbered(s, t.tools) /\ Apart(s)
  BY Zenon DEF SoundChoices
<1>8. Numbered(g, u.tools) /\ Apart(g)
  <2>1. c.delta.n \in Nat /\ (c.delta.kind = "call" => c.delta.n = t.tools /\ u.tools = t.tools + 1)
    BY <1>1, <1>3, Zenon
  <2> QED
    BY <1>3, <1>4, <1>7, <2>1, NumbersStayApart
<1> HIDE DEF g
<1>9. (i \in t.role <=> s # <<>>) /\ \A k \in DOMAIN s : s[k].role <=> k = 1
  BY Zenon DEF SoundChoices
<1>10. s = <<>> <=> Len(s) = 0
  BY <1>4
<1>15. \A k \in DOMAIN g : k \in DOMAIN s \/ k = Len(s) + 1
  BY <1>5
<1>11. ASSUME NEW k \in DOMAIN g PROVE g[k].role <=> k = 1
  <2>1. CASE k \in DOMAIN s
    BY <1>5, <1>9, <2>1
  <2>2. CASE k = Len(s) + 1
    BY <1>2, <1>5, <1>9, <1>10, <2>2
  <2> QED
    BY <1>15, <2>1, <2>2
<1>12. ASSUME NEW k \in DOMAIN g PROVE g[k].finish = "" /\ g[k].delta.kind # "none"
  <2>1. CASE k \in DOMAIN s
    BY <1>5, <2>1, Zenon DEF SoundChoices
  <2>2. CASE k = Len(s) + 1
    BY <1>1, <1>5, <2>2, Zenon
  <2> QED
    BY <1>15, <2>1, <2>2, Zenon
<1>13. g # <<>>
  BY <1>5
<1>14. g \in SoundChoices(i, u)
  BY <1>6, <1>8, <1>11, <1>12, <1>13, Zenon DEF SoundChoices
<1> QED
  BY <1>14 DEF g, c

(* Other chunks of the transformer do not matter to a choice.                 *)
LEMMA SoundChoiceStays ==
  ASSUME NEW t \in GeminiStates, NEW i \in T!Indexes, NEW s \in SoundChoices(i, t),
         NEW u \in GeminiStates, T!ToSet(t.seen) \subseteq T!ToSet(u.seen),
         i \in t.role <=> i \in u.role, t.tools <= u.tools
  PROVE  s \in SoundChoices(i, u)
<1>1. t.tools \in Nat /\ u.tools \in Nat
  BY DEF GeminiStates
<1>2. Numbered(s, t.tools)
  BY Zenon DEF SoundChoices
<1>3. ASSUME NEW k \in DOMAIN s PROVE s[k].delta.n \in Nat /\ (s[k].delta.kind = "call" => s[k].delta.n < u.tools)
  <2>1. s[k].delta.n \in Nat /\ (s[k].delta.kind = "call" => s[k].delta.n < t.tools)
    BY <1>2 DEF Numbered
  <2> QED
    BY <1>1, <2>1
<1>4. Numbered(s, u.tools)
  BY <1>3 DEF Numbered
<1> QED
  BY <1>4, Zenon DEF SoundChoices

(* One more chunk of a choice that is seen.                                   *)
LEMMA WritingGrows ==
  ASSUME NEW t \in GeminiStates, NEW o \in Writings(t), NEW i \in T!Indexes,
         NEW d \in DeltaRows, d.kind # "none",
         NEW u \in GeminiStates, u.seen = t.seen, i \in T!ToSet(t.seen), u.role = t.role \cup {i},
         t.tools <= u.tools, d.kind = "call" => d.n = t.tools /\ u.tools = t.tools + 1
  PROVE  Append(o, NextChunk(t, i, d)) \in Writings(u)
<1> DEFINE c == NextChunk(t, i, d)
<1>1. c \in ChunkRows /\ c.index = i
  BY DEF ChunkRows, Finishes, NextChunk
<1>2. o \in Seq(ChunkRows) /\ IsSeq(o)
  BY DEF Writings, IsSeq
<1> HIDE DEF c
<1>3. Append(o, c) \in Seq(ChunkRows)
  BY <1>1, <1>2, AppendProperties
<1>4. ASSUME NEW j \in T!Indexes PROVE T!Having(Append(o, c), "index", j) \in SoundChoices(j, u)
  <2>1. T!Having(o, "index", j) \in SoundChoices(j, t)
    BY DEF Writings
  <2>2. T!Having(Append(o, c), "index", j) = IF i = j THEN Append(T!Having(o, "index", j), c) ELSE T!Having(o, "index", j)
    BY <1>1, <1>2, HavingOneMore
  <2>3. CASE i = j
    <3>1. i \in u.role /\ i \in T!ToSet(u.seen)
      OBVIOUS
    <3>2. Append(T!Having(o, "index", i), c) \in SoundChoices(i, u)
      BY <2>1, <2>3, <3>1, SoundChoiceGrows DEF c
    <3> QED
      BY <2>2, <2>3, <3>2
  <2>4. CASE i # j
    <3>1. j \in t.role <=> j \in u.role
      BY <2>4
    <3>2. T!ToSet(t.seen) \subseteq T!ToSet(u.seen)
      OBVIOUS
    <3>3. T!Having(o, "index", j) \in SoundChoices(j, u)
      BY <2>1, <3>1, <3>2, SoundChoiceStays
    <3> QED
      BY <2>2, <2>4, <3>3
  <2> QED
    BY <2>3, <2>4
<1> QED
  BY <1>3, <1>4 DEF Writings, c

(* What the transformer is and has written.                                   *)
GeminiRuns == {r \in [t : GeminiStates, out : Seq(ChunkRows)] : r.out \in Writings(r.t)}

(* A client has heard more from a chunk, of the choice and kind it has.       *)
OneMoreTold(o, i, kind, value, j, k) ==
  IF j = i /\ kind = k THEN Append(Gathered(o, j, k), value) ELSE Gathered(o, j, k)

(* What a chunk may say, and what becomes of the transformer by it.           *)
Sayable == {d \in DeltaRows : d.kind # "none"}
Nexts(t, i, d) ==
  {u \in GeminiStates :
     /\ u.seen = t.seen /\ u.role = t.role \cup {i} /\ t.tools <= u.tools
     /\ d.kind = "call" => d.n = t.tools /\ u.tools = t.tools + 1}
Goes(r, i, d, u) == [t |-> u, out |-> Append(r.out, NextChunk(r.t, i, d))]

(* One chunk more keeps what is true of a run, and tells its own value alone. *)
LEMMA ChunkKeeps ==
  ASSUME NEW r \in GeminiRuns, NEW i \in T!Indexes, i \in T!ToSet(r.t.seen),
         NEW d \in Sayable, NEW u \in Nexts(r.t, i, d), NEW q, q = Goes(r, i, d, u)
  PROVE  /\ q \in GeminiRuns
         /\ \A j, k : Gathered(q.out, j, k) = OneMoreTold(r.out, i, d.kind, d.value, j, k)
<1> DEFINE c == NextChunk(r.t, i, d)
           t == r.t
           o == r.out
<1>0. /\ d \in DeltaRows /\ d.kind # "none" /\ q = [t |-> u, out |-> Append(r.out, NextChunk(r.t, i, d))]
      /\ u \in GeminiStates /\ u.seen = r.t.seen /\ u.role = r.t.role \cup {i}
      /\ r.t.tools <= u.tools /\ (d.kind = "call" => d.n = r.t.tools /\ u.tools = r.t.tools + 1)
  BY DEF Sayable, Nexts, Goes
<1>1. t \in GeminiStates /\ o \in Writings(t) /\ o \in Seq(ChunkRows)
  BY DEF GeminiRuns
<1>2. Append(o, c) \in Writings(u)
  <2> HIDE DEF t, o
  <2>1. /\ i \in T!ToSet(t.seen) /\ u.seen = t.seen /\ u.role = t.role \cup {i}
        /\ t.tools <= u.tools /\ (d.kind = "call" => d.n = t.tools /\ u.tools = t.tools + 1)
    BY <1>0 DEF t
  <2>2. Append(o, NextChunk(t, i, d)) \in Writings(u)
    BY <1>0, <1>1, <2>1, WritingGrows
  <2> QED
    BY <2>2 DEF t
<1>3. q \in GeminiRuns
  <2>1. Append(o, c) \in Seq(ChunkRows)
    BY <1>2 DEF Writings
  <2>2. q = [t |-> u, out |-> Append(o, c)] /\ u \in GeminiStates
    BY <1>0
  <2> DEFINE g == Append(o, c)
  <2>3. g \in Writings(u) /\ g \in Seq(ChunkRows) /\ q = [t |-> u, out |-> g]
    BY <1>2, <2>1, <2>2
  <2> HIDE DEF g
  <2>5. q = [t |-> u, out |-> g]
    BY <2>3
  <2>6. u \in GeminiStates /\ g \in Seq(ChunkRows)
    BY <2>2, <2>3
  <2>4. q \in [t : GeminiStates, out : Seq(ChunkRows)] /\ q.t = u /\ q.out = g
    BY <2>5, <2>6
  <2> QED
    BY <2>3, <2>4 DEF GeminiRuns
<1>4. c \in ChunkRows /\ c.index = i /\ c.delta = d
  BY <1>0, Zenon DEF ChunkRows, Finishes, NextChunk
<1> HIDE DEF c, o
<1>5. ASSUME NEW j, NEW k PROVE Gathered(q.out, j, k) = OneMoreTold(o, i, d.kind, d.value, j, k)
  <2>1. Gathered(Append(o, c), j, k) = IF c.index = j /\ c.delta.kind = k THEN Append(Gathered(o, j, k), c.delta.value)
                                       ELSE Gathered(o, j, k)
    BY <1>1, <1>4, GatheredOneMore
  <2>2. q.out = Append(o, c)
    BY <1>0 DEF c, o
  <2> QED
    BY <1>4, <2>1, <2>2 DEF OneMoreTold
<1> QED
  BY <1>3, <1>5 DEF o

CallCounted(x, i, reason) == [x EXCEPT !.tools = @ + 1, !.finish[i] = reason]

(* A call that is counted changes the count and one reason.                   *)
LEMMA CallIsCounted ==
  ASSUME NEW seen, NEW role, NEW finish, NEW n, NEW i, NEW reason,
         NEW x, x = [seen |-> seen, role |-> role, finish |-> finish, tools |-> n]
  PROVE  CallCounted(x, i, reason)
           = [seen |-> seen, role |-> role, finish |-> [finish EXCEPT ![i] = reason], tools |-> n + 1]
<1> DEFINE y == [seen |-> seen, role |-> role, finish |-> finish, tools |-> n + 1]
<1>1. x.tools = n
  OBVIOUS
<1>2. [x EXCEPT !.tools = n + 1] = y
  OBVIOUS
<1>3. [y EXCEPT !.finish[i] = reason] = [seen |-> seen, role |-> role, finish |-> [finish EXCEPT ![i] = reason], tools |-> n + 1]
  OBVIOUS
<1> HIDE DEF y
<1>4. [x EXCEPT !.tools = @ + 1, !.finish[i] = reason] = [[x EXCEPT !.tools = x.tools + 1] EXCEPT !.finish[i] = reason]
  OBVIOUS
<1>5. [x EXCEPT !.tools = @ + 1, !.finish[i] = reason] = [y EXCEPT !.finish[i] = reason]
  BY <1>1, <1>2, <1>4
<1> QED
  BY <1>3, <1>5 DEF CallCounted

(* One part more keeps what is true of a run, and tells that part alone.      *)
LEMMA PartKeeps ==
  ASSUME NEW r \in GeminiRuns, NEW i \in T!Indexes, i \in T!ToSet(r.t.seen), NEW p \in Pieces
  PROVE  /\ T!PutPart(r, i, p) \in GeminiRuns
         /\ T!PutPart(r, i, p).t.seen = r.t.seen
         /\ \A j : \A k \in Kinds : Gathered(T!PutPart(r, i, p).out, j, k) = OneMoreTold(r.out, i, p.kind, p.value, j, k)
<1>1. /\ r.t \in GeminiStates /\ r.t.tools \in Nat /\ r.t.role \in SUBSET T!Indexes
      /\ r.t.finish \in [T!Indexes -> Finishes] /\ r.t.seen \in Orders
      /\ r.t = [seen |-> r.t.seen, role |-> r.t.role, finish |-> r.t.finish, tools |-> r.t.tools]
      /\ p.kind \in {"content", "reasoning", "call", "empty"} /\ p.value \in STRING
  BY DEF GeminiRuns, GeminiStates, Pieces
<1>2. CASE p.kind = "empty"
  <2>1. T!PutPart(r, i, p) = r
    BY <1>2 DEF T!PutPart
  <2>2. \A k \in Kinds : k # "empty"
    BY DEF Kinds
  <2> QED
    BY <1>2, <2>1, <2>2 DEF OneMoreTold
<1>3. CASE p.kind = "call"
  <2> DEFINE d == T!Delta("call", p.value, r.t.tools)
             u == [seen |-> r.t.seen, role |-> r.t.role \cup {i},
                   finish |-> [r.t.finish EXCEPT ![i] = "tool_calls"], tools |-> r.t.tools + 1]
  <2>0. PICK q : q = Goes(r, i, d, u)
    OBVIOUS
  <2>1. d \in DeltaRows /\ d.kind = "call" /\ d.value = p.value /\ d.n = r.t.tools
    BY <1>1, Zenon DEF T!Delta, DeltaRows, Words
  <2>2. u \in GeminiStates
    <3>1. r.t.role \cup {i} \in SUBSET T!Indexes /\ r.t.tools + 1 \in Nat
      BY <1>1
    <3>2. [r.t.finish EXCEPT ![i] = "tool_calls"] \in [T!Indexes -> Finishes]
      BY <1>1, Zenon DEF Finishes
    <3> QED
      BY <1>1, <3>1, <3>2 DEF GeminiStates
  <2>3. T!PutPart(r, i, p) = q
    <3> DEFINE c == T!Chunk(r, i, d)
               v == [r.t EXCEPT !.role = @ \cup {i}]
               o == Append(r.out, NextChunk(r.t, i, d))
               x == c.t
    <3>1. c = [t |-> v, out |-> o]
      BY DEF T!Chunk, NextChunk
    <3>2. v = [seen |-> r.t.seen, role |-> r.t.role \cup {i}, finish |-> r.t.finish, tools |-> r.t.tools]
      <4> DEFINE t == r.t
      <4>1. t = [seen |-> t.seen, role |-> t.role, finish |-> t.finish, tools |-> t.tools]
        BY <1>1
      <4> HIDE DEF t
      <4>2. [t EXCEPT !.role = @ \cup {i}] = [seen |-> t.seen, role |-> t.role \cup {i}, finish |-> t.finish, tools |-> t.tools]
        BY <4>1
      <4> QED
        BY <4>2 DEF t
    <3>3. T!PutPart(r, i, p) = [t |-> [c.t EXCEPT !.tools = @ + 1, !.finish[i] = "tool_calls"], out |-> c.out]
      BY <1>3 DEF T!PutPart
    <3>7. u = [seen |-> r.t.seen, role |-> r.t.role \cup {i},
               finish |-> [r.t.finish EXCEPT ![i] = "tool_calls"], tools |-> r.t.tools + 1]
      OBVIOUS
    <3> HIDE DEF c, d, v, o, x, u
    <3>4. x = v /\ c.out = o
      BY <3>1 DEF x
    <3>6. [x EXCEPT !.tools = @ + 1, !.finish[i] = "tool_calls"] = u
      <4> DEFINE seen == r.t.seen
                 role == r.t.role \cup {i}
                 finish == r.t.finish
                 tools == r.t.tools
      <4>1. x = [seen |-> seen, role |-> role, finish |-> finish, tools |-> tools]
        BY <3>2, <3>4
      <4>2. u = [seen |-> seen, role |-> role, finish |-> [finish EXCEPT ![i] = "tool_calls"], tools |-> tools + 1]
        BY <3>7
      <4> HIDE DEF seen, role, finish, tools
      <4>3. CallCounted(x, i, "tool_calls") = u
        BY <4>1, <4>2, CallIsCounted
      <4> QED
        BY <4>3 DEF CallCounted
    <3> QED
      BY <2>0, <3>3, <3>4, <3>6 DEF x, o, Goes
  <2>4. u.seen = r.t.seen /\ u.role = r.t.role \cup {i} /\ u.tools = r.t.tools + 1 /\ r.t.tools <= u.tools
    BY <1>1
  <2> HIDE DEF d, u
  <2>6. d.kind # "none" /\ (d.kind = "call" => d.n = r.t.tools /\ u.tools = r.t.tools + 1)
    BY <2>1, <2>4
  <2>5. q \in GeminiRuns /\ \A j, k : Gathered(q.out, j, k) = OneMoreTold(r.out, i, d.kind, d.value, j, k)
    <3>1. d \in Sayable /\ u \in Nexts(r.t, i, d)
      BY <2>1, <2>2, <2>4, <2>6 DEF Sayable, Nexts
    <3> QED
      BY <2>0, <3>1, ChunkKeeps
  <2>7. q.t.seen = r.t.seen
    BY <2>0, <2>4 DEF Goes
  <2> QED
    BY <1>3, <2>1, <2>3, <2>5, <2>7
<1>4. CASE p.kind \notin {"empty", "call"}
  <2> DEFINE d == T!Delta(p.kind, p.value, 0)
             u == [r.t EXCEPT !.role = @ \cup {i}]
  <2>0. PICK q : q = Goes(r, i, d, u)
    OBVIOUS
  <2>1. d \in DeltaRows /\ d.kind = p.kind /\ d.value = p.value
    BY <1>1, <1>4, Zenon DEF T!Delta, DeltaRows, Words
  <2>2. u \in GeminiStates /\ u.seen = r.t.seen /\ u.role = r.t.role \cup {i} /\ u.tools = r.t.tools
    BY <1>1 DEF GeminiStates
  <2>3. T!PutPart(r, i, p) = q
    BY <1>4, <2>0, Zenon DEF Goes, T!PutPart, T!Chunk, NextChunk
  <2>5. d.kind # "none" /\ (d.kind = "call" => d.n = r.t.tools /\ u.tools = r.t.tools + 1)
    BY <1>1, <1>4, <2>1
  <2>6. r.t.tools <= u.tools
    BY <1>1, <2>2
  <2> HIDE DEF d, u
  <2>4. q \in GeminiRuns /\ \A j, k : Gathered(q.out, j, k) = OneMoreTold(r.out, i, d.kind, d.value, j, k)
    <3>1. d \in Sayable /\ u \in Nexts(r.t, i, d)
      BY <2>1, <2>2, <2>5, <2>6 DEF Sayable, Nexts
    <3> QED
      BY <2>0, <3>1, ChunkKeeps
  <2>7. q.t.seen = r.t.seen
    BY <2>0, <2>2 DEF Goes
  <2> QED
    BY <2>1, <2>3, <2>4, <2>7
<1> QED
  BY <1>2, <1>3, <1>4

(* Concatenation, one more at a time.                                         *)
LEMMA ConcatOneMore ==
  ASSUME NEW a, NEW b, IsSeq(a), IsSeq(b), NEW x
  PROVE  a \o Append(b, x) = Append(a \o b, x) /\ IsSeq(a \o b)
<1>1. PICK X : a \in Seq(X)
  BY DEF IsSeq
<1>2. PICK Y : b \in Seq(Y)
  BY DEF IsSeq
<1> DEFINE Z == X \cup Y \cup {x}
<1>3. a \in Seq(Z) /\ b \in Seq(Z) /\ x \in Z
  BY <1>1, <1>2
<1> HIDE DEF Z
<1>4. a \o b \in Seq(Z) /\ a \o Append(b, x) = Append(a \o b, x)
  BY <1>3
<1> QED
  BY <1>4 DEF IsSeq

(* Nothing is added by an empty sequence.                                     *)
LEMMA ConcatNothing ==
  ASSUME NEW s, IsSeq(s)
  PROVE  s \o <<>> = s /\ <<>> \o s = s
BY DEF IsSeq

(* No parts say nothing.                                                      *)
LEMMA SpokenNothing == \A kind : Spoken(<<>>, kind) = <<>>
BY HavingNothing DEF Spoken, T!Pick, T!Values

(* What is spoken is a sequence.                                              *)
LEMMA SpokenIsSeq ==
  ASSUME NEW s, IsSeq(s), NEW kind
  PROVE  IsSeq(Spoken(s, kind))
<1>1. IsSeq(T!Having(s, "kind", kind))
  BY HavingKeeps DEF IsSeq
<1> QED
  BY <1>1, CarriedOneMore DEF Spoken, T!Pick

(* Parts after parts say one after the other.                                 *)
LEMMA SpokenConcat ==
  ASSUME NEW a, IsSeq(a), NEW b, IsSeq(b), NEW kind
  PROVE  Spoken(a \o b, kind) = Spoken(a, kind) \o Spoken(b, kind)
<1>1. PICK Y : b \in Seq(Y)
  BY DEF IsSeq
<1> DEFINE B(n) == SubSeq(b, 1, n)
           Q == {n \in Nat : n <= Len(b) => Spoken(a \o B(n), kind) = Spoken(a, kind) \o Spoken(B(n), kind)}
<1>2. IsSeq(Spoken(a, kind)) /\ IsSeq(<<>>)
  <2>1. <<>> \in Seq({})
    OBVIOUS
  <2> QED
    BY <2>1, SpokenIsSeq DEF IsSeq
<1>3. /\ B(0) = <<>> /\ B(Len(b)) = b
      /\ \A n \in 0 .. Len(b) - 1 : IsSeq(B(n)) /\ B(n + 1) = Append(B(n), b[n + 1])
  <2>1. \A n \in 0 .. Len(b) - 1 : IsSeq(B(n))
    BY <1>1, BeginningsAreSeqs
  <2>2. B(0) = <<>> /\ B(Len(b)) = b /\ \A n \in 0 .. Len(b) - 1 : B(n + 1) = Append(B(n), b[n + 1])
    BY <1>1, Beginnings
  <2> HIDE DEF B
  <2> QED
    BY <2>1, <2>2
<1> HIDE DEF B
<1>4. 0 \in Q
  <2>1. a \o <<>> = a /\ Spoken(a, kind) \o <<>> = Spoken(a, kind)
    BY <1>2, ConcatNothing
  <2> QED
    BY <1>3, <2>1, SpokenNothing
<1>5. ASSUME NEW n \in Nat, n \in Q PROVE n + 1 \in Q
  <2> SUFFICES ASSUME n + 1 <= Len(b)
               PROVE  Spoken(a \o B(n + 1), kind) = Spoken(a, kind) \o Spoken(B(n + 1), kind)
    OBVIOUS
  <2>1. n \in 0 .. Len(b) - 1 /\ n <= Len(b)
    <3>1. Len(b) \in Nat
      BY <1>1
    <3> QED
      BY <3>1
  <2> DEFINE h == B(n)
             x == b[n + 1]
  <2>2. IsSeq(h) /\ B(n + 1) = Append(h, x)
    BY <1>3, <2>1
  <2>3. Spoken(a \o h, kind) = Spoken(a, kind) \o Spoken(h, kind)
    BY <1>5, <2>1
  <2> HIDE DEF h, x
  <2>4. a \o Append(h, x) = Append(a \o h, x)
    BY <2>2, ConcatOneMore
  <2>9. IsSeq(a \o h)
    BY <2>2, ConcatOneMore
  <2>5. Spoken(Append(a \o h, x), kind) = IF x.kind = kind THEN Append(Spoken(a \o h, kind), x.value) ELSE Spoken(a \o h, kind)
    BY <2>9, SpokenOneMore
  <2>6. Spoken(Append(h, x), kind) = IF x.kind = kind THEN Append(Spoken(h, kind), x.value) ELSE Spoken(h, kind)
    BY <2>2, SpokenOneMore
  <2>7. IsSeq(Spoken(h, kind))
    BY <2>2, SpokenIsSeq
  <2>8. Spoken(a, kind) \o Append(Spoken(h, kind), x.value) = Append(Spoken(a, kind) \o Spoken(h, kind), x.value)
    BY <1>2, <2>7, ConcatOneMore
  <2> QED
    BY <2>2, <2>3, <2>4, <2>5, <2>6, <2>8
<1>6. Nat \subseteq Q
  <2> HIDE DEF Q
  <2> QED
    BY <1>4, <1>5, Counting
<1>7. Len(b) \in Q /\ Len(b) <= Len(b)
  BY <1>1, <1>6
<1> QED
  BY <1>3, <1>7

(* The parts of the candidates with an index.                                 *)
CandidateRows == [index : T!Indexes, parts : Seq(Pieces), reason : STRING]

PartsOfAll(h) == [k \in DOMAIN h |-> h[k].parts]
PartsIn(cs, i) == T!Flat(PartsOfAll(T!Having(cs, "index", i)))

(* One candidate more has its parts after those of the others.                *)
LEMMA PartsOneMore ==
  ASSUME NEW s, IsSeq(s), NEW x
  PROVE  IsSeq(PartsOfAll(s)) /\ PartsOfAll(Append(s, x)) = Append(PartsOfAll(s), x.parts)
<1> DEFINE t == Append(s, x)
           V == {s[k].parts : k \in DOMAIN s} \cup {x.parts}
<1>1. /\ Len(s) \in Nat /\ DOMAIN s = 1 .. Len(s) /\ DOMAIN t = 1 .. Len(s) + 1
      /\ t[Len(s) + 1] = x /\ \A k \in DOMAIN s : t[k] = s[k]
  BY SeqDomain, SeqGrows
<1> HIDE DEF t
<1>2. /\ PartsOfAll(s) = [k \in 1 .. Len(s) |-> s[k].parts]
      /\ PartsOfAll(t) = [k \in 1 .. Len(s) + 1 |-> t[k].parts]
  BY <1>1 DEF PartsOfAll
<1>3. PartsOfAll(s) \in Seq(V) /\ x.parts \in V /\ Len(PartsOfAll(s)) = Len(s)
  BY <1>1, <1>2
<1> HIDE DEF V
<1>4. PartsOfAll(t) = Append(PartsOfAll(s), x.parts)
  BY <1>1, <1>2, <1>3
<1> QED
  BY <1>3, <1>4 DEF t, IsSeq

(* No candidates have no parts.                                               *)
LEMMA PartsInNothing == \A i : PartsIn(<<>>, i) = <<>>
<1>1. PartsOfAll(<<>>) = <<>>
  BY DEF PartsOfAll
<1> QED
  BY <1>1, HavingNothing, FlatNothing DEF PartsIn

(* One candidate more has parts of its own index alone.                       *)
LEMMA PartsInOneMore ==
  ASSUME NEW s, IsSeq(s), NEW c, NEW i
  PROVE  PartsIn(Append(s, c), i) = IF c.index = i THEN PartsIn(s, i) \o c.parts ELSE PartsIn(s, i)
<1> DEFINE H == T!Having(s, "index", i)
           F == PartsOfAll(H)
<1>1. IsSeq(H)
  BY HavingKeeps DEF IsSeq
<1>2. T!Having(Append(s, c), "index", i) = IF c.index = i THEN Append(H, c) ELSE H
  BY HavingOneMore
<1> HIDE DEF H
<1>3. IsSeq(F) /\ PartsOfAll(Append(H, c)) = Append(F, c.parts)
  BY <1>1, PartsOneMore
<1> HIDE DEF F
<1>4. T!Flat(Append(F, c.parts)) = T!Flat(F) \o c.parts
  BY <1>3, FlatOneMore
<1>5. PartsIn(s, i) = T!Flat(F)
  BY DEF PartsIn, F, H
<1> QED
  BY <1>2, <1>3, <1>4, <1>5 DEF PartsIn, F

(* The parts of an index are pieces.                                          *)
LEMMA PartsInArePieces ==
  ASSUME NEW s \in Seq(CandidateRows), NEW i
  PROVE  PartsIn(s, i) \in Seq(Pieces)
<1> DEFINE B(n) == SubSeq(s, 1, n)
           Q == {n \in Nat : n <= Len(s) => PartsIn(B(n), i) \in Seq(Pieces)}
<1>1. /\ B(0) = <<>> /\ B(Len(s)) = s /\ Len(s) \in Nat
      /\ \A n \in 0 .. Len(s) - 1 : /\ IsSeq(B(n)) /\ s[n + 1] \in CandidateRows
                                    /\ B(n + 1) = Append(B(n), s[n + 1])
  <2>1. \A n \in 0 .. Len(s) - 1 : IsSeq(B(n))
    BY BeginningsAreSeqs
  <2>2. /\ B(0) = <<>> /\ B(Len(s)) = s /\ Len(s) \in Nat
        /\ \A n \in 0 .. Len(s) - 1 : s[n + 1] \in CandidateRows /\ B(n + 1) = Append(B(n), s[n + 1])
    BY Beginnings
  <2> HIDE DEF B
  <2> QED
    BY <2>1, <2>2
<1> HIDE DEF B
<1>2. 0 \in Q
  <2>1. <<>> \in Seq(Pieces)
    OBVIOUS
  <2> QED
    BY <1>1, <2>1, PartsInNothing, Zenon
<1>3. ASSUME NEW n \in Nat, n \in Q PROVE n + 1 \in Q
  <2> SUFFICES ASSUME n + 1 <= Len(s) PROVE PartsIn(B(n + 1), i) \in Seq(Pieces)
    OBVIOUS
  <2>1. n \in 0 .. Len(s) - 1 /\ n <= Len(s)
    BY <1>1
  <2> DEFINE h == B(n)
             c == s[n + 1]
  <2>2. IsSeq(h) /\ c \in CandidateRows /\ B(n + 1) = Append(h, c)
    BY <1>1, <2>1
  <2>3. PartsIn(h, i) \in Seq(Pieces)
    BY <1>3, <2>1
  <2> HIDE DEF h, c
  <2>4. PartsIn(Append(h, c), i) = IF c.index = i THEN PartsIn(h, i) \o c.parts ELSE PartsIn(h, i)
    BY <2>2, PartsInOneMore
  <2>5. c.parts \in Seq(Pieces)
    BY <2>2 DEF CandidateRows
  <2>6. PartsIn(h, i) \o c.parts \in Seq(Pieces)
    BY <2>3, <2>5, ConcatProperties
  <2> QED
    BY <2>2, <2>3, <2>4, <2>6
<1>4. Nat \subseteq Q
  <2> HIDE DEF Q
  <2> QED
    BY <1>2, <1>3, Counting
<1>5. Len(s) \in Q /\ Len(s) <= Len(s)
  BY <1>1, <1>4
<1> QED
  BY <1>1, <1>5

PutParts(r, i, parts) == T!FoldLeft(LAMBDA q, p : T!PutPart(q, i, p), r, parts)

(* Putting all parts of a candidate is a fold.                                *)
LEMMA PartsFolds ==
  ASSUME NEW r, NEW i, NEW s, IsSeq(s)
  PROVE  PutParts(r, i, s) = Folded("parts", i, r, s, Len(s))
<1> DEFINE Going(it) == [t \in SUBSET DOMAIN s |->
                    IF t = {} THEN r
                    ELSE LET x == T!Max(t) IN T!PutPart(it[t \ {x}], i, s[x])]
           It == CHOOSE it : it = Going(it)
<1>1. PutParts(r, i, s) = It[DOMAIN s]
  BY DEF PutParts, T!FoldLeft, T!MapThenFoldSet
<1>2. DOMAIN s = 1 .. Len(s) /\ Len(s) \in Nat
  BY SeqDomain
<1>3. ASSUME NEW it PROVE Going(it) = Folding("parts", i, r, s, Len(s), it)
  BY <1>2, SameMax DEF Folding, Step
<1> HIDE DEF Going
<1>4. \E it : it = Going(it)
  BY <1>2, <1>3, FoldingExists DEF IsFold
<1>5. IsFold("parts", i, r, s, Len(s), It)
  BY <1>3, <1>4 DEF IsFold
<1> HIDE DEF It
<1> QED
  BY <1>1, <1>2, <1>5, FoldChosen

(* What a client gathers is a sequence.                                       *)
LEMMA GatheredIsSeq ==
  ASSUME NEW o \in Seq(ChunkRows), NEW i, NEW kind
  PROVE  IsSeq(Gathered(o, i, kind))
<1> DEFINE H == T!Having(o, "index", i)
           D == T!DeltasOf(H)
           K == T!Having(D, "kind", kind)
<1>1. IsSeq(H)
  BY HavingKeeps DEF IsSeq
<1> HIDE DEF H
<1>2. IsSeq(D)
  BY <1>1, CarriedOneMore
<1> HIDE DEF D
<1>3. IsSeq(K)
  BY <1>2, HavingKeeps DEF IsSeq
<1> HIDE DEF K
<1>4. IsSeq(T!Values(K))
  BY <1>3, CarriedOneMore
<1> QED
  BY <1>4 DEF Gathered, T!Pick, K, D, H

(* What it may have become once parts of a choice are told.                   *)
PartsTold(r, i, parts) ==
  {x \in GeminiRuns :
     /\ x.t.seen = r.t.seen
     /\ \A j \in T!Indexes, k \in Kinds :
          Gathered(x.out, j, k) = IF j = i THEN Gathered(r.out, j, k) \o Spoken(parts, k) ELSE Gathered(r.out, j, k)}

(* What some parts told, with one part more.                                  *)
LEMMA ToldOneMore ==
  ASSUME NEW r \in GeminiRuns, NEW i \in T!Indexes, i \in T!ToSet(r.t.seen),
         NEW parts \in Seq(Pieces), NEW p \in Pieces, NEW x \in PartsTold(r, i, parts)
  PROVE  T!PutPart(x, i, p) \in PartsTold(r, i, Append(parts, p))
<1> DEFINE y == T!PutPart(x, i, p)
<1>1. /\ x \in GeminiRuns /\ x.t.seen = r.t.seen
      /\ \A j \in T!Indexes, k \in Kinds :
          Gathered(x.out, j, k) = IF j = i THEN Gathered(r.out, j, k) \o Spoken(parts, k) ELSE Gathered(r.out, j, k)
  BY DEF PartsTold
<1>2. /\ y \in GeminiRuns /\ y.t.seen = x.t.seen
      /\ \A j : \A k \in Kinds : Gathered(y.out, j, k) = OneMoreTold(x.out, i, p.kind, p.value, j, k)
  <2>1. i \in T!ToSet(x.t.seen)
    BY <1>1
  <2> QED
    BY <1>1, <2>1, PartKeeps
<1> HIDE DEF y
<1>3. ASSUME NEW j \in T!Indexes, NEW k \in Kinds
      PROVE  Gathered(y.out, j, k) = IF j = i THEN Gathered(r.out, j, k) \o Spoken(Append(parts, p), k) ELSE Gathered(r.out, j, k)
  <2> DEFINE g == Gathered(r.out, j, k)
             v == Spoken(parts, k)
  <2>1. Gathered(y.out, j, k) = IF j = i /\ p.kind = k THEN Append(Gathered(x.out, j, k), p.value) ELSE Gathered(x.out, j, k)
    BY <1>2 DEF OneMoreTold
  <2>2. Gathered(x.out, j, k) = IF j = i THEN g \o v ELSE g
    BY <1>1
  <2>3. IsSeq(parts)
    BY DEF IsSeq
  <2>4. Spoken(Append(parts, p), k) = IF p.kind = k THEN Append(v, p.value) ELSE v
    BY <2>3, SpokenOneMore
  <2>5. IsSeq(g) /\ IsSeq(v)
    <3>1. r.out \in Seq(ChunkRows)
      BY DEF GeminiRuns
    <3> QED
      BY <2>3, <3>1, GatheredIsSeq, SpokenIsSeq
  <2> HIDE DEF g, v
  <2>6. g \o Append(v, p.value) = Append(g \o v, p.value)
    BY <2>5, ConcatOneMore
  <2>7. Gathered(y.out, j, k) = IF j = i THEN g \o Spoken(Append(parts, p), k) ELSE g
    BY <2>1, <2>2, <2>4, <2>6
  <2> QED
    BY <2>7 DEF g
<1>4. y.t.seen = r.t.seen
  BY <1>1, <1>2
<1>5. y \in PartsTold(r, i, Append(parts, p))
  BY <1>2, <1>3, <1>4 DEF PartsTold
<1> QED
  BY <1>5 DEF y

(* All parts of a candidate are told, in order, and nothing else is.          *)
LEMMA PartsKeep ==
  ASSUME NEW r \in GeminiRuns, NEW i \in T!Indexes, i \in T!ToSet(r.t.seen), NEW parts \in Seq(Pieces)
  PROVE  PutParts(r, i, parts) \in PartsTold(r, i, parts)
<1> DEFINE P == [n \in Nat |-> PartsTold(r, i, SubSeq(parts, 1, n))]
<1>1. /\ SubSeq(parts, 1, 0) = <<>> /\ SubSeq(parts, 1, Len(parts)) = parts /\ Len(parts) \in Nat
      /\ \A n \in 0 .. Len(parts) - 1 :
            /\ SubSeq(parts, 1, n) \in Seq(Pieces) /\ parts[n + 1] \in Pieces
            /\ SubSeq(parts, 1, n + 1) = Append(SubSeq(parts, 1, n), parts[n + 1])
  BY Beginnings
<1>2. r \in P[0]
  <2>1. \A j \in T!Indexes, k \in Kinds : Gathered(r.out, j, k) \o Spoken(<<>>, k) = Gathered(r.out, j, k)
    <3>1. r.out \in Seq(ChunkRows)
      BY DEF GeminiRuns
    <3>2. \A j, k : Gathered(r.out, j, k) \o <<>> = Gathered(r.out, j, k)
      BY <3>1, GatheredIsSeq, ConcatNothing
    <3> QED
      BY <3>2, SpokenNothing
  <2>2. r \in PartsTold(r, i, <<>>)
    BY <2>1 DEF PartsTold
  <2> QED
    BY <1>1, <2>2
<1>3. ASSUME NEW n \in 0 .. Len(parts) - 1, NEW y \in P[n]
      PROVE  Step("parts", i, y, parts[n + 1]) \in P[n + 1]
  <2>0. n \in Nat /\ n + 1 \in Nat
    BY <1>1
  <2>1. y \in PartsTold(r, i, SubSeq(parts, 1, n))
    BY <2>0
  <2>2. T!PutPart(y, i, parts[n + 1]) \in PartsTold(r, i, SubSeq(parts, 1, n + 1))
    <3> DEFINE h == SubSeq(parts, 1, n)
               p == parts[n + 1]
    <3>1. h \in Seq(Pieces) /\ p \in Pieces /\ SubSeq(parts, 1, n + 1) = Append(h, p)
      BY <1>1
    <3> HIDE DEF h, p
    <3>2. T!PutPart(y, i, p) \in PartsTold(r, i, Append(h, p))
      BY <2>1, <3>1, ToldOneMore DEF h
    <3> QED
      BY <3>1, <3>2 DEF p
  <2> QED
    BY <2>0, <2>2 DEF Step
<1> HIDE DEF P
<1>4. Folded("parts", i, r, parts, Len(parts)) \in P[Len(parts)]
  BY <1>1, <1>2, <1>3, FoldKeeps
<1>5. IsSeq(parts)
  BY DEF IsSeq
<1>6. PutParts(r, i, parts) \in P[Len(parts)]
  BY <1>4, <1>5, PartsFolds
<1> QED
  BY <1>1, <1>6 DEF P

(* A candidate's index is seen and its finish reason stored.                  *)
Marking(t, c) ==
  LET marked == T!MarkIndex(t, c.index)
  IN  IF c.reason = "" THEN marked
      ELSE [marked EXCEPT !.finish[c.index] = T!MapFinishReason(c.reason, FALSE)]

(* One index, and then the other.                                             *)
LEMMA PairGrows ==
  ASSUME NEW x, NEW y
  PROVE  1 \in DOMAIN <<x>> /\ <<x>>[1] = x /\ Append(<<x>>, y) = <<x, y>>
<1> DEFINE a == Append(<<x>>, y)
           b == <<x, y>>
           Z == {x, y}
<1>1. <<x>> \in Seq(Z) /\ Len(<<x>>) = 1 /\ <<x>>[1] = x /\ y \in Z
  OBVIOUS
<1>2. a \in Seq(Z) /\ Len(a) = 2 /\ a[1] = x /\ a[2] = y
  <2> HIDE DEF Z
  <2> QED
    BY <1>1, AppendProperties
<1>3. b \in Seq(Z) /\ Len(b) = 2 /\ b[1] = x /\ b[2] = y
  OBVIOUS
<1> HIDE DEF a, b, Z
<1>4. \A k \in 1 .. Len(a) : a[k] = b[k]
  BY <1>2, <1>3
<1>5. a = b
  BY <1>2, <1>3, <1>4, SeqEqual
<1> QED
  BY <1>5 DEF a, b

(* The order in which indexes are seen grows by one that is new.              *)
LEMMA OrdersGrow ==
  ASSUME NEW s \in Orders, NEW i \in T!Indexes
  PROVE  /\ T!ToSet(s) = {s[k] : k \in DOMAIN s}
         /\ i \notin T!ToSet(s) => Append(s, i) \in Orders
         /\ i \in T!ToSet(Append(s, i)) /\ T!ToSet(s) \subseteq T!ToSet(Append(s, i))
<1>1. i = 0 \/ i = 1
  BY DEF T!Indexes
<1>2. T!ToSet(s) = {s[k] : k \in DOMAIN s}
  BY DEF T!ToSet
<1>3. T!ToSet(Append(s, i)) = {Append(s, i)[k] : k \in DOMAIN Append(s, i)}
  BY DEF T!ToSet
<1>4. IsSeq(s)
  <2>1. s \in Seq(Int)
    <3>1. <<>> \in Seq(Int) /\ <<0>> \in Seq(Int) /\ <<1>> \in Seq(Int) /\ <<0, 1>> \in Seq(Int) /\ <<1, 0>> \in Seq(Int)
      OBVIOUS
    <3> QED
      BY <3>1 DEF Orders
  <2> QED
    BY <2>1 DEF IsSeq
<1>5. i \in T!ToSet(Append(s, i)) /\ T!ToSet(s) \subseteq T!ToSet(Append(s, i))
  <2>1. /\ Len(s) \in Nat /\ DOMAIN s = 1 .. Len(s) /\ DOMAIN Append(s, i) = 1 .. Len(s) + 1
        /\ Append(s, i)[Len(s) + 1] = i /\ \A k \in DOMAIN s : Append(s, i)[k] = s[k]
    BY <1>4, SeqDomain, SeqGrows
  <2> QED
    BY <1>2, <1>3, <2>1
<1>6. ASSUME i \notin T!ToSet(s) PROVE Append(s, i) \in Orders
  <2>1. CASE s = <<>>
    BY <1>1, <2>1 DEF Orders
  <2>2. CASE s = <<0>>
    <3>1. 1 \in DOMAIN <<0>> /\ <<0>>[1] = 0 /\ Append(<<0>>, 1) = <<0, 1>>
      BY PairGrows
    <3>2. 0 \in T!ToSet(s)
      BY <1>2, <2>2, <3>1
    <3>3. i = 1
      BY <1>1, <1>6, <3>2
    <3> QED
      BY <2>2, <3>1, <3>3 DEF Orders
  <2>3. CASE s = <<1>>
    <3>1. 1 \in DOMAIN <<1>> /\ <<1>>[1] = 1 /\ Append(<<1>>, 0) = <<1, 0>>
      BY PairGrows
    <3>2. 1 \in T!ToSet(s)
      BY <1>2, <2>3, <3>1
    <3>3. i = 0
      BY <1>1, <1>6, <3>2
    <3> QED
      BY <2>3, <3>1, <3>3 DEF Orders
  <2>4. s # <<0, 1>> /\ s # <<1, 0>>
    BY <1>1, <1>2, <1>6
  <2> QED
    BY <2>1, <2>2, <2>3, <2>4 DEF Orders
<1> QED
  BY <1>2, <1>5, <1>6

(* An index that is marked has been seen, and nothing else changes.           *)
LEMMA MarkIsState ==
  ASSUME NEW t \in GeminiStates, NEW i \in T!Indexes
  PROVE  LET u == T!MarkIndex(t, i)
         IN  /\ u \in GeminiStates /\ u.role = t.role /\ u.tools = t.tools /\ i \in T!ToSet(u.seen)
             /\ T!ToSet(t.seen) \subseteq T!ToSet(u.seen)
             /\ u.finish = t.finish
<1>1. t.seen \in Orders
  BY DEF GeminiStates
<1>2. CASE i \in T!ToSet(t.seen)
  BY <1>2 DEF T!MarkIndex
<1>3. CASE i \notin T!ToSet(t.seen)
  <2> DEFINE s == t.seen
             g == Append(s, i)
  <2>1. g \in Orders /\ i \in T!ToSet(g) /\ T!ToSet(s) \subseteq T!ToSet(g)
    BY <1>1, <1>3, OrdersGrow
  <2>2. T!MarkIndex(t, i) = [t EXCEPT !.seen = g]
    BY <1>3 DEF T!MarkIndex
  <2> HIDE DEF g
  <2>3. [t EXCEPT !.seen = g] \in GeminiStates /\ [t EXCEPT !.seen = g].seen = g
        /\ [t EXCEPT !.seen = g].role = t.role /\ [t EXCEPT !.seen = g].tools = t.tools
        /\ [t EXCEPT !.seen = g].finish = t.finish
    BY <2>1 DEF GeminiStates
  <2> QED
    BY <2>1, <2>2, <2>3
<1> QED
  BY <1>2, <1>3

(* So it is when the reason of a candidate is kept besides.                   *)
LEMMA MarkingIsState ==
  ASSUME NEW t \in GeminiStates, NEW c \in CandidateRows, NEW u, u = Marking(t, c)
  PROVE  /\ u \in GeminiStates /\ u.role = t.role /\ u.tools = t.tools /\ c.index \in T!ToSet(u.seen)
         /\ T!ToSet(t.seen) \subseteq T!ToSet(u.seen)
<1> DEFINE i == c.index
           m == T!MarkIndex(t, i)
<1>1. i \in T!Indexes
  BY DEF CandidateRows
<1>2. /\ m \in GeminiStates /\ m.role = t.role /\ m.tools = t.tools /\ i \in T!ToSet(m.seen)
      /\ T!ToSet(t.seen) \subseteq T!ToSet(m.seen)
  BY <1>1, MarkIsState
<1> DEFINE f == T!MapFinishReason(c.reason, FALSE)
<1>3. f \in Finishes
  BY DEF T!MapFinishReason, Finishes
<1>4. u = IF c.reason = "" THEN m ELSE [m EXCEPT !.finish[i] = f]
  BY Zenon DEF Marking
<1> HIDE DEF m, f
<1>5. CASE c.reason = ""
  BY <1>2, <1>4, <1>5, Zenon
<1>6. CASE c.reason # ""
  <2> DEFINE g == [m.finish EXCEPT ![i] = f]
  <2>1. u = [m EXCEPT !.finish = g]
    BY <1>4, <1>6, Zenon
  <2>2. g \in [T!Indexes -> Finishes]
    BY <1>1, <1>2, <1>3 DEF GeminiStates
  <2> HIDE DEF g, i
  <2>3. u \in GeminiStates /\ u.role = m.role /\ u.tools = m.tools /\ u.seen = m.seen
    BY <1>2, <2>1, <2>2 DEF GeminiStates
  <2> QED
    BY <1>2, <2>3 DEF i
<1> QED
  BY <1>5, <1>6, Zenon

(* Marking a candidate tells nothing.                                         *)
LEMMA MarkingKeeps ==
  ASSUME NEW r \in GeminiRuns, NEW c \in CandidateRows, NEW q, q = [t |-> Marking(r.t, c), out |-> r.out]
  PROVE  q \in GeminiRuns /\ c.index \in T!ToSet(q.t.seen)
<1> DEFINE t == r.t
           u == Marking(t, c)
<1>1. t \in GeminiStates /\ r.out \in Seq(ChunkRows) /\ r.out \in Writings(t)
  BY DEF GeminiRuns
<1>2. /\ u \in GeminiStates /\ u.role = t.role /\ u.tools = t.tools /\ c.index \in T!ToSet(u.seen)
      /\ T!ToSet(t.seen) \subseteq T!ToSet(u.seen)
  BY <1>1, MarkingIsState
<1>3. u.tools \in Nat /\ t.tools <= u.tools
  BY <1>1, <1>2 DEF GeminiStates
<1>4. q = [t |-> u, out |-> r.out]
  OBVIOUS
<1> HIDE DEF u, t
<1>5. ASSUME NEW i \in T!Indexes PROVE T!Having(r.out, "index", i) \in SoundChoices(i, u)
  <2>1. T!Having(r.out, "index", i) \in SoundChoices(i, t)
    BY <1>1 DEF Writings
  <2> QED
    BY <1>1, <1>2, <1>3, <2>1, SoundChoiceStays
<1>6. r.out \in Writings(u)
  BY <1>1, <1>5 DEF Writings
<1>7. q.t = u /\ q.out = r.out /\ q \in [t : GeminiStates, out : Seq(ChunkRows)]
  BY <1>1, <1>2, <1>4
<1> QED
  BY <1>2, <1>6, <1>7 DEF GeminiRuns

(* A candidate is told as its parts are.                                      *)
LEMMA CandidateKeeps ==
  ASSUME NEW r \in GeminiRuns, NEW c \in CandidateRows
  PROVE  /\ T!PutCandidate(r, c) \in GeminiRuns
         /\ \A j \in T!Indexes, k \in Kinds :
               Gathered(T!PutCandidate(r, c).out, j, k)
                 = IF j = c.index THEN Gathered(r.out, j, k) \o Spoken(c.parts, k) ELSE Gathered(r.out, j, k)
<1> DEFINE q == [t |-> Marking(r.t, c), out |-> r.out]
           y == PutParts(q, c.index, c.parts)
<1>1. T!PutCandidate(r, c) = y
  BY DEF T!PutCandidate, Marking, PutParts
<1>2. q \in GeminiRuns /\ c.index \in T!ToSet(q.t.seen) /\ q.out = r.out
  BY MarkingKeeps
<1>3. c.index \in T!Indexes /\ c.parts \in Seq(Pieces)
  BY DEF CandidateRows
<1> HIDE DEF q
<1>4. y \in PartsTold(q, c.index, c.parts)
  BY <1>2, <1>3, PartsKeep
<1> HIDE DEF y
<1>5. y \in GeminiRuns
  BY <1>4 DEF PartsTold
<1>6. \A j \in T!Indexes, k \in Kinds :
        Gathered(y.out, j, k) = IF j = c.index THEN Gathered(q.out, j, k) \o Spoken(c.parts, k) ELSE Gathered(q.out, j, k)
  BY <1>4 DEF PartsTold
<1> QED
  BY <1>1, <1>2, <1>5, <1>6

PutCandidates(r, cs) == T!FoldLeft(T!PutCandidate, r, cs)

(* Putting all candidates of an event is a fold.                              *)
LEMMA CandidatesFold ==
  ASSUME NEW r, NEW s, IsSeq(s)
  PROVE  PutCandidates(r, s) = Folded("candidates", NoRoute, r, s, Len(s))
<1> DEFINE Going(it) == [t \in SUBSET DOMAIN s |->
                    IF t = {} THEN r
                    ELSE LET x == T!Max(t) IN T!PutCandidate(it[t \ {x}], s[x])]
           It == CHOOSE it : it = Going(it)
<1>1. PutCandidates(r, s) = It[DOMAIN s]
  BY DEF PutCandidates, T!FoldLeft, T!MapThenFoldSet
<1>2. DOMAIN s = 1 .. Len(s) /\ Len(s) \in Nat
  BY SeqDomain
<1>3. ASSUME NEW it PROVE Going(it) = Folding("candidates", NoRoute, r, s, Len(s), it)
  BY <1>2, SameMax DEF Folding, Step
<1> HIDE DEF Going
<1>4. \E it : it = Going(it)
  BY <1>2, <1>3, FoldingExists DEF IsFold
<1>5. IsFold("candidates", NoRoute, r, s, Len(s), It)
  BY <1>3, <1>4 DEF IsFold
<1> HIDE DEF It
<1> QED
  BY <1>1, <1>2, <1>5, FoldChosen

(* What may have become of the candidates cs: each choice is told what its    *)
(* parts say.                                                                 *)
Tellings(cs) ==
  {x \in GeminiRuns : \A j \in T!Indexes, k \in Kinds : Gathered(x.out, j, k) = Spoken(PartsIn(cs, j), k)}

(* What has been told of the candidates so far, with one candidate more.      *)
LEMMA TellingsGrow ==
  ASSUME NEW cs \in Seq(CandidateRows), NEW x \in Tellings(cs), NEW c \in CandidateRows
  PROVE  T!PutCandidate(x, c) \in Tellings(Append(cs, c))
<1> DEFINE y == T!PutCandidate(x, c)
<1>1. /\ x \in GeminiRuns
      /\ \A j \in T!Indexes, k \in Kinds : Gathered(x.out, j, k) = Spoken(PartsIn(cs, j), k)
  BY DEF Tellings
<1>2. /\ y \in GeminiRuns
      /\ \A j \in T!Indexes, k \in Kinds :
            Gathered(y.out, j, k) = IF j = c.index THEN Gathered(x.out, j, k) \o Spoken(c.parts, k) ELSE Gathered(x.out, j, k)
  BY <1>1, CandidateKeeps
<1> HIDE DEF y
<1>3. ASSUME NEW j \in T!Indexes, NEW k \in Kinds PROVE Gathered(y.out, j, k) = Spoken(PartsIn(Append(cs, c), j), k)
  <2> DEFINE a == PartsIn(cs, j)
             b == c.parts
  <2>1. IsSeq(cs) /\ IsSeq(a) /\ IsSeq(b)
    BY PartsInArePieces DEF IsSeq, CandidateRows
  <2>2. PartsIn(Append(cs, c), j) = IF c.index = j THEN a \o b ELSE a
    BY <2>1, PartsInOneMore
  <2>3. Gathered(x.out, j, k) = Spoken(a, k)
    BY <1>1
  <2>4. Gathered(y.out, j, k) = IF j = c.index THEN Spoken(a, k) \o Spoken(b, k) ELSE Spoken(a, k)
    BY <1>2, <2>3
  <2> HIDE DEF a, b
  <2>5. Spoken(a \o b, k) = Spoken(a, k) \o Spoken(b, k)
    BY <2>1, SpokenConcat
  <2> QED
    BY <2>2, <2>4, <2>5
<1>4. y \in Tellings(Append(cs, c))
  BY <1>2, <1>3 DEF Tellings
<1> QED
  BY <1>4 DEF y

(* All candidates of an event are told after those before it.                 *)
LEMMA CandidatesKeep ==
  ASSUME NEW cs \in Seq(CandidateRows), NEW r \in Tellings(cs), NEW event \in Seq(CandidateRows)
  PROVE  PutCandidates(r, event) \in Tellings(cs \o event)
<1> DEFINE E(n) == SubSeq(event, 1, n)
           P == [n \in Nat |-> Tellings(cs \o E(n))]
<1>1. /\ E(0) = <<>> /\ E(Len(event)) = event /\ Len(event) \in Nat
      /\ \A n \in 0 .. Len(event) - 1 :
            /\ E(n) \in Seq(CandidateRows) /\ event[n + 1] \in CandidateRows
            /\ E(n + 1) = Append(E(n), event[n + 1])
  BY Beginnings
<1>5. IsSeq(event) /\ IsSeq(cs)
  BY DEF IsSeq
<1> HIDE DEF E
<1>2. r \in P[0]
  BY <1>1, <1>5, ConcatNothing
<1>3. ASSUME NEW n \in 0 .. Len(event) - 1, NEW y \in P[n]
      PROVE  Step("candidates", NoRoute, y, event[n + 1]) \in P[n + 1]
  <2>0. n \in Nat /\ n + 1 \in Nat
    BY <1>1
  <2> DEFINE h == E(n)
             c == event[n + 1]
             z == cs \o h
  <2>1. y \in Tellings(z)
    BY <2>0
  <2>2. h \in Seq(CandidateRows) /\ c \in CandidateRows /\ E(n + 1) = Append(h, c)
    BY <1>1
  <2> HIDE DEF h, c
  <2>3. IsSeq(h)
    BY <2>2 DEF IsSeq
  <2>4. cs \o Append(h, c) = Append(z, c)
    BY <1>5, <2>3, ConcatOneMore
  <2>5. z \in Seq(CandidateRows)
    BY <2>2, ConcatProperties
  <2> HIDE DEF z
  <2>6. T!PutCandidate(y, c) \in Tellings(Append(z, c))
    BY <2>1, <2>2, <2>5, TellingsGrow
  <2>7. T!PutCandidate(y, event[n + 1]) \in Tellings(cs \o E(n + 1))
    BY <2>2, <2>4, <2>6 DEF c
  <2> QED
    BY <2>0, <2>7 DEF Step
<1> HIDE DEF P
<1>4. Folded("candidates", NoRoute, r, event, Len(event)) \in P[Len(event)]
  BY <1>1, <1>2, <1>3, FoldKeeps
<1>6. PutCandidates(r, event) \in P[Len(event)]
  BY <1>4, <1>5, CandidatesFold
<1> QED
  BY <1>1, <1>6 DEF P

(* A choice that is told to its end.                                          *)
WholeChoice ==
  {s \in Seq(ChunkRows) :
     \A k \in DOMAIN s :
       /\ s[k].role => k = 1
       /\ (k = 1 /\ s[k].delta.kind # "none") => s[k].role
       /\ (s[k].finish # "") <=> (k = Len(s))
       /\ \A l \in DOMAIN s :
            (k # l /\ s[k].delta.kind = "call" /\ s[l].delta.kind = "call")
              => s[k].delta.n # s[l].delta.n}

LastChunk(i, f) == [index |-> i, role |-> FALSE, delta |-> T!Delta("none", "", 0), finish |-> f]

(* The last chunk of a choice has its reason and tells nothing.               *)
LEMMA LastChunkIs ==
  ASSUME NEW i \in T!Indexes, NEW f \in Finishes
  PROVE  LET c == LastChunk(i, f)
         IN  c \in ChunkRows /\ c.index = i /\ c.role = FALSE /\ c.delta.kind = "none" /\ c.finish = f
<1> DEFINE d == T!Delta("none", "", 0)
<1>1. d \in DeltaRows /\ d.kind = "none"
  BY DEF T!Delta, DeltaRows, Words
<1>2. LastChunk(i, f) = [index |-> i, role |-> FALSE, delta |-> d, finish |-> f]
  BY DEF LastChunk
<1> HIDE DEF d
<1>3. FALSE \in BOOLEAN
  OBVIOUS
<1> QED
  BY <1>1, <1>2, <1>3 DEF ChunkRows

Unended == {s \in Seq(ChunkRows) : /\ \A k \in DOMAIN s : s[k].finish = "" /\ (s[k].role <=> k = 1)
                                   /\ Apart(s)}
Lasts == {c \in ChunkRows : c.role = FALSE /\ c.delta.kind = "none" /\ c.finish # ""}

(* A choice without an end is whole with a last chunk.                        *)
LEMMA EndedIsWhole ==
  ASSUME NEW s \in Unended, NEW c \in Lasts
  PROVE  Append(s, c) \in WholeChoice
<1> DEFINE g == Append(s, c)
<1>0. s \in Seq(ChunkRows) /\ c \in ChunkRows
  BY Zenon DEF Unended, Lasts
<1>1. g \in Seq(ChunkRows)
  BY <1>0, AppendProperties
<1>7. IsSeq(s)
  BY <1>0 DEF IsSeq
<1>8. Len(s) \in Nat /\ DOMAIN s = 1 .. Len(s)
  BY <1>7, SeqDomain
<1>9. DOMAIN g = 1 .. Len(s) + 1 /\ Len(g) = Len(s) + 1 /\ g[Len(s) + 1] = c
  BY <1>7, SeqGrows
<1>10. \A k \in DOMAIN s : g[k] = s[k]
  BY <1>7, SeqGrows
<1> HIDE DEF g
<1>2. /\ Len(s) \in Nat /\ DOMAIN s = 1 .. Len(s) /\ DOMAIN g = 1 .. Len(s) + 1 /\ Len(g) = Len(s) + 1
      /\ g[Len(s) + 1] = c /\ \A k \in DOMAIN s : g[k] = s[k]
  BY <1>8, <1>9, <1>10
<1>3. \A k \in DOMAIN g : k \in DOMAIN s \/ k = Len(s) + 1
  <2> DEFINE n == Len(s)
  <2>1. n \in Nat /\ DOMAIN s = 1 .. n /\ DOMAIN g = 1 .. n + 1
    BY <1>8, <1>9
  <2> HIDE DEF n
  <2>2. \A k \in 1 .. n + 1 : k \in 1 .. n \/ k = n + 1
    BY <2>1
  <2> QED
    BY <2>1, <2>2 DEF n
<1>4. ASSUME NEW k \in DOMAIN g
      PROVE  /\ g[k].role => k = 1
             /\ (k = 1 /\ g[k].delta.kind # "none") => g[k].role
             /\ (g[k].finish # "") <=> (k = Len(g))
  <2>1. CASE k \in DOMAIN s
    <3>1. g[k] = s[k] /\ k # Len(g)
      BY <1>2, <2>1
    <3>2. s[k].finish = "" /\ (s[k].role <=> k = 1)
      BY <2>1, Zenon DEF Unended
    <3> QED
      BY <3>1, <3>2, Zenon
  <2>2. CASE k = Len(s) + 1
    <3>1. c.role = FALSE /\ c.delta.kind = "none" /\ c.finish # ""
      BY Zenon DEF Lasts
    <3>2. g[k] = c /\ k = Len(g)
      BY <1>2, <2>2
    <3> QED
      BY <3>1, <3>2, Zenon
  <2> QED
    BY <1>3, <2>1, <2>2, Zenon
<1>5. ASSUME NEW k \in DOMAIN g, NEW l \in DOMAIN g,
             k # l, g[k].delta.kind = "call", g[l].delta.kind = "call"
      PROVE  g[k].delta.n # g[l].delta.n
  <2>1. k \in DOMAIN s /\ l \in DOMAIN s
    <3>1. k # Len(s) + 1 /\ l # Len(s) + 1
      <4>1. g[Len(s) + 1].delta.kind # "call"
        BY <1>2, Zenon DEF Lasts
      <4> QED
        BY <1>5, <4>1
    <3> QED
      BY <1>3, <3>1
  <2>2. g[k] = s[k] /\ g[l] = s[l]
    BY <1>2, <2>1
  <2>3. Apart(s)
    BY Zenon DEF Unended
  <2> QED
    BY <1>5, <2>1, <2>2, <2>3 DEF Apart
<1>6. g \in WholeChoice
  BY <1>1, <1>4, <1>5, Zenon DEF WholeChoice
<1> QED
  BY <1>6 DEF g

(* With the choices in ended told to their end, the others not yet.               *)
Closed(t, ended) ==
  {o \in Seq(ChunkRows) :
     \A i \in T!Indexes : /\ i \in ended => T!Having(o, "index", i) \in WholeChoice
                          /\ i \notin ended => T!Having(o, "index", i) \in SoundChoices(i, t)}

Reasons == Finishes \ {""}

(* The last chunk of a choice says nothing else.                              *)
LEMMA ClosesOneMore ==
  ASSUME NEW t \in GeminiStates, NEW ended \in SUBSET T!Indexes, NEW o \in Closed(t, ended), NEW i \in T!Indexes, i \notin ended,
         NEW why \in Reasons
  PROVE  /\ Append(o, LastChunk(i, why)) \in Closed(t, ended \cup {i})
         /\ \A j, k : k # "none" => Gathered(Append(o, LastChunk(i, why)), j, k) = Gathered(o, j, k)
<1> DEFINE c == LastChunk(i, why)
<1>1. c \in ChunkRows /\ c.index = i /\ c.role = FALSE /\ c.delta.kind = "none" /\ c.finish = why
  BY LastChunkIs, Zenon DEF Reasons
<1>2. o \in Seq(ChunkRows) /\ IsSeq(o)
  BY DEF Closed, IsSeq
<1> HIDE DEF c
<1>3. Append(o, c) \in Seq(ChunkRows)
  BY <1>1, <1>2, AppendProperties
<1>4. ASSUME NEW j \in T!Indexes
      PROVE  /\ j \in ended \cup {i} => T!Having(Append(o, c), "index", j) \in WholeChoice
             /\ j \notin ended \cup {i} => T!Having(Append(o, c), "index", j) \in SoundChoices(j, t)
  <2> DEFINE s == T!Having(o, "index", j)
  <2>1. (j \in ended => s \in WholeChoice) /\ (j \notin ended => s \in SoundChoices(j, t))
    BY DEF Closed
  <2>2. T!Having(Append(o, c), "index", j) = IF i = j THEN Append(s, c) ELSE s
    <3>1. T!Having(Append(o, c), "index", j) = IF c.index = j THEN Append(s, c) ELSE s
      BY <1>2, HavingOneMore
    <3> QED
      BY <1>1, <3>1
  <2> HIDE DEF s
  <2>3. CASE i = j
    <3>1. s \in SoundChoices(j, t)
      BY <2>1, <2>3
    <3>2. s \in Unended
      BY <3>1, Zenon DEF SoundChoices, Unended
    <3>4. c \in Lasts
      BY <1>1, Zenon DEF Lasts, Reasons
    <3>3. Append(s, c) \in WholeChoice
      BY <3>2, <3>4, EndedIsWhole
    <3> QED
      BY <2>2, <2>3, <3>3
  <2>4. CASE i # j
    BY <2>1, <2>2, <2>4
  <2> QED
    BY <2>3, <2>4
<1>5. Append(o, c) \in Closed(t, ended \cup {i})
  BY <1>3, <1>4 DEF Closed
<1>6. ASSUME NEW j, NEW k, k # "none" PROVE Gathered(Append(o, c), j, k) = Gathered(o, j, k)
  <2>1. Gathered(Append(o, c), j, k) = IF c.index = j /\ c.delta.kind = k THEN Append(Gathered(o, j, k), c.delta.value)
                                       ELSE Gathered(o, j, k)
    <3>1. o \in Seq(ChunkRows) /\ c \in ChunkRows
      BY <1>1, <1>2
    <3> QED
      BY <3>1, GatheredOneMore
  <2> QED
    BY <1>1, <1>6, <2>1
<1> QED
  BY <1>5, <1>6 DEF c

LastChunks(order, reason) == [k \in DOMAIN order |-> LastChunk(order[k], reason[order[k]])]
Endings == [T!Indexes -> Reasons]
ChoiceOrders == Orders \ {<<>>}

(* The same kinds of chunks are said by two writings.                         *)
SaysTheSame(o, g) == \A j \in T!Indexes, k \in Kinds : Gathered(g, j, k) = Gathered(o, j, k)

(* One index more is closed, and the same is said as before.                  *)
LEMMA ClosesOneMoreOf ==
  ASSUME NEW t \in GeminiStates, NEW ended \in SUBSET T!Indexes, NEW o \in Closed(t, ended),
         NEW i \in T!Indexes \ ended, NEW why \in Reasons
  PROVE  /\ Append(o, LastChunk(i, why)) \in Closed(t, ended \cup {i})
         /\ SaysTheSame(o, Append(o, LastChunk(i, why)))
<1>1. i \in T!Indexes /\ i \notin ended
  OBVIOUS
<1>2. \A k \in Kinds : k # "none"
  BY DEF Kinds
<1>3. Append(o, LastChunk(i, why)) \in Closed(t, ended \cup {i})
  BY <1>1, ClosesOneMore
<1>4. \A j, k : k # "none" => Gathered(Append(o, LastChunk(i, why)), j, k) = Gathered(o, j, k)
  BY <1>1, ClosesOneMore
<1> QED
  BY <1>2, <1>3, <1>4 DEF SaysTheSame

(* Every index that was seen is closed, and the same is said as before.       *)
LEMMA AllClose ==
  ASSUME NEW t \in GeminiStates, NEW o \in Writings(t), NEW order \in ChoiceOrders, NEW reason \in Endings
  PROVE  /\ o \o LastChunks(order, reason) \in Closed(t, T!ToSet(order))
         /\ SaysTheSame(o, o \o LastChunks(order, reason))
<1> DEFINE fin == LastChunks(order, reason)
           Last1(i) == LastChunk(i, reason[i])
<1>1. o \in Closed(t, {}) /\ o \in Seq(ChunkRows)
  BY DEF Closed, Writings
<1>2. \A i \in T!Indexes : reason[i] \in Reasons
  BY DEF Endings
<1>3. ASSUME NEW i \in T!Indexes, order = <<i>>
      PROVE  o \o fin \in Closed(t, T!ToSet(order)) /\ SaysTheSame(o, o \o fin)
  <2>1. DOMAIN order = {1} /\ order[1] = i
    BY <1>3
  <2>2. T!ToSet(order) = {i}
    BY <2>1 DEF T!ToSet
  <2>3. fin = <<Last1(i)>>
    BY <2>1 DEF LastChunks
  <2> DEFINE c == Last1(i)
  <2>4. Append(o, c) \in Closed(t, {} \cup {i}) /\ SaysTheSame(o, Append(o, c))
    <3>1. i \in T!Indexes \ {} /\ {} \in SUBSET T!Indexes
      OBVIOUS
    <3> QED
      BY <1>1, <1>2, <3>1, ClosesOneMoreOf
  <2> HIDE DEF c, fin
  <2>5. o \o <<c>> = Append(o, c)
    BY <1>1
  <2>6. {} \cup {i} = {i}
    OBVIOUS
  <2>7. fin = <<c>>
    BY <2>3 DEF c
  <2> QED
    BY <2>2, <2>4, <2>5, <2>6, <2>7
<1>4. ASSUME NEW i \in T!Indexes, NEW j \in T!Indexes, i # j, order = <<i, j>>
      PROVE  o \o fin \in Closed(t, T!ToSet(order)) /\ SaysTheSame(o, o \o fin)
  <2>1. DOMAIN order = {1, 2} /\ order[1] = i /\ order[2] = j
    BY <1>4
  <2>2. T!ToSet(order) = {i, j}
    BY <2>1 DEF T!ToSet
  <2>3. fin = <<Last1(i), Last1(j)>>
    <3>1. fin = [k \in DOMAIN order |-> Last1(order[k])]
      BY DEF LastChunks
    <3> HIDE DEF Last1
    <3>2. DOMAIN order = 1 .. 2
      BY <2>1
    <3> HIDE DEF fin
    <3>3. fin = [k \in 1 .. 2 |-> Last1(order[k])]
      BY <3>1, <3>2
    <3> QED
      BY <2>1, <3>3
  <2> DEFINE c == Last1(i)
             d == Last1(j)
             g == Append(o, c)
  <2>4. g \in Closed(t, {} \cup {i}) /\ SaysTheSame(o, g)
    <3>1. i \in T!Indexes \ {} /\ {} \in SUBSET T!Indexes
      OBVIOUS
    <3> QED
      BY <1>1, <1>2, <3>1, ClosesOneMoreOf
  <2>5. {} \cup {i} = {i} /\ {i} \cup {j} = {i, j}
    OBVIOUS
  <2> HIDE DEF g
  <2>6. Append(g, d) \in Closed(t, {i} \cup {j}) /\ SaysTheSame(g, Append(g, d))
    <3>1. j \in T!Indexes \ {i} /\ {i} \in SUBSET T!Indexes
      BY <1>4
    <3>2. g \in Closed(t, {i})
      BY <2>4, <2>5
    <3> QED
      BY <1>2, <3>1, <3>2, ClosesOneMoreOf
  <2> HIDE DEF c, d, fin
  <2>7. o \o <<c, d>> = Append(g, d)
    <3>1. o \in Seq(ChunkRows \cup {c, d}) /\ c \in ChunkRows \cup {c, d} /\ d \in ChunkRows \cup {c, d}
      BY <1>1
    <3> QED
      BY <3>1 DEF g
  <2>8. fin = <<c, d>>
    BY <2>3 DEF c, d
  <2>9. SaysTheSame(o, Append(g, d))
    BY <2>4, <2>6 DEF SaysTheSame
  <2> QED
    BY <2>2, <2>5, <2>6, <2>7, <2>8, <2>9
<1>5. order \in {<<0>>, <<1>>, <<0, 1>>, <<1, 0>>} /\ 0 \in T!Indexes /\ 1 \in T!Indexes
  BY DEF ChoiceOrders, Orders, T!Indexes
<1> QED
  BY <1>3, <1>4, <1>5

(* Whatever was not seen said nothing, so that every choice is whole.         *)
LEMMA ClosedIsWhole ==
  ASSUME NEW t \in GeminiStates, NEW ended, T!ToSet(t.seen) \subseteq ended, NEW o \in Closed(t, ended),
         NEW i \in T!Indexes
  PROVE  T!Having(o, "index", i) \in WholeChoice
<1> DEFINE s == T!Having(o, "index", i)
<1>1. CASE i \in ended
  BY <1>1 DEF Closed
<1>2. CASE i \notin ended
  <2>1. s \in SoundChoices(i, t)
    BY <1>2 DEF Closed
  <2>2. i \notin T!ToSet(t.seen)
    BY <1>2
  <2> HIDE DEF s
  <2>3. s = <<>>
    BY <2>1, <2>2, Zenon DEF SoundChoices
  <2>4. <<>> \in Seq(ChunkRows) /\ DOMAIN <<>> = {}
    OBVIOUS
  <2>5. s \in WholeChoice
    BY <2>3, <2>4 DEF WholeChoice
  <2> QED
    BY <2>5 DEF s
<1> QED
  BY <1>1, <1>2

-----------------------------------------------------------------------------
(* The Gemini transformer has told the candidates of all events so far.       *)
GeminiTold ==
  /\ input \in Seq(Seq(CandidateRows)) /\ T!Flat(input) \in Seq(CandidateRows)
  /\ [t |-> st, out |-> chunks] \in Tellings(T!Flat(input))

(* Nothing has come and nothing has been told.                                *)
LEMMA GeminiBegins ==
  ASSUME dialect = "gemini", T!Init
  PROVE  GeminiTold
<1> DEFINE r == [t |-> T!GeminiStart, out |-> <<>>]
<1>1. input = <<>> /\ chunks = <<>> /\ st = T!GeminiStart
  BY DEF T!Init
<1>2. T!GeminiStart \in GeminiStates /\ T!GeminiStart.role = {}
  BY DEF T!GeminiStart, GeminiStates, Orders, Finishes
<1>3. <<>> \in Seq(ChunkRows) /\ <<>> \in Seq(CandidateRows) /\ <<>> \in Seq(Seq(CandidateRows)) /\ DOMAIN <<>> = {}
  OBVIOUS
<1>4. \A i \in T!Indexes : <<>> \in SoundChoices(i, T!GeminiStart)
  BY <1>2, <1>3 DEF SoundChoices, Numbered, Apart
<1>5. <<>> \in Writings(T!GeminiStart)
  BY <1>3, <1>4, HavingNothing DEF Writings
<1>6. r \in GeminiRuns /\ r.out = <<>>
  <2> DEFINE t == T!GeminiStart
             o == <<>>
  <2>1. t \in GeminiStates /\ o \in Seq(ChunkRows) /\ o \in Writings(t) /\ r = [t |-> t, out |-> o]
    BY <1>2, <1>3, <1>5
  <2> HIDE DEF t, o, r
  <2>2. r \in [t : GeminiStates, out : Seq(ChunkRows)] /\ r.t = t /\ r.out = o
    BY <2>1
  <2> QED
    BY <2>1, <2>2 DEF GeminiRuns, o
<1>7. \A j \in T!Indexes, k \in Kinds : Gathered(<<>>, j, k) = <<>> /\ Spoken(PartsIn(<<>>, j), k) = <<>>
  <2>1. T!DeltasOf(<<>>) = <<>> /\ T!Values(<<>>) = <<>>
    BY DEF T!DeltasOf, T!Values
  <2> QED
    BY <2>1, HavingNothing, PartsInNothing, SpokenNothing DEF Gathered, T!Pick
<1> HIDE DEF r
<1>8. r \in Tellings(<<>>)
  BY <1>6, <1>7 DEF Tellings
<1> QED
  BY <1>1, <1>3, <1>8, FlatNothing DEF GeminiTold, r

(* One event more is told.                                                    *)
LEMMA GeminiGoesOn ==
  ASSUME GeminiTold, T!TransformEvent
  PROVE  GeminiTold'
<1> DEFINE r == [t |-> st, out |-> chunks]
           f == T!Flat(input)
<1>1. PICK event \in GeminiEvents : /\ input' = Append(input, event)
                                  /\ st' = T!GeminiEvent(event).t /\ chunks' = T!GeminiEvent(event).out
  BY DEF T!TransformEvent
<1>2. event \in Seq(CandidateRows)
  BY TranslationAssumption DEF TranslationWellFormed, CandidateRows
<1>3. input \in Seq(Seq(CandidateRows)) /\ f \in Seq(CandidateRows) /\ r \in Tellings(f)
  BY DEF GeminiTold
<1>4. T!GeminiEvent(event) = PutCandidates(r, event)
  BY DEF T!GeminiEvent, PutCandidates
<1> HIDE DEF f, r
<1> DEFINE q == PutCandidates(r, event)
<1>5. q \in Tellings(f \o event)
  BY <1>2, <1>3, CandidatesKeep
<1>6. f \o event \in Seq(CandidateRows)
  BY <1>2, <1>3, ConcatProperties
<1>7. IsSeq(input)
  BY <1>3 DEF IsSeq
<1>8. T!Flat(Append(input, event)) = f \o event
  BY <1>7, FlatOneMore DEF f
<1>9. Append(input, event) \in Seq(Seq(CandidateRows))
  BY <1>2, <1>3, AppendProperties
<1> HIDE DEF q
<1>10. q = [t |-> q.t, out |-> q.out]
  <2>1. q \in GeminiRuns
    BY <1>5 DEF Tellings
  <2> QED
    BY <2>1 DEF GeminiRuns
<1>11. [t |-> st', out |-> chunks'] = q
  <2>1. st' = q.t /\ chunks' = q.out
    BY <1>1, <1>4 DEF q
  <2> QED
    BY <1>10, <2>1
<1>12. T!Flat(input') = f \o event
  BY <1>1, <1>8
<1>13. /\ input' \in Seq(Seq(CandidateRows)) /\ T!Flat(input') \in Seq(CandidateRows)
       /\ [t |-> st', out |-> chunks'] \in Tellings(T!Flat(input'))
  BY <1>1, <1>5, <1>6, <1>9, <1>11, <1>12
<1> QED
  BY <1>13 DEF GeminiTold

(* Finish closes every choice and says nothing more.                          *)
LEMMA GeminiFinishCloses ==
  ASSUME GeminiTold
  PROVE  /\ chunks \o T!GeminiFinish \in Seq(ChunkRows)
         /\ \A i \in T!Indexes : T!Having(chunks \o T!GeminiFinish, "index", i) \in WholeChoice
         /\ SaysTheSame(chunks, chunks \o T!GeminiFinish)
<1> DEFINE r == [t |-> st, out |-> chunks]
           u == IF st.seen = <<>> THEN T!MarkIndex(st, 0) ELSE st
           order == u.seen
           reason == [i \in T!Indexes |-> IF u.finish[i] = "" THEN "stop" ELSE u.finish[i]]
<1>1. st \in GeminiStates /\ chunks \in Writings(st)
  <2>1. r \in GeminiRuns
    BY DEF GeminiTold, Tellings
  <2>2. r.t \in GeminiStates /\ r.out \in Writings(r.t)
    BY <2>1 DEF GeminiRuns
  <2> QED
    BY <2>2
<1>2. u \in GeminiStates /\ T!ToSet(st.seen) \subseteq T!ToSet(u.seen) /\ u.seen # <<>>
  <2>1. CASE st.seen = <<>>
    <3> DEFINE m == T!MarkIndex(st, 0)
    <3>1. 0 \in T!Indexes
      BY DEF T!Indexes
    <3>2. m \in GeminiStates /\ T!ToSet(st.seen) \subseteq T!ToSet(m.seen) /\ 0 \in T!ToSet(m.seen)
      BY <1>1, <3>1, MarkIsState
    <3> HIDE DEF m
    <3>3. T!ToSet(<<>>) = {}
      BY DEF T!ToSet
    <3>4. u = m
      BY <2>1 DEF m
    <3> QED
      BY <3>2, <3>3, <3>4
  <2>2. CASE st.seen # <<>>
    BY <1>1, <2>2
  <2> QED
    BY <2>1, <2>2
<1> HIDE DEF u
<1>3. order \in ChoiceOrders /\ u.finish \in [T!Indexes -> Finishes]
  BY <1>2 DEF ChoiceOrders, GeminiStates
<1>4. reason \in Endings
  BY <1>3, Zenon DEF Endings, Reasons, Finishes
<1>5. T!GeminiFinish = LastChunks(order, reason)
  <2>1. \A k \in DOMAIN order : order[k] \in T!Indexes
    BY <1>3 DEF ChoiceOrders, Orders, T!Indexes
  <2>2. T!GeminiFinish = [k \in DOMAIN order |->
                           [index |-> order[k], role |-> FALSE, delta |-> T!Delta("none", "", 0),
                            finish |-> IF u.finish[order[k]] = "" THEN "stop" ELSE u.finish[order[k]]]]
    BY DEF T!GeminiFinish, u
  <2>3. \A k \in DOMAIN order : reason[order[k]] = IF u.finish[order[k]] = "" THEN "stop" ELSE u.finish[order[k]]
    BY <2>1, Zenon
  <2> HIDE DEF reason
  <2>4. LastChunks(order, reason) = [k \in DOMAIN order |->
                           [index |-> order[k], role |-> FALSE, delta |-> T!Delta("none", "", 0),
                            finish |-> reason[order[k]]]]
    BY DEF LastChunks, LastChunk
  <2> HIDE DEF order
  <2> QED
    BY <2>2, <2>3, <2>4, Zenon
<1> HIDE DEF reason, order
<1> DEFINE g == chunks \o LastChunks(order, reason)
<1>6. g \in Closed(st, T!ToSet(order)) /\ SaysTheSame(chunks, g)
  BY <1>1, <1>3, <1>4, AllClose
<1> HIDE DEF g
<1>7. T!ToSet(st.seen) \subseteq T!ToSet(order)
  BY <1>2 DEF order
<1>8. \A i \in T!Indexes : T!Having(g, "index", i) \in WholeChoice
  BY <1>1, <1>6, <1>7, ClosedIsWhole
<1>9. g \in Seq(ChunkRows)
  BY <1>6 DEF Closed
<1>10. chunks \o T!GeminiFinish = g
  BY <1>5 DEF g
<1> QED
  BY <1>6, <1>8, <1>9, <1>10

(* So the chunks after it are what is claimed of them.                        *)
LEMMA GeminiEnds ==
  ASSUME dialect = "gemini", GeminiTold, T!Finish
  PROVE  T!StreamTellsTheAnswer' /\ T!ChunksAreWellFormed'
<1> DEFINE g == chunks \o T!GeminiFinish
<1>1. /\ g \in Seq(ChunkRows) /\ \A i \in T!Indexes : T!Having(g, "index", i) \in WholeChoice
      /\ SaysTheSame(chunks, g)
  BY GeminiFinishCloses
<1>2. chunks' = g /\ dialect' = "gemini" /\ input' = input
  BY DEF T!Finish
<1> HIDE DEF g
<1>3. T!ChunksAreWellFormed'
  <2> SUFFICES ASSUME NEW i \in T!Indexes
               PROVE  T!Having(chunks', "index", i) \in WholeChoice
    BY Zenon DEF T!ChunksAreWellFormed, T!ChunksOf, WholeChoice
  <2> QED
    BY <1>1, <1>2
<1>4. ASSUME NEW i \in T!Indexes, NEW k \in Kinds
      PROVE  Gathered(g, i, k) = Spoken(PartsIn(T!Flat(input), i), k)
  <2> DEFINE r == [t |-> st, out |-> chunks]
  <2>1. r \in Tellings(T!Flat(input))
    BY DEF GeminiTold
  <2>2. Gathered(r.out, i, k) = Spoken(PartsIn(T!Flat(input), i), k)
    BY <2>1 DEF Tellings
  <2>3. r.out = chunks
    OBVIOUS
  <2> QED
    BY <1>1, <2>2, <2>3 DEF SaysTheSame
<1>5. \A i \in T!Indexes, k \in Kinds : T!Values(T!Pick(T!DeltasOf(T!Having(chunks', "index", i)), k))
        = T!Values(T!Pick(PartsIn(T!Flat(input'), i), k))
  BY <1>2, <1>4 DEF Gathered, Spoken
<1>6. /\ "content" \in Kinds /\ "reasoning" \in Kinds /\ "call" \in Kinds
  BY DEF Kinds
<1>7. ASSUME NEW i \in T!Indexes
      PROVE  /\ T!Deltas(i, "content")' = T!Choice(i).content'
             /\ T!Deltas(i, "reasoning")' = T!Choice(i).reasoning'
             /\ T!Deltas(i, "call")' = T!Choice(i).calls'
  <2>1. \A k : T!Deltas(i, k)' = T!Values(T!Pick(T!DeltasOf(T!Having(chunks', "index", i)), k))
    BY DEF T!Deltas, T!ChunksOf
  <2> DEFINE p == PartsIn(T!Flat(input'), i)
  <2>2. T!PartsOf(i)' = p
    BY DEF T!PartsOf, T!CandidatesOf, PartsIn, PartsOfAll
  <2>3. T!Choice(i)' = T!GeminiChoice(i)'
    BY <1>2 DEF T!Choice
  <2> HIDE DEF p
  <2>4. /\ T!GeminiChoice(i).content' = T!Values(T!Pick(p, "content"))
        /\ T!GeminiChoice(i).reasoning' = T!Values(T!Pick(p, "reasoning"))
        /\ T!GeminiChoice(i).calls' = T!Values(T!Pick(p, "call"))
    BY <2>2 DEF T!GeminiChoice
  <2> QED
    BY <1>5, <1>6, <2>1, <2>3, <2>4 DEF p
<1>8. T!StreamTellsTheAnswer'
  BY <1>7 DEF T!StreamTellsTheAnswer
<1> QED
  BY <1>3, <1>8

-----------------------------------------------------------------------------
(* The cardinality that Transformers counts with is the one of the library.   *)
LEMMA SameCardinality == \A X : T!Cardinality(X) = Cardinality(X)
BY DEF T!Cardinality, Cardinality

(* The numbers of P in order: the n-th has n of them up to it.                *)
LEMMA OrderIs ==
  ASSUME NEW P
  PROVE  /\ \A n : T!Ranked(P, n) = {k \in P : Cardinality({j \in P : j <= k}) = n}
         /\ T!InOrder(P) = [n \in 1 .. Cardinality(P) |-> CHOOSE k \in T!Ranked(P, n) : TRUE]
<1>1. T!InOrder(P) = [n \in 1 .. T!Cardinality(P) |-> CHOOSE k \in T!Ranked(P, n) : TRUE]
  BY DEF T!InOrder
<1>2. T!InOrder(P) = [n \in 1 .. Cardinality(P) |-> CHOOSE k \in T!Ranked(P, n) : TRUE]
  BY <1>1, SameCardinality
<1>3. \A n : T!Ranked(P, n) = {k \in P : T!Cardinality({j \in P : j <= k}) = n}
  BY DEF T!Ranked
<1> QED
  BY <1>2, <1>3, SameCardinality

(* Numbers in order: one that is greater than all comes last.                 *)
AsRanked(P, o) ==
  {n \in 1 .. Cardinality(P \cup {o}) :
     T!Ranked(P \cup {o}, n) = IF n = Cardinality(P) + 1 THEN {o} ELSE T!Ranked(P, n)}

(* A number above all others is the last, and no other's rank changes.        *)
LEMMA RankedMore ==
  ASSUME NEW m \in Nat, NEW P \in SUBSET (1 .. m), NEW o \in Nat, m < o, NEW n \in 1 .. Cardinality(P \cup {o})
  PROVE  n \in AsRanked(P, o)
<1> DEFINE c == Cardinality(P)
           G == P \cup {o}
           Below(q, k) == {j \in q : j <= k}
<1>1. IsFiniteSet(P) /\ c \in Nat
  <2>1. IsFiniteSet(1 .. m)
    BY FS_Interval
  <2> QED
    BY <2>1, FS_Subset, FS_CardinalityType
<1>2. o \notin P /\ \A k \in P : k \in Nat /\ k < o
  OBVIOUS
<1>3. Cardinality(G) = c + 1
  BY <1>1, <1>2, FS_AddElement
<1>4. \A k \in P : Below(G, k) = Below(P, k)
  BY <1>2
<1>5. Below(G, o) = G
  <2>1. \A j \in G : j <= o
    BY <1>2
  <2> QED
    BY <2>1
<1>6. \A k \in P : Cardinality(Below(P, k)) <= c /\ Cardinality(Below(P, k)) \in Nat
  <2>1. \A k \in P : Below(P, k) \in SUBSET P
    OBVIOUS
  <2> HIDE DEF Below
  <2> QED
    BY <1>1, <2>1, FS_Subset, FS_CardinalityType
<1>7. T!Ranked(G, n) = {k \in G : Cardinality(Below(G, k)) = n} /\ T!Ranked(P, n) = {k \in P : Cardinality(Below(P, k)) = n}
  BY OrderIs
<1> HIDE DEF Below, c
<1>8. CASE n = c + 1
  <2>1. o \in T!Ranked(G, n)
    BY <1>3, <1>5, <1>7, <1>8
  <2>2. \A k \in P : k \notin T!Ranked(G, n)
    <3> SUFFICES ASSUME NEW k \in P PROVE Cardinality(Below(G, k)) # n
      BY <1>7
    <3>1. Cardinality(Below(P, k)) <= c /\ Cardinality(Below(P, k)) \in Nat
      BY <1>6
    <3> QED
      BY <1>1, <1>4, <1>8, <3>1
  <2>3. T!Ranked(G, n) \subseteq G
    BY <1>7
  <2>4. T!Ranked(G, n) = {o}
    BY <2>1, <2>2, <2>3
  <2> QED
    BY <1>8, <2>4 DEF AsRanked, c
<1>9. CASE n # c + 1
  <2>1. o \notin T!Ranked(G, n)
    BY <1>3, <1>5, <1>7, <1>9
  <2>2. T!Ranked(G, n) = T!Ranked(P, n)
    BY <1>4, <1>7, <2>1
  <2> QED
    BY <1>9, <2>2 DEF AsRanked, c
<1> QED
  BY <1>8, <1>9

(* So it comes last in the order.                                             *)
LEMMA OrderGrows ==
  ASSUME NEW m \in Nat, NEW P \in SUBSET (1 .. m), NEW o \in Nat, m < o, IsSeq(T!InOrder(P))
  PROVE  T!InOrder(P \cup {o}) = Append(T!InOrder(P), o)
<1> DEFINE c == Cardinality(P)
           G == P \cup {o}
           a == T!InOrder(P)
<1>1. IsFiniteSet(P) /\ c \in Nat /\ Cardinality(G) = c + 1
  <2>1. IsFiniteSet(1 .. m)
    BY FS_Interval
  <2>2. o \notin P
    OBVIOUS
  <2> QED
    BY <2>1, <2>2, FS_Subset, FS_CardinalityType, FS_AddElement
<1>2. a = [n \in 1 .. c |-> CHOOSE k \in T!Ranked(P, n) : TRUE]
  BY OrderIs
<1>3. T!InOrder(G) = [n \in 1 .. c + 1 |-> CHOOSE k \in T!Ranked(G, n) : TRUE]
  BY <1>1, OrderIs
<1>4. ASSUME NEW n \in 1 .. c + 1 PROVE T!Ranked(G, n) = IF n = c + 1 THEN {o} ELSE T!Ranked(P, n)
  <2>1. n \in 1 .. Cardinality(P \cup {o})
    BY <1>1
  <2>2. n \in AsRanked(P, o)
    BY <2>1, RankedMore
  <2> QED
    BY <2>2 DEF AsRanked
<1> HIDE DEF G, c
<1>5. \A n \in 1 .. c : T!InOrder(G)[n] = a[n]
  <2> SUFFICES ASSUME NEW n \in 1 .. c PROVE T!InOrder(G)[n] = a[n]
    OBVIOUS
  <2>1. n \in 1 .. c + 1 /\ n # c + 1
    BY <1>1
  <2>2. T!Ranked(G, n) = T!Ranked(P, n)
    BY <1>4, <2>1
  <2> QED
    BY <1>2, <1>3, <2>1, <2>2
<1>6. T!InOrder(G)[c + 1] = o
  <2>1. c + 1 \in 1 .. c + 1
    BY <1>1
  <2>2. T!Ranked(G, c + 1) = {o}
    BY <1>4, <2>1
  <2>3. (CHOOSE k \in {o} : TRUE) = o
    OBVIOUS
  <2> QED
    BY <1>3, <2>1, <2>2, <2>3
<1>7. DOMAIN a = 1 .. c /\ DOMAIN T!InOrder(G) = 1 .. c + 1
  BY <1>2, <1>3
<1>8. T!InOrder(G) = [n \in 1 .. c + 1 |-> T!InOrder(G)[n]]
  BY <1>3
<1>9. Len(a) = c /\ a \in Seq({a[k] : k \in 1 .. c})
  <2>1. DOMAIN a = 1 .. Len(a) /\ Len(a) \in Nat
    BY SeqDomain
  <2> HIDE DEF a
  <2>2. Len(a) = c
    BY <1>1, <1>7, <2>1
  <2> QED
    BY <1>2, <1>7, <2>2, SeqDomain DEF a
<1> DEFINE Z == {a[k] : k \in 1 .. c} \cup {o}
           b == T!InOrder(G)
<1>10. a \in Seq(Z) /\ o \in Z
  BY <1>9
<1>11. b \in Seq(Z) /\ Len(b) = c + 1
  <2>1. \A k \in 1 .. c + 1 : b[k] \in Z
    <3> SUFFICES ASSUME NEW k \in 1 .. c + 1 PROVE b[k] \in Z
      OBVIOUS
    <3>1. k \in 1 .. c \/ k = c + 1
      BY <1>1
    <3> QED
      BY <1>5, <1>6, <3>1
  <2> HIDE DEF b, Z
  <2> QED
    BY <1>1, <1>7, <1>8, <2>1 DEF b
<1> HIDE DEF a, Z, b
<1>12. b = Append(a, o)
  <2>1. \A k \in 1 .. c : b[k] = a[k]
    BY <1>5 DEF b
  <2>2. b[c + 1] = o
    BY <1>6 DEF b
  <2> QED
    BY <1>1, <1>9, <1>10, <1>11, <2>1, <2>2
<1> QED
  BY <1>12 DEF a, b, G

(* No numbers are in no order.                                                *)
LEMMA OrderOfNone == T!InOrder({}) = <<>>
<1>1. Cardinality({}) = 0
  BY FS_EmptySet
<1>2. T!InOrder({}) = [n \in 1 .. 0 |-> CHOOSE k \in T!Ranked({}, n) : TRUE]
  BY <1>1, OrderIs
<1> QED
  BY <1>2

(* The order has the numbers of P, and no other.                              *)
LEMMA OrderKeeps ==
  ASSUME NEW m \in Nat, NEW P \in SUBSET (1 .. m)
  PROVE  T!InOrder(P) \in Seq(P)
<1> DEFINE D == {n \in Nat : \A H \in SUBSET (1 .. n) : T!InOrder(H) \in Seq(H)}
<1>1. 0 \in D
  <2>1. \A H \in SUBSET (1 .. 0) : H = {}
    OBVIOUS
  <2>2. <<>> \in Seq({})
    OBVIOUS
  <2> QED
    BY <2>1, <2>2, OrderOfNone
<1>2. ASSUME NEW n \in Nat, n \in D PROVE n + 1 \in D
  <2> SUFFICES ASSUME NEW H \in SUBSET (1 .. n + 1) PROVE T!InOrder(H) \in Seq(H)
    OBVIOUS
  <2>1. CASE n + 1 \notin H
    <3>1. H \in SUBSET (1 .. n)
      <4>1. \A x \in H : x \in 1 .. n
        BY <2>1
      <4> QED
        BY <4>1
    <3> QED
      BY <1>2, <3>1
  <2>2. CASE n + 1 \in H
    <3> DEFINE B == H \ {n + 1}
    <3>1. B \in SUBSET (1 .. n) /\ H = B \cup {n + 1}
      <4>1. \A x \in B : x \in 1 .. n
        OBVIOUS
      <4> QED
        BY <2>2, <4>1
    <3> HIDE DEF B
    <3>2. T!InOrder(B) \in Seq(B)
      BY <1>2, <3>1
    <3>3. IsSeq(T!InOrder(B)) /\ n < n + 1 /\ n + 1 \in Nat
      BY <3>2 DEF IsSeq
    <3>4. T!InOrder(H) = Append(T!InOrder(B), n + 1)
      BY <3>1, <3>3, OrderGrows
    <3>5. T!InOrder(B) \in Seq(H) /\ n + 1 \in H
      BY <2>2, <3>1, <3>2
    <3> QED
      BY <3>4, <3>5, AppendProperties
  <2> QED
    BY <2>1, <2>2
<1>3. Nat \subseteq D
  <2> HIDE DEF D
  <2> QED
    BY <1>1, <1>2, Counting
<1> QED
  BY <1>3

-----------------------------------------------------------------------------
(* Frames, with one more.                                                     *)
FrameRows == [kind : STRING, value : STRING, args : Seq(STRING), stop : BOOLEAN]

(* A start waits for inputs when it does not stop at once and no start or     *)
(* stop has come since.                                                       *)
Waits(s, k) == ~ s[k].stop /\ \A e \in k + 1 .. Len(s) : s[e].kind \notin {"start", "stop"}
Awaiting(s) == {k \in DOMAIN s : s[k].kind = "start" /\ Waits(s, k)}

(* What a tool is given, whatever it is.                                      *)
ArgsOf(s, order) == [n \in DOMAIN order |-> s[order[n]].args]
Raw(s, k) == s[k].args \o T!Flat(ArgsOf(s, T!InOrder(T!InputsOf(s, k))))
Broken(args) == "broken" \in T!ToSet(args)
Legal(args) == IF Broken(args) THEN <<>> ELSE args
CallMade(s, k) == [name |-> s[k].value, args |-> Legal(Raw(s, k))]

(* The calls that begin at some frames, one for each.                         *)
LEMMA CallsAre ==
  ASSUME NEW s, NEW P
  PROVE  T!CallsAt(s, P) = [n \in DOMAIN T!InOrder(P) |-> CallMade(s, T!InOrder(P)[n])]
<1>1. \A k : T!KiroArgs(s, k) = Legal(Raw(s, k))
  BY DEF T!KiroArgs, Legal, Broken, Raw, ArgsOf
<1> QED
  BY <1>1 DEF T!CallsAt, CallMade

(* A sequence with one more frame.                                            *)
LEMMA FramesGrow ==
  ASSUME NEW s \in Seq(FrameRows), NEW f \in FrameRows, NEW g, g = Append(s, f)
  PROVE  /\ Len(s) \in Nat /\ DOMAIN s = 1 .. Len(s) /\ Len(g) = Len(s) + 1 /\ DOMAIN g = 1 .. Len(s) + 1
         /\ g[Len(s) + 1] = f
         /\ \A k \in DOMAIN s : g[k] = s[k] /\ s[k] \in FrameRows
         /\ g \in Seq(FrameRows)
<1>1. IsSeq(s)
  BY DEF IsSeq
<1>2. \A k \in DOMAIN s : s[k] \in FrameRows
  OBVIOUS
<1>3. g \in Seq(FrameRows)
  BY AppendProperties
<1> QED
  BY <1>1, <1>2, <1>3, SeqDomain, SeqGrows

(* The inputs of a start grow by an input when it waits.                      *)
LEMMA InputsGrow ==
  ASSUME NEW s \in Seq(FrameRows), NEW f \in FrameRows, NEW g, g = Append(s, f), NEW k \in DOMAIN s
  PROVE  /\ T!InputsOf(s, k) \in SUBSET (1 .. Len(s))
         /\ T!InputsOf(g, k) = IF f.kind = "input" /\ Waits(s, k) THEN T!InputsOf(s, k) \cup {Len(s) + 1}
                               ELSE T!InputsOf(s, k)
<1> DEFINE n == Len(s)
<1>1. /\ n \in Nat /\ DOMAIN s = 1 .. n /\ Len(g) = n + 1 /\ g[n + 1] = f /\ k \in 1 .. n
      /\ \A j \in 1 .. n : g[j] = s[j]
  BY FramesGrow
<1> HIDE DEF n
<1> DEFINE In(z, j) == z[j].kind = "input" /\ ~ z[k].stop /\ \A e \in k + 1 .. j : z[e].kind \notin {"start", "stop"}
<1>2. T!InputsOf(s, k) = {j \in k + 1 .. n : In(s, j)} /\ T!InputsOf(g, k) = {j \in k + 1 .. n + 1 : In(g, j)}
  BY <1>1 DEF T!InputsOf, n
<1>3. \A j \in k + 1 .. n : In(g, j) = In(s, j)
  BY <1>1
<1>4. In(g, n + 1) <=> f.kind = "input" /\ Waits(s, k)
  <2>1. CASE f.kind = "input"
    <3>1. f.kind \notin {"start", "stop"}
      BY <2>1
    <3>2. g[k].stop = s[k].stop
      BY <1>1
    <3>3. (\A e \in k + 1 .. n + 1 : g[e].kind \notin {"start", "stop"}) <=> \A e \in k + 1 .. n : s[e].kind \notin {"start", "stop"}
      BY <1>1, <3>1
    <3> QED
      BY <1>1, <2>1, <3>2, <3>3 DEF Waits, n
  <2>2. CASE f.kind # "input"
    BY <1>1, <2>2
  <2> QED
    BY <2>1, <2>2
<1> HIDE DEF In
<1>5. \A j \in k + 1 .. n + 1 : j \in k + 1 .. n \/ j = n + 1
  BY <1>1
<1>6. n + 1 \in k + 1 .. n + 1 /\ k + 1 .. n \subseteq k + 1 .. n + 1 /\ k + 1 .. n \subseteq 1 .. n
  BY <1>1
<1>7. T!InputsOf(s, k) \in SUBSET (1 .. n)
  BY <1>2, <1>6
<1>8. T!InputsOf(g, k) = IF f.kind = "input" /\ Waits(s, k) THEN T!InputsOf(s, k) \cup {n + 1} ELSE T!InputsOf(s, k)
  BY <1>2, <1>3, <1>4, <1>5, <1>6
<1> QED
  BY <1>7, <1>8 DEF n

(* What some sequences are of, they are of together.                          *)
LEMMA FlatKeeps ==
  ASSUME NEW X, NEW s \in Seq(Seq(X))
  PROVE  T!Flat(s) \in Seq(X)
<1> DEFINE B(n) == SubSeq(s, 1, n)
           D == {n \in Nat : n <= Len(s) => T!Flat(B(n)) \in Seq(X)}
<1>1. /\ B(0) = <<>> /\ B(Len(s)) = s /\ Len(s) \in Nat
      /\ \A n \in 0 .. Len(s) - 1 : IsSeq(B(n)) /\ s[n + 1] \in Seq(X) /\ B(n + 1) = Append(B(n), s[n + 1])
  <2> DEFINE Y == Seq(X)
  <2>1. s \in Seq(Y)
    OBVIOUS
  <2> HIDE DEF Y
  <2>2. /\ B(0) = <<>> /\ B(Len(s)) = s
        /\ \A n \in 0 .. Len(s) - 1 : B(n) \in Seq(Y) /\ s[n + 1] \in Y /\ B(n + 1) = Append(B(n), s[n + 1])
    BY <2>1, Beginnings
  <2> HIDE DEF B
  <2>3. Len(s) \in Nat
    OBVIOUS
  <2> QED
    BY <2>2, <2>3 DEF IsSeq, Y
<1> HIDE DEF B
<1>2. 0 \in D
  <2>1. <<>> \in Seq(X)
    OBVIOUS
  <2> QED
    BY <1>1, <2>1, FlatNothing, Zenon
<1>3. ASSUME NEW n \in Nat, n \in D PROVE n + 1 \in D
  <2> SUFFICES ASSUME n + 1 <= Len(s) PROVE T!Flat(B(n + 1)) \in Seq(X)
    OBVIOUS
  <2>1. n \in 0 .. Len(s) - 1 /\ n <= Len(s)
    BY <1>1
  <2> DEFINE h == B(n)
             c == s[n + 1]
  <2>2. IsSeq(h) /\ c \in Seq(X) /\ B(n + 1) = Append(h, c)
    BY <1>1, <2>1
  <2>3. T!Flat(h) \in Seq(X)
    BY <1>3, <2>1
  <2> HIDE DEF h, c
  <2>4. T!Flat(Append(h, c)) = T!Flat(h) \o c
    BY <2>2, FlatOneMore
  <2>5. T!Flat(h) \o c \in Seq(X)
    BY <2>2, <2>3, ConcatProperties
  <2> QED
    BY <2>2, <2>4, <2>5
<1>4. Nat \subseteq D
  <2> HIDE DEF D
  <2> QED
    BY <1>2, <1>3, Counting
<1>5. Len(s) \in D /\ Len(s) <= Len(s)
  BY <1>1, <1>4
<1> QED
  BY <1>1, <1>5

(* What the inputs of a start are, in order.                                  *)
LEMMA ArgsKept ==
  ASSUME NEW s \in Seq(FrameRows), NEW f \in FrameRows, NEW g, g = Append(s, f),
         NEW order \in Seq(1 .. Len(s))
  PROVE  /\ ArgsOf(g, order) = ArgsOf(s, order) /\ ArgsOf(s, order) \in Seq(Seq(STRING))
         /\ ArgsOf(g, Append(order, Len(s) + 1)) = Append(ArgsOf(s, order), f.args)
<1> DEFINE n == Len(s)
           big == Append(order, n + 1)
<1>1. /\ n \in Nat /\ DOMAIN s = 1 .. n /\ g[n + 1] = f
      /\ \A k \in 1 .. n : g[k] = s[k] /\ s[k] \in FrameRows
  BY FramesGrow
<1>2. /\ Len(order) \in Nat /\ DOMAIN order = 1 .. Len(order) /\ \A j \in 1 .. Len(order) : order[j] \in 1 .. n
  OBVIOUS
<1>3. IsSeq(order)
  BY DEF IsSeq
<1>4. DOMAIN big = 1 .. Len(order) + 1 /\ big[Len(order) + 1] = n + 1 /\ \A j \in DOMAIN order : big[j] = order[j]
  BY <1>3, SeqGrows
<1> HIDE DEF n, big
<1>5. \A j \in 1 .. Len(order) : g[order[j]] = s[order[j]] /\ s[order[j]] \in FrameRows
  BY <1>1, <1>2
<1>6. ArgsOf(g, order) = ArgsOf(s, order)
  BY <1>2, <1>5 DEF ArgsOf
<1>7. \A j \in 1 .. Len(order) : s[order[j]].args \in Seq(STRING)
  BY <1>5 DEF FrameRows
<1>8. ArgsOf(s, order) = [j \in 1 .. Len(order) |-> s[order[j]].args]
  BY <1>2 DEF ArgsOf
<1>9. ArgsOf(s, order) \in Seq(Seq(STRING)) /\ Len(ArgsOf(s, order)) = Len(order)
  BY <1>2, <1>7, <1>8
<1>10. f.args \in Seq(STRING)
  BY DEF FrameRows
<1>11. ArgsOf(g, big) = [j \in 1 .. Len(order) + 1 |-> g[big[j]].args]
  BY <1>4 DEF ArgsOf
<1> DEFINE a == ArgsOf(s, order)
           b == ArgsOf(g, big)
<1>12. \A j \in 1 .. Len(order) : b[j] = a[j]
  <2> SUFFICES ASSUME NEW j \in 1 .. Len(order) PROVE b[j] = a[j]
    OBVIOUS
  <2>1. j \in DOMAIN order /\ j \in 1 .. Len(order) + 1
    BY <1>2
  <2>2. b[j] = g[big[j]].args
    BY <1>11, <2>1
  <2>3. a[j] = s[order[j]].args
    BY <1>8
  <2>4. big[j] = order[j] /\ g[order[j]] = s[order[j]]
    BY <1>4, <1>5, <2>1
  <2> HIDE DEF a, b
  <2> QED
    BY <2>2, <2>3, <2>4
<1>13. b[Len(order) + 1] = f.args
  <2>1. Len(order) + 1 \in 1 .. Len(order) + 1
    BY <1>2
  <2> QED
    BY <1>1, <1>4, <1>11, <2>1
<1>14. b \in Seq(Seq(STRING)) /\ Len(b) = Len(order) + 1
  <2>1. \A j \in 1 .. Len(order) + 1 : b[j] \in Seq(STRING)
    <3> SUFFICES ASSUME NEW j \in 1 .. Len(order) + 1 PROVE b[j] \in Seq(STRING)
      OBVIOUS
    <3>1. j \in 1 .. Len(order) \/ j = Len(order) + 1
      BY <1>2
    <3> HIDE DEF b
    <3>2. \A x \in 1 .. Len(order) : a[x] \in Seq(STRING)
      BY <1>9
    <3> HIDE DEF a
    <3> QED
      BY <1>10, <1>12, <1>13, <3>1, <3>2
  <2>2. b = [j \in 1 .. Len(order) + 1 |-> b[j]]
    BY <1>11
  <2> HIDE DEF b
  <2> QED
    BY <1>2, <2>1, <2>2
<1> HIDE DEF a, b
<1>15. b = Append(a, f.args)
  <2>1. a \in Seq(Seq(STRING)) /\ Len(a) = Len(order)
    BY <1>9 DEF a
  <2>2. PICK c : c = Append(a, f.args)
    OBVIOUS
  <2>3. /\ c \in Seq(Seq(STRING)) /\ Len(c) = Len(order) + 1
        /\ c[Len(order) + 1] = f.args /\ \A j \in 1 .. Len(order) : c[j] = a[j]
    BY <1>2, <1>10, <2>1, <2>2
  <2>4. ASSUME NEW j \in 1 .. Len(order) + 1 PROVE b[j] = c[j]
    <3>1. CASE j \in 1 .. Len(order)
      BY <1>12, <2>3, <3>1, Zenon
    <3>2. CASE j = Len(order) + 1
      BY <1>13, <2>3, <3>2, Zenon
    <3> QED
      BY <1>2, <3>1, <3>2
  <2>5. b = c
    BY <1>2, <1>14, <2>3, <2>4
  <2> QED
    BY <2>2, <2>5
<1> QED
  BY <1>6, <1>9, <1>15 DEF a, b, big, n

(* Adding to the arguments that were begun is adding at their end.            *)
LEMMA ArgsAssociate ==
  \A x, y, z \in Seq(STRING) : x \o (y \o z) = (x \o y) \o z
<1> SUFFICES ASSUME NEW x \in Seq(STRING), NEW y \in Seq(STRING), NEW z \in Seq(STRING)
             PROVE  (x \o y) \o z = x \o (y \o z)
  OBVIOUS
<1> QED
  OBVIOUS

(* A call that waits has the arguments of one more input; no other call       *)
(* changes.                                                                   *)
LEMMA RawGrows ==
  ASSUME NEW s \in Seq(FrameRows), NEW f \in FrameRows, NEW g, g = Append(s, f), NEW k \in DOMAIN s
  PROVE  /\ Raw(s, k) \in Seq(STRING)
         /\ Raw(g, k) = IF f.kind = "input" /\ Waits(s, k) THEN Raw(s, k) \o f.args ELSE Raw(s, k)
<1> DEFINE n == Len(s)
           ins == T!InputsOf(s, k)
           order == T!InOrder(ins)
           own == s[k].args
           rest == T!Flat(ArgsOf(s, order))
<1>1. n \in Nat /\ g[k] = s[k] /\ s[k] \in FrameRows
  BY FramesGrow
<1>2. ins \in SUBSET (1 .. n)
  BY InputsGrow
<1>3. T!InputsOf(g, k) = IF f.kind = "input" /\ Waits(s, k) THEN ins \cup {n + 1} ELSE ins
  BY InputsGrow
<1> HIDE DEF n, ins
<1>4. order \in Seq(1 .. n) /\ IsSeq(order)
  <2>1. order \in Seq(ins)
    BY <1>1, <1>2, OrderKeeps
  <2> HIDE DEF order
  <2>2. IsSeq(order)
    BY <2>1 DEF IsSeq
  <2>3. \A j \in DOMAIN order : order[j] \in ins
    BY <2>1
  <2> QED
    BY <1>2, <2>2, <2>3, SeqDomain
<1>5. T!InOrder(ins \cup {n + 1}) = Append(order, n + 1)
  <2>1. n + 1 \in Nat /\ n < n + 1 /\ IsSeq(T!InOrder(ins))
    BY <1>1, <1>4
  <2> QED
    BY <1>1, <1>2, <2>1, OrderGrows
<1> HIDE DEF order
<1>6. ArgsOf(g, order) = ArgsOf(s, order) /\ ArgsOf(s, order) \in Seq(Seq(STRING))
      /\ ArgsOf(g, Append(order, n + 1)) = Append(ArgsOf(s, order), f.args)
  <2>1. order \in Seq(1 .. Len(s)) /\ n = Len(s)
    BY <1>4, Zenon DEF n
  <2> QED
    BY <2>1, ArgsKept, Zenon
<1>7. rest \in Seq(STRING) /\ IsSeq(ArgsOf(s, order))
  BY <1>6, FlatKeeps DEF IsSeq
<1>8. T!Flat(Append(ArgsOf(s, order), f.args)) = rest \o f.args
  BY <1>7, FlatOneMore
<1>9. own \in Seq(STRING) /\ f.args \in Seq(STRING)
  BY <1>1 DEF FrameRows
<1>10. Raw(s, k) = own \o rest
  BY DEF Raw, order, ins
<1>11. Raw(g, k) = own \o T!Flat(ArgsOf(g, T!InOrder(T!InputsOf(g, k))))
  BY <1>1 DEF Raw
<1>12. T!InOrder(ins) = order
  BY DEF order
<1> HIDE DEF own, rest
<1>13. own \o rest \in Seq(STRING) /\ own \o (rest \o f.args) = (own \o rest) \o f.args
  <2> DEFINE a == f.args
  <2>1. a \in Seq(STRING)
    BY <1>9
  <2> HIDE DEF a
  <2>2. own \o rest \in Seq(STRING)
    BY <1>7, <1>9
  <2>3. own \o (rest \o a) = (own \o rest) \o a
    <3>1. rest \in Seq(STRING) /\ own \in Seq(STRING) /\ a \in Seq(STRING)
      BY <1>7, <1>9, <2>1, Zenon
    <3> QED
      BY <3>1, ArgsAssociate, Zenon
  <2> QED
    BY <2>2, <2>3 DEF a
<1>14. CASE f.kind = "input" /\ Waits(s, k)
  <2>1. T!InputsOf(g, k) = ins \cup {n + 1}
    BY <1>3, <1>14
  <2>2. Raw(g, k) = own \o (rest \o f.args)
    BY <1>5, <1>6, <1>8, <1>11, <2>1
  <2> QED
    BY <1>10, <1>13, <1>14, <2>2
<1>15. CASE ~ (f.kind = "input" /\ Waits(s, k))
  <2>1. T!InputsOf(g, k) = ins
    BY <1>3, <1>15
  <2>2. Raw(g, k) = own \o rest
    BY <1>6, <1>11, <1>12, <2>1 DEF rest
  <2> QED
    BY <1>10, <1>13, <1>15, <2>2
<1> QED
  BY <1>14, <1>15

(* Arguments that are made legal are arguments.                               *)
LEMMA LegalKeeps ==
  ASSUME NEW a \in Seq(STRING)
  PROVE  Legal(a) \in Seq(STRING)
<1>1. <<>> \in Seq(STRING)
  OBVIOUS
<1> QED
  BY <1>1 DEF Legal

(* The call that a frame begins is one.                                       *)
LEMMA CallIsCall ==
  ASSUME NEW s \in Seq(FrameRows), NEW k \in DOMAIN s
  PROVE  CallMade(s, k) \in ToolCalls
<1>1. Raw(s, k) \in Seq(STRING)
  <2>1. PICK f : f = s[k]
    OBVIOUS
  <2>2. f \in FrameRows
    BY <2>1
  <2>3. PICK g : g = Append(s, f)
    OBVIOUS
  <2> QED
    BY <2>2, <2>3, RawGrows
<1>2. s[k].value \in STRING
  <2>1. s[k] \in FrameRows
    OBVIOUS
  <2> QED
    BY <2>1 DEF FrameRows
<1>3. Legal(Raw(s, k)) \in Seq(STRING)
  BY <1>1, LegalKeeps
<1> QED
  BY <1>2, <1>3, Zenon DEF CallMade, ToolCalls, Words

(* Calls that do not wait for the frame are the same with it.                 *)
LEMMA CallsStay ==
  ASSUME NEW s \in Seq(FrameRows), NEW f \in FrameRows, NEW g, g = Append(s, f), NEW P \in SUBSET DOMAIN s,
         \A k \in P : f.kind = "input" => ~ Waits(s, k)
  PROVE  T!CallsAt(g, P) = T!CallsAt(s, P)
<1> DEFINE order == T!InOrder(P)
<1>1. Len(s) \in Nat /\ DOMAIN s = 1 .. Len(s) /\ \A k \in DOMAIN s : g[k] = s[k]
  BY FramesGrow
<1>2. order \in Seq(P)
  BY <1>1, OrderKeeps
<1> HIDE DEF order
<1>3. \A n \in DOMAIN order : order[n] \in P
  BY <1>2
<1>4. ASSUME NEW k \in P PROVE CallMade(g, k) = CallMade(s, k)
  <2>1. k \in DOMAIN s /\ ~ (f.kind = "input" /\ Waits(s, k))
    OBVIOUS
  <2>2. Raw(g, k) = Raw(s, k)
    BY <2>1, RawGrows
  <2> QED
    BY <1>1, <2>1, <2>2 DEF CallMade
<1>5. T!CallsAt(g, P) = [n \in DOMAIN order |-> CallMade(g, order[n])]
      /\ T!CallsAt(s, P) = [n \in DOMAIN order |-> CallMade(s, order[n])]
  BY CallsAre DEF order
<1> QED
  BY <1>3, <1>4, <1>5

(* A call that begins after all others is the last.                           *)
LEMMA CallsGrow ==
  ASSUME NEW s \in Seq(FrameRows), NEW P \in SUBSET DOMAIN s
  PROVE  /\ T!CallsAt(s, P) \in Seq(ToolCalls)
         /\ \A o \in DOMAIN s : (\A k \in P : k < o) => T!CallsAt(s, P \cup {o}) = Append(T!CallsAt(s, P), CallMade(s, o))
<1> DEFINE order == T!InOrder(P)
           calls == T!CallsAt(s, P)
<1>1. Len(s) \in Nat /\ DOMAIN s = 1 .. Len(s)
  OBVIOUS
<1>2. order \in Seq(P) /\ IsSeq(order)
  BY <1>1, OrderKeeps DEF IsSeq
<1>3. calls = [n \in DOMAIN order |-> CallMade(s, order[n])]
  BY CallsAre
<1> HIDE DEF order, calls
<1>4. Len(order) \in Nat /\ DOMAIN order = 1 .. Len(order) /\ \A n \in DOMAIN order : order[n] \in DOMAIN s
  BY <1>2
<1>5. \A n \in DOMAIN order : CallMade(s, order[n]) \in ToolCalls
  BY <1>4, CallIsCall
<1>6. calls \in Seq(ToolCalls) /\ Len(calls) = Len(order)
  BY <1>3, <1>4, <1>5
<1>7. ASSUME NEW o \in DOMAIN s, \A k \in P : k < o
      PROVE  T!CallsAt(s, P \cup {o}) = Append(calls, CallMade(s, o))
  <2> DEFINE m == o - 1
             big == Append(order, o)
             c == CallMade(s, o)
             b == [n \in DOMAIN big |-> CallMade(s, big[n])]
  <2>1. m \in Nat /\ m < o /\ o \in Nat
    BY <1>1
  <2>2. P \in SUBSET (1 .. m)
    <3> SUFFICES ASSUME NEW k \in P PROVE k \in 1 .. m
      OBVIOUS
    <3>1. k \in Nat /\ k >= 1 /\ k < o
      BY <1>1, <1>7
    <3> QED
      BY <2>1, <3>1
  <2> HIDE DEF m
  <2>3. T!InOrder(P \cup {o}) = big
    BY <1>2, <2>1, <2>2, OrderGrows DEF order
  <2>4. T!CallsAt(s, P \cup {o}) = b
    BY <2>3, CallsAre
  <2>5. DOMAIN big = 1 .. Len(order) + 1 /\ big[Len(order) + 1] = o /\ \A n \in DOMAIN order : big[n] = order[n]
    BY <1>2, SeqGrows
  <2>6. c \in ToolCalls
    BY CallIsCall
  <2> HIDE DEF big, c
  <2>7. \A n \in 1 .. Len(order) : b[n] = calls[n]
    <3> SUFFICES ASSUME NEW n \in 1 .. Len(order) PROVE b[n] = calls[n]
      OBVIOUS
    <3>1. n \in DOMAIN order /\ n \in DOMAIN big
      BY <1>4, <2>5
    <3> QED
      BY <1>3, <2>5, <3>1
  <2>8. b[Len(order) + 1] = c
    <3>1. Len(order) + 1 \in DOMAIN big
      BY <1>4, <2>5
    <3> QED
      BY <2>5, <3>1 DEF c
  <2>9. b = [n \in 1 .. Len(order) + 1 |-> b[n]]
    BY <2>5
  <2> HIDE DEF b
  <2>10. b \in Seq(ToolCalls) /\ Len(b) = Len(order) + 1
    <3>1. \A n \in 1 .. Len(order) + 1 : b[n] \in ToolCalls
      <4> SUFFICES ASSUME NEW n \in 1 .. Len(order) + 1 PROVE b[n] \in ToolCalls
        OBVIOUS
      <4>1. n \in 1 .. Len(order) \/ n = Len(order) + 1
        BY <1>4
      <4>2. \A x \in 1 .. Len(order) : calls[x] \in ToolCalls
        BY <1>6
      <4> QED
        BY <2>6, <2>7, <2>8, <4>1, <4>2
    <3> QED
      BY <1>4, <2>9, <3>1
  <2>11. b = Append(calls, c)
    BY <1>4, <1>6, <2>6, <2>7, <2>8, <2>10
  <2> QED
    BY <2>4, <2>11 DEF c
<1> QED
  BY <1>6, <1>7 DEF calls

KiroStates ==
  [half : Nat, last : Words, open : BOOLEAN, tool : [name : Words, args : Seq(STRING)],
   calls : Seq(ToolCalls), role : BOOLEAN]

(* What the parser may know after the frames s: the calls that are complete,  *)
(* and the one that still waits for its input.                                *)
Parsed(s) ==
  {t \in KiroStates :
     /\ t.calls = T!CallsAt(s, T!Starts(s) \ Awaiting(s))
     /\ t.open <=> Awaiting(s) # {}
     /\ \A o \in Awaiting(s) : t.tool.name = s[o].value /\ t.tool.args = Raw(s, o)}

(* A call that waits began after all others.                                  *)
LEMMA WaitingIsLast ==
  ASSUME NEW s \in Seq(FrameRows), NEW o \in Awaiting(s)
  PROVE  /\ o \in DOMAIN s /\ Awaiting(s) = {o}
         /\ \A k \in T!Starts(s) \ Awaiting(s) : k < o
         /\ T!Starts(s) = IF s[o].value = "" THEN T!Starts(s) \ Awaiting(s) ELSE (T!Starts(s) \ Awaiting(s)) \cup {o}
<1>1. Len(s) \in Nat /\ DOMAIN s = 1 .. Len(s)
  OBVIOUS
<1>2. ASSUME NEW k \in DOMAIN s, s[k].kind = "start" PROVE k <= o
  <2>1. k \in 1 .. Len(s) /\ o \in 1 .. Len(s) /\ \A e \in o + 1 .. Len(s) : s[e].kind # "start"
    BY <1>1 DEF Awaiting, Waits
  <2>2. k \notin o + 1 .. Len(s)
    BY <1>2, <2>1
  <2> QED
    BY <1>1, <2>1, <2>2
<1>3. ASSUME NEW k \in Awaiting(s) PROVE o <= k
  <2>1. k \in 1 .. Len(s) /\ o \in 1 .. Len(s) /\ s[o].kind = "start" /\ \A e \in k + 1 .. Len(s) : s[e].kind # "start"
    BY <1>1 DEF Awaiting, Waits
  <2>2. o \notin k + 1 .. Len(s)
    BY <2>1
  <2> QED
    BY <1>1, <2>1, <2>2
<1>4. \A k \in Awaiting(s) : k \in DOMAIN s /\ s[k].kind = "start"
  BY DEF Awaiting
<1>5. \A k \in T!Starts(s) : k \in DOMAIN s /\ s[k].kind = "start" /\ s[k].value # ""
  BY Zenon DEF T!Starts
<1>6. Awaiting(s) = {o}
  <2>1. ASSUME NEW k \in Awaiting(s) PROVE k = o
    <3>1. k <= o /\ o <= k
      BY <1>2, <1>3, <1>4, <2>1
    <3>2. k \in Nat /\ o \in Nat
      BY <1>1, <1>4
    <3> QED
      BY <3>1, <3>2
  <2> QED
    BY <2>1
<1>7. \A k \in T!Starts(s) \ Awaiting(s) : k < o
  <2> SUFFICES ASSUME NEW k \in T!Starts(s), k # o PROVE k < o
    BY <1>6
  <2>0. k \in DOMAIN s /\ s[k].kind = "start"
    BY <1>5, Zenon
  <2>1. k <= o
    BY <1>2, <2>0
  <2>2. k \in Nat /\ o \in Nat
    BY <1>1, <1>4, <2>0
  <2> QED
    BY <2>1, <2>2
<1>8. o \in T!Starts(s) <=> s[o].value # ""
  BY <1>4, Zenon DEF T!Starts
<1> QED
  BY <1>4, <1>6, <1>7, <1>8, Zenon

CallOf(tool) == [name |-> tool.name, args |-> Legal(tool.args)]

ParserState(h, l, o, x, c, r) == [half |-> h, last |-> l, open |-> o, tool |-> x, calls |-> c, role |-> r]

(* One field of a parser at a time.                                           *)
WithHalf(t, e) == [t EXCEPT !.half = e]
WithLast(t, e) == [t EXCEPT !.last = e]
WithOpen(t, e) == [t EXCEPT !.open = e]
WithTool(t, e) == [t EXCEPT !.tool = e]
WithCalls(t, e) == [t EXCEPT !.calls = e]
WithRole(t, e) == [t EXCEPT !.role = e]

(* A parser's state with one of its fields changed.                           *)
LEMMA ParserChanges ==
  ASSUME NEW h, NEW l, NEW o, NEW x, NEW c, NEW r, NEW e
  PROVE  /\ WithHalf(ParserState(h, l, o, x, c, r), e) = ParserState(e, l, o, x, c, r)
         /\ WithLast(ParserState(h, l, o, x, c, r), e) = ParserState(h, e, o, x, c, r)
         /\ WithOpen(ParserState(h, l, o, x, c, r), e) = ParserState(h, l, e, x, c, r)
         /\ WithTool(ParserState(h, l, o, x, c, r), e) = ParserState(h, l, o, e, c, r)
         /\ WithCalls(ParserState(h, l, o, x, c, r), e) = ParserState(h, l, o, x, e, r)
         /\ WithRole(ParserState(h, l, o, x, c, r), e) = ParserState(h, l, o, x, c, e)
<1>1. WithHalf(ParserState(h, l, o, x, c, r), e) = ParserState(e, l, o, x, c, r)
  BY DEF ParserState, WithHalf
<1>2. WithLast(ParserState(h, l, o, x, c, r), e) = ParserState(h, e, o, x, c, r)
  BY DEF ParserState, WithLast
<1>3. WithOpen(ParserState(h, l, o, x, c, r), e) = ParserState(h, l, e, x, c, r)
  BY DEF ParserState, WithOpen
<1>4. WithTool(ParserState(h, l, o, x, c, r), e) = ParserState(h, l, o, e, c, r)
  BY DEF ParserState, WithTool
<1>5. WithCalls(ParserState(h, l, o, x, c, r), e) = ParserState(h, l, o, x, e, r)
  BY DEF ParserState, WithCalls
<1>6. WithRole(ParserState(h, l, o, x, c, r), e) = ParserState(h, l, o, x, c, e)
  BY DEF ParserState, WithRole
<1> QED
  BY <1>1, <1>2, <1>3, <1>4, <1>5, <1>6

Closing(t, f, n, e) == WithCalls(WithTool(WithOpen(t, f), n), e)

(* A parser's state with its call changed.                                    *)
LEMMA ClosingIs ==
  ASSUME NEW h, NEW l, NEW o, NEW x, NEW c, NEW r, NEW f, NEW n, NEW e
  PROVE  Closing(ParserState(h, l, o, x, c, r), f, n, e) = ParserState(h, l, f, n, e, r)
BY ParserChanges DEF Closing

(* Finalizing takes the call that waits to the others, if it has a name.      *)
LEMMA FinalizeIs ==
  ASSUME NEW t \in KiroStates
  PROVE  /\ T!Finalize(t).half = t.half /\ T!Finalize(t).last = t.last /\ T!Finalize(t).role = t.role
         /\ T!Finalize(t).open = FALSE /\ T!Finalize(t).tool = T!NoTool
         /\ T!Finalize(t).calls = IF ~ t.open \/ t.tool.name = "" THEN t.calls ELSE Append(t.calls, CallOf(t.tool))
         /\ T!Finalize(t) \in KiroStates
<1>1. PICK h, l, o, x, c, r : t = ParserState(h, l, o, x, c, r)
  BY DEF KiroStates, ParserState
<1>2. /\ h \in Nat /\ l \in Words /\ x \in [name : Words, args : Seq(STRING)] /\ c \in Seq(ToolCalls)
      /\ r \in BOOLEAN /\ o \in BOOLEAN
  BY <1>1 DEF KiroStates, ParserState
<1> DEFINE d == IF ~ o \/ x.name = "" THEN c ELSE Append(c, CallOf(x))
<1>3. T!Finalize(t) = ParserState(h, l, FALSE, T!NoTool, d, r)
  <2>1. PICK e : e = IF ~ t.open \/ t.tool.name = "" THEN t.calls ELSE Append(t.calls, CallOf(t.tool))
    BY Zenon
  <2>2. T!Finalize(t) = Closing(t, FALSE, T!NoTool, e)
    BY <2>1, Zenon DEF T!Finalize, CallOf, Legal, Broken, Closing, WithOpen, WithTool, WithCalls
  <2>3. e = d
    BY <1>1, <2>1, Zenon DEF ParserState
  <2> HIDE DEF d
  <2>4. Closing(t, FALSE, T!NoTool, e) = ParserState(h, l, FALSE, T!NoTool, e, r)
    <3>1. PICK f, n : f = FALSE /\ n = T!NoTool
      BY Zenon
    <3>2. Closing(t, f, n, e) = ParserState(h, l, f, n, e, r)
      <4> HIDE <3>1
      <4>1. Closing(ParserState(h, l, o, x, c, r), f, n, e) = ParserState(h, l, f, n, e, r)
        BY ClosingIs
      <4> QED
        BY <1>1, <4>1
    <3> QED
      BY <3>1, <3>2, Zenon
  <2> QED
    BY <2>2, <2>3, <2>4
<1>4. CallOf(x) \in ToolCalls
  <2>1. x.name \in Words /\ x.args \in Seq(STRING)
    BY <1>2
  <2>2. Legal(x.args) \in Seq(STRING)
    BY <2>1, LegalKeeps
  <2> QED
    BY <2>1, <2>2 DEF CallOf, ToolCalls
<1>5. d \in Seq(ToolCalls)
  <2>1. Append(c, CallOf(x)) \in Seq(ToolCalls)
    BY <1>2, <1>4
  <2> QED
    BY <1>2, <2>1, Zenon
<1>6. T!NoTool \in [name : Words, args : Seq(STRING)]
  <2>1. <<>> \in Seq(STRING)
    OBVIOUS
  <2> QED
    BY <2>1 DEF T!NoTool, Words
<1>7. T!Finalize(t) \in KiroStates
  <2> HIDE DEF d
  <2> QED
    BY <1>2, <1>3, <1>5, <1>6 DEF KiroStates, ParserState
<1>8. /\ T!Finalize(t).half = t.half /\ T!Finalize(t).last = t.last /\ T!Finalize(t).role = t.role
      /\ T!Finalize(t).open = FALSE /\ T!Finalize(t).tool = T!NoTool
  <2> HIDE DEF d
  <2> QED
    BY <1>1, <1>3 DEF ParserState
<1>9. T!Finalize(t).calls = d
  <2> HIDE DEF d
  <2> QED
    BY <1>3 DEF ParserState
<1>10. d = IF ~ t.open \/ t.tool.name = "" THEN t.calls ELSE Append(t.calls, CallOf(t.tool))
  BY <1>1 DEF ParserState
<1> QED
  BY <1>7, <1>8, <1>9, <1>10, Zenon

(* After it, all calls that have begun are taken.                             *)
LEMMA FinalizeCloses ==
  ASSUME NEW s \in Seq(FrameRows), NEW t \in Parsed(s)
  PROVE  T!Finalize(t).calls = T!CallsAt(s, T!Starts(s))
<1>1. t \in KiroStates /\ t.calls = T!CallsAt(s, T!Starts(s) \ Awaiting(s)) /\ (t.open <=> Awaiting(s) # {})
  BY DEF Parsed
<1>2. CASE Awaiting(s) = {}
  <2>1. T!Finalize(t).calls = t.calls
    BY <1>1, <1>2, FinalizeIs, Zenon
  <2>2. T!Starts(s) \ Awaiting(s) = T!Starts(s)
    BY <1>2
  <2> QED
    BY <1>1, <2>1, <2>2
<1>3. CASE Awaiting(s) # {}
  <2>1. PICK o : o \in Awaiting(s)
    BY <1>3
  <2> DEFINE P == T!Starts(s) \ Awaiting(s)
  <2>2. /\ o \in DOMAIN s /\ \A k \in P : k < o
        /\ T!Starts(s) = IF s[o].value = "" THEN P ELSE P \cup {o}
    BY <2>1, WaitingIsLast, Zenon
  <2>3. t.open /\ t.tool.name = s[o].value /\ t.tool.args = Raw(s, o)
    BY <1>1, <2>1 DEF Parsed
  <2>9. CallOf(t.tool) = CallMade(s, o)
    BY <2>3 DEF CallOf, CallMade
  <2>10. T!Finalize(t).calls = IF ~ t.open \/ t.tool.name = "" THEN t.calls ELSE Append(t.calls, CallOf(t.tool))
    BY <1>1, FinalizeIs, Zenon
  <2>4. T!Finalize(t).calls = IF s[o].value = "" THEN t.calls ELSE Append(t.calls, CallMade(s, o))
    BY <2>3, <2>9, <2>10, Zenon
  <2>5. P \in SUBSET DOMAIN s
    BY Zenon DEF T!Starts
  <2>6. t.calls = T!CallsAt(s, P)
    BY <1>1
  <2> HIDE DEF P
  <2>7. T!CallsAt(s, P \cup {o}) = Append(T!CallsAt(s, P), CallMade(s, o))
    BY <2>2, <2>5, CallsGrow, Zenon
  <2> QED
    BY <2>2, <2>4, <2>6, <2>7, Zenon
<1> QED
  BY <1>2, <1>3

(* Which calls begin, and which waits, after one more frame.                  *)
LEMMA WaitingGrows ==
  ASSUME NEW s \in Seq(FrameRows), NEW f \in FrameRows, NEW g, g = Append(s, f)
  PROVE  /\ T!Starts(s) \in SUBSET DOMAIN s
         /\ T!Starts(g) = IF f.kind = "start" /\ f.value # "" THEN T!Starts(s) \cup {Len(s) + 1} ELSE T!Starts(s)
         /\ Awaiting(g) = IF f.kind = "start" THEN (IF f.stop THEN {} ELSE {Len(s) + 1})
                          ELSE IF f.kind = "stop" THEN {} ELSE Awaiting(s)
<1> DEFINE n == Len(s)
           ends == f.kind \in {"start", "stop"}
<1>1. /\ n \in Nat /\ DOMAIN s = 1 .. n /\ Len(g) = n + 1 /\ DOMAIN g = 1 .. n + 1 /\ g[n + 1] = f
      /\ \A k \in DOMAIN s : g[k] = s[k]
  BY FramesGrow
<1>2. T!Starts(s) \in SUBSET DOMAIN s
  BY Zenon DEF T!Starts
<1> HIDE DEF n, ends
<1>3. \A k : k \in DOMAIN g <=> k \in DOMAIN s \/ k = n + 1
  BY <1>1
<1>4. n + 1 \notin DOMAIN s
  BY <1>1
<1>5. \A k : k \in T!Starts(g) <=> k \in T!Starts(s) \/ (k = n + 1 /\ f.kind = "start" /\ f.value # "")
  BY <1>1, <1>3, <1>4, Zenon DEF T!Starts
<1>6. T!Starts(g) = IF f.kind = "start" /\ f.value # "" THEN T!Starts(s) \cup {n + 1} ELSE T!Starts(s)
  BY <1>5, Zenon
<1>7. ASSUME NEW k \in DOMAIN s PROVE Waits(g, k) <=> Waits(s, k) /\ ~ ends
  <2>1. k \in 1 .. n /\ g[k] = s[k]
    BY <1>1
  <2>2. \A e : e \in k + 1 .. n + 1 <=> e \in k + 1 .. n \/ e = n + 1
    BY <1>1, <2>1
  <2>3. \A e \in k + 1 .. n : g[e] = s[e]
    BY <1>1, <2>1
  <2>4. Waits(g, k) <=> ~ s[k].stop /\ \A e \in k + 1 .. n + 1 : g[e].kind \notin {"start", "stop"}
    BY <1>1, <2>1 DEF Waits
  <2>5. Waits(s, k) <=> ~ s[k].stop /\ \A e \in k + 1 .. n : s[e].kind \notin {"start", "stop"}
    BY DEF Waits, n
  <2>6. (\A e \in k + 1 .. n + 1 : g[e].kind \notin {"start", "stop"})
          <=> (\A e \in k + 1 .. n : s[e].kind \notin {"start", "stop"}) /\ ~ ends
    BY <1>1, <2>2, <2>3 DEF ends
  <2> QED
    BY <2>4, <2>5, <2>6
<1>8. Waits(g, n + 1) <=> ~ f.stop
  <2>1. (n + 1) + 1 .. n + 1 = {}
    BY <1>1
  <2> QED
    BY <1>1, <2>1 DEF Waits
<1>9. \A k : k \in Awaiting(g) <=> \/ k \in Awaiting(s) /\ ~ ends
                                   \/ k = n + 1 /\ f.kind = "start" /\ ~ f.stop
  <2> SUFFICES ASSUME NEW k
               PROVE  k \in Awaiting(g) <=> \/ k \in Awaiting(s) /\ ~ ends
                                            \/ k = n + 1 /\ f.kind = "start" /\ ~ f.stop
    OBVIOUS
  <2>1. CASE k \in DOMAIN s
    <3>1. g[k] = s[k] /\ k # n + 1 /\ k \in DOMAIN g
      BY <1>1, <1>3, <1>4, <2>1
    <3> QED
      BY <1>7, <2>1, <3>1 DEF Awaiting
  <2>2. CASE k = n + 1
    <3>1. k \in DOMAIN g /\ k \notin DOMAIN s /\ g[k] = f
      BY <1>1, <1>3, <1>4, <2>2
    <3> QED
      BY <1>8, <2>2, <3>1 DEF Awaiting
  <2>3. CASE k \notin DOMAIN s /\ k # n + 1
    <3>1. k \notin DOMAIN g
      BY <1>3, <2>3
    <3> QED
      BY <2>3, <3>1 DEF Awaiting
  <2> QED
    BY <2>1, <2>2, <2>3
<1>10. Awaiting(g) = IF f.kind = "start" THEN (IF f.stop THEN {} ELSE {n + 1})
                     ELSE IF f.kind = "stop" THEN {} ELSE Awaiting(s)
  BY <1>9 DEF ends
<1> QED
  BY <1>2, <1>6, <1>10, Zenon DEF n

(* A call that has just begun has the arguments it began with.                *)
LEMMA RawBegins ==
  ASSUME NEW s \in Seq(FrameRows), NEW f \in FrameRows, NEW g, g = Append(s, f)
  PROVE  Raw(g, Len(s) + 1) = f.args
<1> DEFINE n == Len(s)
<1>1. n \in Nat /\ Len(g) = n + 1 /\ g[n + 1] = f
  BY FramesGrow
<1> HIDE DEF n
<1>2. (n + 1) + 1 .. Len(g) = {}
  BY <1>1
<1>3. T!InputsOf(g, n + 1) = {}
  BY <1>2 DEF T!InputsOf
<1>4. ArgsOf(g, <<>>) = <<>>
  BY DEF ArgsOf
<1>5. f.args \in Seq(STRING)
  BY DEF FrameRows
<1>6. Raw(g, n + 1) = f.args \o <<>>
  BY <1>1, <1>3, <1>4, OrderOfNone, FlatNothing DEF Raw
<1>7. IsSeq(f.args)
  BY <1>5 DEF IsSeq
<1> QED
  BY <1>6, <1>7, ConcatNothing DEF n

(* What a frame leaves of a parser: everything but the calls, and of the      *)
(* texts the last one.                                                        *)
IsText(t, f) == f.kind = "content" /\ f.value \notin {"", t.last}

Heeds(t, f, u) == u.half = t.half /\ u.role = t.role /\ u.last = IF IsText(t, f) THEN f.value ELSE t.last

ToolBegun(t, f) == WithTool(WithOpen(T!Finalize(t), TRUE), [name |-> f.value, args |-> f.args])
Fed(t, f) == [t EXCEPT !.tool.args = @ \o f.args]

(* Processing a frame, by its kind.                                           *)
LEMMA ProcessIs ==
  ASSUME NEW t, NEW f
  PROVE  T!KiroProcess(t, f) = CASE f.kind = "content" -> IF f.value \in {"", t.last} THEN t ELSE WithLast(t, f.value)
                                 [] f.kind = "start" -> IF f.stop THEN T!Finalize(ToolBegun(t, f)) ELSE ToolBegun(t, f)
                                 [] f.kind = "input" -> IF t.open THEN Fed(t, f) ELSE t
                                 [] f.kind = "stop"  -> T!Finalize(t)
                                 [] OTHER            -> t
BY DEF T!KiroProcess, ToolBegun, Fed, WithTool, WithOpen, WithLast

(* A call that begins has its name, its first arguments, and no others.       *)
LEMMA BegunIs ==
  ASSUME NEW t \in KiroStates, NEW f \in FrameRows
  PROVE  /\ ToolBegun(t, f) \in KiroStates
         /\ ToolBegun(t, f).half = t.half /\ ToolBegun(t, f).last = t.last /\ ToolBegun(t, f).role = t.role
         /\ ToolBegun(t, f).open = TRUE /\ ToolBegun(t, f).calls = T!Finalize(t).calls
         /\ ToolBegun(t, f).tool = [name |-> f.value, args |-> f.args]
<1>1. PICK u : u = T!Finalize(t)
  OBVIOUS
<1>2. u \in KiroStates /\ u.half = t.half /\ u.last = t.last /\ u.role = t.role
  BY <1>1, FinalizeIs, Zenon
<1>3. PICK h, l, o, x, c, r : u = ParserState(h, l, o, x, c, r)
  BY <1>2 DEF KiroStates, ParserState
<1>4. h \in Nat /\ l \in Words /\ c \in Seq(ToolCalls) /\ r \in BOOLEAN
  BY <1>2, <1>3 DEF KiroStates, ParserState
<1>5. PICK yes, tool : yes = TRUE /\ tool = [name |-> f.value, args |-> f.args]
  BY Zenon
<1>6. ToolBegun(t, f) = WithTool(WithOpen(ParserState(h, l, o, x, c, r), yes), tool)
  BY <1>1, <1>3, <1>5, Zenon DEF ToolBegun
<1>7. ToolBegun(t, f) = ParserState(h, l, yes, tool, c, r)
  <2>1. WithOpen(ParserState(h, l, o, x, c, r), yes) = ParserState(h, l, yes, x, c, r)
    BY ParserChanges
  <2>2. WithTool(ParserState(h, l, yes, x, c, r), tool) = ParserState(h, l, yes, tool, c, r)
    BY ParserChanges
  <2> QED
    BY <1>6, <2>1, <2>2
<1>8. tool \in [name : Words, args : Seq(STRING)] /\ yes \in BOOLEAN
  <2>1. f.value \in Words /\ f.args \in Seq(STRING)
    BY Zenon DEF FrameRows, Words
  <2> QED
    BY <1>5, <2>1
<1>9. ToolBegun(t, f) \in KiroStates
  BY <1>4, <1>7, <1>8 DEF KiroStates, ParserState
<1>10. h = t.half /\ l = t.last /\ r = t.role /\ c = T!Finalize(t).calls
  BY <1>1, <1>2, <1>3 DEF ParserState
<1>11. /\ ToolBegun(t, f).half = h /\ ToolBegun(t, f).last = l /\ ToolBegun(t, f).role = r
       /\ ToolBegun(t, f).open = yes /\ ToolBegun(t, f).calls = c /\ ToolBegun(t, f).tool = tool
  BY <1>7 DEF ParserState
<1> QED
  BY <1>5, <1>9, <1>10, <1>11

(* A call that is fed has the arguments it had, and those of the input.       *)
LEMMA FedIs ==
  ASSUME NEW t \in KiroStates, NEW f \in FrameRows
  PROVE  /\ Fed(t, f) \in KiroStates
         /\ Fed(t, f).half = t.half /\ Fed(t, f).last = t.last /\ Fed(t, f).role = t.role
         /\ Fed(t, f).open = t.open /\ Fed(t, f).calls = t.calls
         /\ Fed(t, f).tool.name = t.tool.name /\ Fed(t, f).tool.args = t.tool.args \o f.args
<1>1. PICK h, l, o, x, c, r : t = ParserState(h, l, o, x, c, r)
  BY DEF KiroStates, ParserState
<1>2. /\ h \in Nat /\ l \in Words /\ x \in [name : Words, args : Seq(STRING)] /\ c \in Seq(ToolCalls)
      /\ r \in BOOLEAN /\ o \in BOOLEAN
  BY <1>1 DEF KiroStates, ParserState
<1>3. PICK more : more = x.args \o f.args
  OBVIOUS
<1>4. PICK y : y = [x EXCEPT !.args = more]
  OBVIOUS
<1>5. more \in Seq(STRING)
  <2>1. x.args \in Seq(STRING) /\ f.args \in Seq(STRING)
    BY <1>2 DEF FrameRows
  <2> QED
    BY <1>3, <2>1
<1>6. y \in [name : Words, args : Seq(STRING)] /\ y.name = x.name /\ y.args = more
  BY <1>2, <1>4, <1>5
<1>7. Fed(t, f) = WithTool(t, y)
  <2>1. t.tool = x
    BY <1>1 DEF ParserState
  <2> QED
    BY <1>3, <1>4, <2>1, Zenon DEF Fed, WithTool
<1>8. Fed(t, f) = ParserState(h, l, o, y, c, r)
  BY <1>1, <1>7, ParserChanges
<1>9. Fed(t, f) \in KiroStates
  BY <1>2, <1>6, <1>8 DEF KiroStates, ParserState
<1>10. t.half = h /\ t.last = l /\ t.role = r /\ t.open = o /\ t.calls = c /\ t.tool = x
  BY <1>1 DEF ParserState
<1>11. PICK u : u = Fed(t, f)
  OBVIOUS
<1>12. u.half = h /\ u.last = l /\ u.role = r /\ u.open = o /\ u.calls = c /\ u.tool = y
  BY <1>8, <1>11 DEF ParserState
<1> QED
  BY <1>3, <1>6, <1>9, <1>10, <1>11, <1>12

(* With a frame more, the parser knows what the frames say.                   *)
LEMMA Processed ==
  ASSUME NEW s \in Seq(FrameRows), NEW t \in Parsed(s), NEW f \in FrameRows, NEW g, g = Append(s, f)
  PROVE  T!KiroProcess(t, f) \in Parsed(g) /\ Heeds(t, f, T!KiroProcess(t, f))
<1> DEFINE n == Len(s)
           P == T!Starts(s) \ Awaiting(s)
<1>1. /\ t \in KiroStates /\ t.calls = T!CallsAt(s, P) /\ (t.open <=> Awaiting(s) # {})
      /\ \A o \in Awaiting(s) : t.tool.name = s[o].value /\ t.tool.args = Raw(s, o)
  BY DEF Parsed
<1>2. /\ T!Starts(s) \in SUBSET DOMAIN s
      /\ T!Starts(g) = IF f.kind = "start" /\ f.value # "" THEN T!Starts(s) \cup {n + 1} ELSE T!Starts(s)
      /\ Awaiting(g) = IF f.kind = "start" THEN (IF f.stop THEN {} ELSE {n + 1})
                       ELSE IF f.kind = "stop" THEN {} ELSE Awaiting(s)
  BY WaitingGrows, Zenon
<1>3. n \in Nat /\ DOMAIN s = 1 .. n /\ g[n + 1] = f /\ DOMAIN g = 1 .. n + 1 /\ (\A k \in DOMAIN s : g[k] = s[k])
      /\ g \in Seq(FrameRows)
  BY FramesGrow
<1>4. P \in SUBSET DOMAIN s /\ \A k \in P : ~ Waits(s, k)
  BY <1>2, Zenon DEF Awaiting, T!Starts
<1>5. T!CallsAt(g, P) = T!CallsAt(s, P)
  BY <1>4, CallsStay
<1>6. f.kind # "input" => T!CallsAt(g, T!Starts(s)) = T!CallsAt(s, T!Starts(s))
  BY <1>2, CallsStay, Zenon
<1>7. /\ T!Finalize(t) \in KiroStates /\ T!Finalize(t).calls = T!CallsAt(s, T!Starts(s))
      /\ T!Finalize(t).half = t.half /\ T!Finalize(t).last = t.last /\ T!Finalize(t).role = t.role
      /\ T!Finalize(t).open = FALSE
  <2>1. T!Finalize(t).calls = T!CallsAt(s, T!Starts(s))
    BY FinalizeCloses
  <2> QED
    BY <1>1, <2>1, FinalizeIs, Zenon
<1> HIDE DEF n, P
<1>11. /\ n + 1 \notin T!Starts(s) /\ n + 1 \in DOMAIN g
       /\ T!Starts(s) \in SUBSET DOMAIN g
       /\ \A k \in T!Starts(s) : k < n + 1
  <2>1. T!Starts(s) \in SUBSET DOMAIN s
    BY <1>2, Zenon
  <2>2. DOMAIN s \subseteq DOMAIN g /\ n + 1 \notin DOMAIN s /\ n + 1 \in DOMAIN g /\ \A k \in DOMAIN s : k < n + 1
    BY <1>3
  <2> QED
    BY <2>1, <2>2
<1>8. CASE f.kind = "stop"
  <2>1. T!KiroProcess(t, f) = T!Finalize(t)
    BY <1>8, ProcessIs, Zenon
  <2>2. Awaiting(g) = {} /\ T!Starts(g) \ Awaiting(g) = T!Starts(s)
    BY <1>2, <1>8
  <2>3. T!Finalize(t).calls = T!CallsAt(g, T!Starts(g) \ Awaiting(g))
    BY <1>6, <1>7, <1>8, <2>2
  <2>4. T!Finalize(t) \in Parsed(g)
    BY <1>7, <2>2, <2>3 DEF Parsed
  <2> QED
    BY <1>7, <1>8, <2>1, <2>4 DEF Heeds, IsText
<1>9. CASE f.kind = "start"
  <2> DEFINE b == ToolBegun(t, f)
  <2>1. /\ b \in KiroStates
        /\ b.half = t.half /\ b.last = t.last /\ b.role = t.role
        /\ b.open = TRUE /\ b.calls = T!Finalize(t).calls
        /\ b.tool = [name |-> f.value, args |-> f.args]
    BY <1>1, BegunIs
  <2> HIDE DEF b
  <2>2. b.calls = T!CallsAt(g, T!Starts(s))
    BY <1>6, <1>7, <1>9, <2>1
  <2>3. Raw(g, n + 1) = f.args
    BY RawBegins DEF n
  <2>4. CASE ~ f.stop
    <3>1. T!KiroProcess(t, f) = b
      BY <1>9, <2>4, ProcessIs, Zenon DEF b
    <3>2. Awaiting(g) = {n + 1}
      BY <1>2, <1>9, <2>4, Zenon
    <3>3. T!Starts(g) \ Awaiting(g) = T!Starts(s)
      <4>1. T!Starts(g) = IF f.value # "" THEN T!Starts(s) \cup {n + 1} ELSE T!Starts(s)
        BY <1>2, <1>9, Zenon
      <4> QED
        BY <1>11, <3>2, <4>1, Zenon
    <3>4. b.tool.name = g[n + 1].value /\ b.tool.args = Raw(g, n + 1)
      BY <1>3, <2>1, <2>3
    <3>5. b \in Parsed(g)
      BY <2>1, <2>2, <3>2, <3>3, <3>4 DEF Parsed
    <3> QED
      BY <1>9, <2>1, <3>1, <3>5 DEF Heeds, IsText
  <2>5. CASE f.stop
    <3>1. T!KiroProcess(t, f) = T!Finalize(b)
      BY <1>9, <2>5, ProcessIs, Zenon DEF b
    <3>2. Awaiting(g) = {} /\ T!Starts(g) \ Awaiting(g) = T!Starts(g)
      BY <1>2, <1>9, <2>5, Zenon
    <3>3. CallOf(b.tool) = CallMade(g, n + 1)
      BY <1>3, <2>1, <2>3 DEF CallOf, CallMade
    <3>4. T!Finalize(b).calls = IF f.value = "" THEN b.calls ELSE Append(b.calls, CallMade(g, n + 1))
      <4>1. T!Finalize(b).calls = IF ~ b.open \/ b.tool.name = "" THEN b.calls ELSE Append(b.calls, CallOf(b.tool))
        BY <2>1, FinalizeIs, Zenon
      <4>2. b.open /\ b.tool.name = f.value
        BY <2>1
      <4> QED
        BY <3>3, <4>1, <4>2, Zenon
    <3>5. T!CallsAt(g, T!Starts(s) \cup {n + 1}) = Append(T!CallsAt(g, T!Starts(s)), CallMade(g, n + 1))
      BY <1>3, <1>11, CallsGrow
    <3>6. T!Finalize(b).calls = T!CallsAt(g, T!Starts(g) \ Awaiting(g))
      BY <1>2, <1>9, <2>2, <3>2, <3>4, <3>5, Zenon
    <3>7. /\ T!Finalize(b) \in KiroStates /\ T!Finalize(b).open = FALSE
          /\ T!Finalize(b).half = b.half /\ T!Finalize(b).last = b.last /\ T!Finalize(b).role = b.role
      BY <2>1, FinalizeIs, Zenon
    <3>8. T!Finalize(b) \in Parsed(g)
      BY <3>2, <3>6, <3>7 DEF Parsed
    <3> QED
      BY <1>9, <2>1, <3>1, <3>7, <3>8 DEF Heeds, IsText
  <2> QED
    BY <2>4, <2>5
<1>10. CASE f.kind \notin {"start", "stop"}
  <2>1. Awaiting(g) = Awaiting(s) /\ T!Starts(g) \ Awaiting(g) = P
    BY <1>2, <1>10, Zenon DEF P
  <2>2. ASSUME NEW o \in Awaiting(s)
        PROVE  /\ o \in DOMAIN s /\ g[o].value = s[o].value
               /\ Raw(g, o) = IF f.kind = "input" THEN Raw(s, o) \o f.args ELSE Raw(s, o)
    <3>1. o \in DOMAIN s /\ Waits(s, o)
      BY DEF Awaiting
    <3>2. g[o].value = s[o].value
      BY <1>3, <3>1
    <3>3. Raw(g, o) = IF f.kind = "input" /\ Waits(s, o) THEN Raw(s, o) \o f.args ELSE Raw(s, o)
      BY <1>3, <3>1, RawGrows, Zenon
    <3> QED
      BY <3>1, <3>2, <3>3
  <2>3. CASE f.kind = "input" /\ t.open
    <3> DEFINE u == Fed(t, f)
    <3>1. T!KiroProcess(t, f) = u
      BY <2>3, ProcessIs, Zenon
    <3>2. /\ u \in KiroStates
          /\ u.half = t.half /\ u.last = t.last /\ u.role = t.role
          /\ u.open = t.open /\ u.calls = t.calls
          /\ u.tool.name = t.tool.name /\ u.tool.args = t.tool.args \o f.args
      BY <1>1, FedIs
    <3> HIDE DEF u
    <3>3. ASSUME NEW o \in Awaiting(g) PROVE u.tool.name = g[o].value /\ u.tool.args = Raw(g, o)
      <4>1. o \in Awaiting(s)
        BY <2>1
      <4>2. g[o].value = s[o].value /\ Raw(g, o) = Raw(s, o) \o f.args
        BY <2>2, <2>3, <4>1, Zenon
      <4>3. t.tool.name = s[o].value /\ t.tool.args = Raw(s, o)
        BY <1>1, <4>1, Zenon
      <4>4. u.tool.name = t.tool.name /\ u.tool.args = t.tool.args \o f.args
        BY <3>2, Zenon
      <4> QED
        BY <4>2, <4>3, <4>4, Zenon
    <3>4. u \in Parsed(g)
      BY <1>1, <1>5, <2>1, <3>2, <3>3 DEF Parsed
    <3> QED
      BY <2>3, <3>1, <3>2, <3>4 DEF Heeds, IsText
  <2>4. CASE ~ (f.kind = "input" /\ t.open)
    <3>1. \A o \in Awaiting(g) : t.tool.name = g[o].value /\ t.tool.args = Raw(g, o)
      BY <1>1, <2>1, <2>2, <2>4
    <3>2. t \in Parsed(g)
      BY <1>1, <1>5, <2>1, <3>1 DEF Parsed
    <3>3. CASE IsText(t, f)
      <4> DEFINE u == WithLast(t, f.value)
      <4>1. T!KiroProcess(t, f) = u
        BY <3>3, ProcessIs, Zenon DEF IsText
      <4>2. PICK h, l, o, x, c, r : t = ParserState(h, l, o, x, c, r)
        BY <1>1 DEF KiroStates, ParserState
      <4>3. u = ParserState(h, f.value, o, x, c, r)
        BY <4>2, ParserChanges
      <4> HIDE DEF u
      <4>4. /\ t.half = h /\ t.last = l /\ t.open = o /\ t.tool = x /\ t.calls = c /\ t.role = r
            /\ u.half = h /\ u.last = f.value /\ u.open = o /\ u.tool = x /\ u.calls = c /\ u.role = r
        BY <4>2, <4>3 DEF ParserState
      <4>5. u \in KiroStates
        <5>1. f.value \in Words
          BY Zenon DEF FrameRows, Words
        <5> QED
          BY <1>1, <4>2, <4>3, <5>1 DEF KiroStates, ParserState
      <4>6. u \in Parsed(g)
        BY <3>2, <4>4, <4>5 DEF Parsed
      <4> QED
        BY <3>3, <4>1, <4>4, <4>6 DEF Heeds
    <3>4. CASE ~ IsText(t, f)
      <4>1. T!KiroProcess(t, f) = t
        BY <1>10, <2>4, <3>4, ProcessIs, Zenon DEF IsText
      <4> QED
        BY <3>2, <3>4, <4>1 DEF Heeds
    <3> QED
      BY <3>3, <3>4
  <2> QED
    BY <2>3, <2>4
<1> QED
  BY <1>8, <1>9, <1>10

(* The texts of a Kiro answer, one by one.                                    *)
Said == STRING \ {""}
LastText(texts) == IF texts = <<>> THEN "" ELSE T!Last(texts)
TextsOf(values) ==
  T!FoldLeft(LAMBDA texts, x : IF x = "" \/ (texts # <<>> /\ T!Last(texts) = x) THEN texts ELSE Append(texts, x),
             <<>>, values)

(* The texts without repetition are a fold.                                   *)
LEMMA TextsFold ==
  ASSUME NEW s, IsSeq(s)
  PROVE  TextsOf(s) = Folded("texts", NoRoute, <<>>, s, Len(s))
<1> DEFINE Going(it) == [t \in SUBSET DOMAIN s |->
                    IF t = {} THEN <<>>
                    ELSE LET x == T!Max(t)
                         IN  IF s[x] = "" \/ (it[t \ {x}] # <<>> /\ T!Last(it[t \ {x}]) = s[x]) THEN it[t \ {x}]
                             ELSE Append(it[t \ {x}], s[x])]
           It == CHOOSE it : it = Going(it)
<1>1. TextsOf(s) = It[DOMAIN s]
  BY DEF TextsOf, T!FoldLeft, T!MapThenFoldSet
<1>2. DOMAIN s = 1 .. Len(s) /\ Len(s) \in Nat
  BY SeqDomain
<1>3. ASSUME NEW it PROVE Going(it) = Folding("texts", NoRoute, <<>>, s, Len(s), it)
  BY <1>2, SameMax, Zenon DEF Folding, Step
<1> HIDE DEF Going
<1>4. \E it : it = Going(it)
  BY <1>2, <1>3, FoldingExists DEF IsFold
<1>5. IsFold("texts", NoRoute, <<>>, s, Len(s), It)
  BY <1>3, <1>4 DEF IsFold
<1> HIDE DEF It
<1> QED
  BY <1>1, <1>2, <1>5, FoldChosen

(* A text is dropped if it is empty or the last one again.                    *)
LEMMA LastOfTexts ==
  ASSUME NEW texts \in Seq(Said)
  PROVE  /\ LastText(texts) \in Words
         /\ \A x \in Said : LastText(Append(texts, x)) = x /\ Append(texts, x) # <<>> /\ Append(texts, x) \in Seq(Said)
         /\ \A x : (x = "" \/ (texts # <<>> /\ T!Last(texts) = x)) <=> x \in {"", LastText(texts)}
<1>1. ASSUME NEW x \in Said PROVE LastText(Append(texts, x)) = x /\ Append(texts, x) # <<>> /\ Append(texts, x) \in Seq(Said)
  <2> DEFINE g == Append(texts, x)
  <2>1. IsSeq(texts)
    BY DEF IsSeq
  <2>2. Len(g) = Len(texts) + 1 /\ g[Len(texts) + 1] = x
    BY <2>1, SeqGrows
  <2>3. g # <<>> /\ g \in Seq(Said)
    BY AppendProperties
  <2> HIDE DEF g
  <2>4. T!Last(g) = x
    BY <2>2 DEF T!Last
  <2> QED
    BY <2>3, <2>4, Zenon DEF LastText, g
<1>2. LastText(texts) \in Words
  <2>1. CASE texts = <<>>
    BY <2>1 DEF LastText, Words
  <2>2. CASE texts # <<>>
    <3>1. Len(texts) \in DOMAIN texts
      BY <2>2
    <3>2. texts[Len(texts)] \in Said
      BY <3>1
    <3> QED
      BY <2>2, <3>2, Zenon DEF LastText, Words, T!Last, Said
  <2> QED
    BY <2>1, <2>2
<1>3. ASSUME NEW x PROVE (x = "" \/ (texts # <<>> /\ T!Last(texts) = x)) <=> x \in {"", LastText(texts)}
  BY Zenon DEF LastText
<1> QED
  BY <1>1, <1>2, <1>3, Zenon



(* The texts are texts, none of them empty.                                   *)
LEMMA TextsAreSeq ==
  ASSUME NEW v \in Seq(STRING)
  PROVE  TextsOf(v) \in Seq(Said)
<1>1. IsSeq(v) /\ Len(v) \in Nat
  BY DEF IsSeq
<1> DEFINE P == [n \in Nat |-> Seq(Said)]
           o == TextsOf(v)
<1>2. ASSUME NEW y \in Seq(Said), NEW z \in STRING
      PROVE  Step("texts", NoRoute, y, z) = (IF z \in {"", LastText(y)} THEN y ELSE Append(y, z))
             /\ Step("texts", NoRoute, y, z) \in Seq(Said)
  <2>1. (z = "" \/ (y # <<>> /\ T!Last(y) = z)) <=> z \in {"", LastText(y)}
    BY LastOfTexts, Zenon
  <2>2. Step("texts", NoRoute, y, z) = (IF z \in {"", LastText(y)} THEN y ELSE Append(y, z))
    BY <2>1, Zenon DEF Step
  <2>3. z \notin {"", LastText(y)} => z \in Said
    BY Zenon DEF Said
  <2>4. z \notin {"", LastText(y)} => Append(y, z) \in Seq(Said)
    BY <2>3, AppendProperties
  <2>5. (IF z \in {"", LastText(y)} THEN y ELSE Append(y, z)) \in Seq(Said)
    BY <2>4, Zenon
  <2> QED
    BY <2>2, <2>5, Zenon
<1>3. <<>> \in P[0]
  OBVIOUS
<1>4. ASSUME NEW n \in 0 .. Len(v) - 1, NEW y \in P[n] PROVE Step("texts", NoRoute, y, v[n + 1]) \in P[n + 1]
  <2>1. n \in Nat /\ n + 1 \in Nat /\ n + 1 \in DOMAIN v
    BY <1>1
  <2>2. y \in Seq(Said) /\ v[n + 1] \in STRING
    BY <2>1
  <2>3. Step("texts", NoRoute, y, v[n + 1]) \in Seq(Said)
    BY <1>2, <2>2, Zenon
  <2> QED
    BY <2>1, <2>3
<1> HIDE DEF P
<1>5. Folded("texts", NoRoute, <<>>, v, Len(v)) \in P[Len(v)]
  BY <1>1, <1>3, <1>4, FoldKeeps
<1>6. o \in Seq(Said)
  BY <1>1, <1>5, TextsFold DEF P
<1> QED
  BY <1>6

(* One text more is told unless it is dropped.                                *)
LEMMA TextsGoOn ==
  ASSUME NEW v \in Seq(STRING), NEW x \in STRING
  PROVE  /\ TextsOf(v) \in Seq(Said)
         /\ TextsOf(Append(v, x)) = IF x \in {"", LastText(TextsOf(v))} THEN TextsOf(v) ELSE Append(TextsOf(v), x)
<1>1. IsSeq(v) /\ Len(v) \in Nat
  BY DEF IsSeq
<1> DEFINE o == TextsOf(v)
<1>2. ASSUME NEW y \in Seq(Said), NEW z \in STRING
      PROVE  Step("texts", NoRoute, y, z) = (IF z \in {"", LastText(y)} THEN y ELSE Append(y, z))
             /\ Step("texts", NoRoute, y, z) \in Seq(Said)
  <2>1. (z = "" \/ (y # <<>> /\ T!Last(y) = z)) <=> z \in {"", LastText(y)}
    BY LastOfTexts, Zenon
  <2>2. Step("texts", NoRoute, y, z) = (IF z \in {"", LastText(y)} THEN y ELSE Append(y, z))
    BY <2>1, Zenon DEF Step
  <2>3. z \notin {"", LastText(y)} => z \in Said
    BY Zenon DEF Said
  <2>4. z \notin {"", LastText(y)} => Append(y, z) \in Seq(Said)
    BY <2>3, AppendProperties
  <2>5. (IF z \in {"", LastText(y)} THEN y ELSE Append(y, z)) \in Seq(Said)
    BY <2>4, Zenon
  <2> QED
    BY <2>2, <2>5, Zenon
<1>6. o \in Seq(Said)
  BY TextsAreSeq
<1>7. TextsOf(Append(v, x)) = Step("texts", NoRoute, o, x)
  <2>1. IsSeq(Append(v, x)) /\ Len(Append(v, x)) = Len(v) + 1
    BY <1>1, SeqGrows
  <2>2. Folded("texts", NoRoute, <<>>, Append(v, x), Len(v) + 1) = Step("texts", NoRoute, Folded("texts", NoRoute, <<>>, v, Len(v)), x)
    BY <1>1, FoldAppends
  <2> QED
    BY <1>1, <2>1, <2>2, TextsFold
<1> HIDE DEF o
<1>8. TextsOf(Append(v, x)) = IF x \in {"", LastText(o)} THEN o ELSE Append(o, x)
  BY <1>2, <1>6, <1>7, Zenon
<1> QED
  BY <1>6, <1>8, Zenon DEF o

TextChunk(k, x) == [index |-> 0, role |-> k = 1, delta |-> T!Delta("content", x, 0), finish |-> ""]
TextChunks(texts) == [k \in DOMAIN texts |-> TextChunk(k, texts[k])]

TextChunkOf(k, x) ==
  {c \in ChunkRows : /\ c.index = 0 /\ (c.role <=> k = 1) /\ c.finish = ""
                     /\ c.delta.kind = "content" /\ c.delta.value = x}

(* The chunk of a text has it, and the role if it is the first.               *)
LEMMA TextChunkIs ==
  ASSUME NEW k, NEW x \in Said
  PROVE  TextChunk(k, x) \in TextChunkOf(k, x)
<1>1. PICK d : d = T!Delta("content", x, 0)
  OBVIOUS
<1>2. d = [kind |-> "content", value |-> x, n |-> 0]
  BY <1>1 DEF T!Delta
<1>3. x \in Words \cup ToolCalls /\ 0 \in Nat
  BY Zenon DEF Said, Words
<1>4. d \in DeltaRows
  BY <1>2, <1>3 DEF DeltaRows
<1>5. PICK r : r = (k = 1)
  BY Zenon
<1>6. r \in BOOLEAN
  BY <1>5
<1>7. PICK c : c = [index |-> 0, role |-> r, delta |-> d, finish |-> ""]
  BY Zenon
<1>8. TextChunk(k, x) = c
  BY <1>1, <1>5, <1>7, Zenon DEF TextChunk
<1>9. 0 \in T!Indexes /\ "" \in Finishes
  BY DEF T!Indexes, Finishes
<1>10. c \in ChunkRows
  BY <1>4, <1>6, <1>7, <1>9, Zenon DEF ChunkRows
<1>11. c.index = 0 /\ c.role = r /\ c.finish = "" /\ c.delta = d
  BY <1>7, Zenon
<1>12. d.kind = "content" /\ d.value = x
  BY <1>2
<1>13. (c.role <=> k = 1)
  BY <1>5, <1>11, Zenon
<1> QED
  BY <1>8, <1>10, <1>11, <1>12, <1>13, Zenon DEF TextChunkOf

(* One text more has a chunk more.                                            *)
LEMMA TextChunksGrow ==
  ASSUME NEW texts \in Seq(Said)
  PROVE  /\ TextChunks(texts) \in Seq(ChunkRows) /\ Len(TextChunks(texts)) = Len(texts)
         /\ \A x \in Said : TextChunks(Append(texts, x)) = Append(TextChunks(texts), TextChunk(Len(texts) + 1, x))
<1>1. Len(texts) \in Nat /\ DOMAIN texts = 1 .. Len(texts) /\ \A k \in DOMAIN texts : texts[k] \in Said
  OBVIOUS
<1>2. ASSUME NEW y \in Seq(Said) PROVE TextChunks(y) \in Seq(ChunkRows) /\ Len(TextChunks(y)) = Len(y)
  <2>1. Len(y) \in Nat /\ DOMAIN y = 1 .. Len(y) /\ \A k \in DOMAIN y : y[k] \in Said
    OBVIOUS
  <2>2. \A k \in DOMAIN y : TextChunk(k, y[k]) \in ChunkRows
    BY <2>1, TextChunkIs, Zenon DEF TextChunkOf
  <2> QED
    BY <2>1, <2>2 DEF TextChunks
<1>3. ASSUME NEW x \in Said PROVE TextChunks(Append(texts, x)) = Append(TextChunks(texts), TextChunk(Len(texts) + 1, x))
  <2> DEFINE g == Append(texts, x)
             n == Len(texts)
             a == TextChunks(texts)
             b == TextChunks(g)
             c == TextChunk(n + 1, x)
  <2>1. IsSeq(texts)
    BY DEF IsSeq
  <2>2. Len(g) = n + 1 /\ DOMAIN g = 1 .. n + 1 /\ g[n + 1] = x /\ \A k \in DOMAIN texts : g[k] = texts[k]
    BY <2>1, SeqGrows
  <2>3. g \in Seq(Said)
    BY AppendProperties
  <2>4. b \in Seq(ChunkRows) /\ Len(b) = n + 1 /\ a \in Seq(ChunkRows) /\ Len(a) = n
    BY <1>2, <2>2, <2>3
  <2>5. c \in ChunkRows
    BY TextChunkIs, Zenon DEF TextChunkOf
  <2>6. n + 1 \in DOMAIN g
    BY <1>1, <2>2
  <2>7. b[n + 1] = c
    BY <2>2, <2>6 DEF TextChunks
  <2>8. \A k \in 1 .. n : b[k] = a[k]
    <3> SUFFICES ASSUME NEW k \in 1 .. n PROVE b[k] = a[k]
      OBVIOUS
    <3>1. k \in DOMAIN texts /\ k \in DOMAIN g /\ g[k] = texts[k]
      BY <1>1, <2>2
    <3> QED
      BY <3>1 DEF TextChunks
  <2> HIDE DEF a, b, c, n
  <2>9. n \in Nat
    BY <1>1 DEF n
  <2>10. b = Append(a, c)
    BY <2>4, <2>5, <2>7, <2>8, <2>9
  <2> QED
    BY <2>10 DEF a, b, c, n
<1> QED
  BY <1>2, <1>3

(* The texts of frames are texts.                                             *)
LEMMA TextsAreSaid ==
  ASSUME NEW s \in Seq(FrameRows)
  PROVE  T!Values(T!Pick(s, "content")) \in Seq(STRING) /\ T!KiroTexts(s) \in Seq(Said)
<1> DEFINE p == T!Pick(s, "content")
           v == T!Values(p)
<1>1. p \in Seq({x \in FrameRows : x.kind = "content"})
  BY HavingKeeps DEF T!Pick
<1>2. v \in Seq(STRING)
  <2> HIDE DEF p
  <2>1. Len(p) \in Nat /\ DOMAIN p = 1 .. Len(p) /\ \A k \in DOMAIN p : p[k] \in FrameRows
    BY <1>1
  <2>2. \A k \in DOMAIN p : p[k].value \in STRING
    BY <2>1 DEF FrameRows
  <2> QED
    BY <2>1, <2>2 DEF T!Values
<1>3. T!KiroTexts(s) = TextsOf(v)
  BY Zenon DEF T!KiroTexts, TextsOf
<1> HIDE DEF p, v
<1>4. TextsOf(v) \in Seq(Said)
  BY <1>2, TextsAreSeq
<1> QED
  BY <1>2, <1>3, <1>4 DEF v, p

(* The texts of frames, with one frame more.                                  *)
LEMMA ContentsGrow ==
  ASSUME NEW s \in Seq(FrameRows), NEW f \in FrameRows
  PROVE  /\ T!KiroTexts(s) \in Seq(Said)
         /\ T!KiroTexts(Append(s, f))
              = IF f.kind = "content" /\ f.value \notin {"", LastText(T!KiroTexts(s))} THEN Append(T!KiroTexts(s), f.value)
                ELSE T!KiroTexts(s)
<1> DEFINE p == T!Pick(s, "content")
           v == T!Values(p)
           g == Append(s, f)
<1>1. IsSeq(s) /\ f.value \in STRING
  BY DEF IsSeq, FrameRows
<1>2. p \in Seq({x \in FrameRows : x.kind = "content"})
  BY HavingKeeps DEF T!Pick
<1>3. v \in Seq(STRING)
  BY TextsAreSaid
<1>4. T!Pick(g, "content") = IF f.kind = "content" THEN Append(p, f) ELSE p
  BY <1>1, HavingOneMore DEF T!Pick
<1>5. IsSeq(p)
  BY <1>2 DEF IsSeq
<1>6. T!Values(Append(p, f)) = Append(v, f.value)
  <2> HIDE DEF p
  <2> QED
    BY <1>5, CarriedOneMore
<1>7. T!KiroTexts(s) = TextsOf(v)
  BY Zenon DEF T!KiroTexts, TextsOf
<1>8. T!KiroTexts(g) = TextsOf(T!Values(T!Pick(g, "content")))
  BY Zenon DEF T!KiroTexts, TextsOf
<1> HIDE DEF p, v, g
<1>9. T!KiroTexts(g) = IF f.kind = "content" THEN TextsOf(Append(v, f.value)) ELSE TextsOf(v)
  BY <1>4, <1>6, <1>8 DEF v
<1>10. /\ TextsOf(v) \in Seq(Said)
       /\ TextsOf(Append(v, f.value)) = IF f.value \in {"", LastText(TextsOf(v))} THEN TextsOf(v) ELSE Append(TextsOf(v), f.value)
  BY <1>1, <1>3, TextsGoOn, Zenon
<1> QED
  BY <1>7, <1>9, <1>10, Zenon DEF g

(* What a parser knows, and what has been written, after the frames s.        *)
KiroTellings(s, h) ==
  {r \in [t : KiroStates, out : Seq(ChunkRows)] :
     /\ r.t \in Parsed(s) /\ r.t.half = h
     /\ r.t.last = LastText(T!KiroTexts(s))
     /\ r.t.role <=> T!KiroTexts(s) # <<>>
     /\ r.out = TextChunks(T!KiroTexts(s))}

(* A parser that notes that the role is out knows the same of the frames.     *)
LEMMA RoleIs ==
  ASSUME NEW s, NEW t \in Parsed(s), NEW e \in BOOLEAN, NEW u, u = WithRole(t, e)
  PROVE  u \in Parsed(s) /\ u.half = t.half /\ u.last = t.last /\ u.role = e
<1>1. t \in KiroStates
  BY DEF Parsed
<1>2. PICK h, l, o, x, c, r : t = ParserState(h, l, o, x, c, r)
  BY <1>1 DEF KiroStates, ParserState
<1>3. u = ParserState(h, l, o, x, c, e)
  BY <1>2, ParserChanges
<1>4. /\ h \in Nat /\ l \in Words /\ x \in [name : Words, args : Seq(STRING)] /\ c \in Seq(ToolCalls)
      /\ o \in BOOLEAN
  BY <1>1, <1>2 DEF KiroStates, ParserState
<1>5. u \in KiroStates
  BY <1>3, <1>4 DEF KiroStates, ParserState
<1>6. /\ t.half = h /\ t.last = l /\ t.open = o /\ t.tool = x /\ t.calls = c
      /\ u.half = h /\ u.last = l /\ u.open = o /\ u.tool = x /\ u.calls = c /\ u.role = e
  BY <1>2, <1>3 DEF ParserState
<1>7. u \in Parsed(s)
  BY <1>5, <1>6 DEF Parsed
<1> QED
  BY <1>6, <1>7

FirstText(t, x) == [index |-> 0, role |-> ~ t.role, delta |-> T!Delta("content", x, 0), finish |-> ""]

(* What a frame does to the parser and to the stream.                         *)
LEMMA FrameIs ==
  ASSUME NEW r, NEW f
  PROVE  T!KiroFrame(r, f)
           = [t   |-> WithRole(T!KiroProcess(r.t, f), T!KiroProcess(r.t, f).role \/ IsText(r.t, f)),
              out |-> IF ~ IsText(r.t, f) THEN r.out ELSE Append(r.out, FirstText(r.t, f.value))]
BY DEF T!KiroFrame, WithRole, IsText, FirstText

(* What has been told of the frames so far, with one frame more.              *)
LEMMA FrameKeeps ==
  ASSUME NEW s \in Seq(FrameRows), NEW h, NEW r \in KiroTellings(s, h), NEW f \in FrameRows
  PROVE  T!KiroFrame(r, f) \in KiroTellings(Append(s, f), h)
<1> DEFINE texts == T!KiroTexts(s)
<1>1. PICK g : g = Append(s, f)
  OBVIOUS
<1>2. PICK p : p = T!KiroProcess(r.t, f)
  OBVIOUS
<1>3. /\ r.t \in Parsed(s) /\ r.t.half = h /\ r.t.last = LastText(texts) /\ (r.t.role <=> texts # <<>>)
      /\ r.out = TextChunks(texts) /\ r.t.role \in BOOLEAN
  BY DEF KiroTellings, KiroStates
<1>4. p \in Parsed(g) /\ Heeds(r.t, f, p)
  BY <1>1, <1>2, <1>3, Processed
<1>5. /\ texts \in Seq(Said)
      /\ T!KiroTexts(g) = IF f.kind = "content" /\ f.value \notin {"", LastText(texts)} THEN Append(texts, f.value) ELSE texts
  BY <1>1, ContentsGrow, Zenon
<1> HIDE DEF texts
<1>6. PICK e \in BOOLEAN : e = (p.role \/ IsText(r.t, f))
  <2>1. (p.role \/ IsText(r.t, f)) \in BOOLEAN
    BY Zenon
  <2> QED
    BY <2>1
<1>7. PICK u : u = WithRole(p, e)
  OBVIOUS
<1>8. u \in Parsed(g) /\ u.half = p.half /\ u.last = p.last /\ u.role = e
  BY <1>4, <1>7, RoleIs
<1>9. PICK out_ : out_ = IF ~ IsText(r.t, f) THEN r.out ELSE Append(r.out, FirstText(r.t, f.value))
  OBVIOUS
<1>10. T!KiroFrame(r, f) = [t |-> u, out |-> out_]
  BY <1>2, <1>6, <1>7, <1>9, FrameIs, Zenon
<1>11. p.half = h /\ p.role = r.t.role /\ p.last = IF IsText(r.t, f) THEN f.value ELSE r.t.last
  BY <1>3, <1>4 DEF Heeds
<1>12. u.last = LastText(T!KiroTexts(g)) /\ (u.role <=> T!KiroTexts(g) # <<>>) /\ out_ = TextChunks(T!KiroTexts(g))
  <2>1. CASE IsText(r.t, f)
    <3>1. f.value \in Said /\ T!KiroTexts(g) = Append(texts, f.value)
      <4>1. f.kind = "content" /\ f.value \notin {"", LastText(texts)}
        BY <1>3, <2>1, Zenon DEF IsText
      <4>2. f.value \in STRING
        BY DEF FrameRows
      <4> QED
        BY <1>5, <4>1, <4>2, Zenon DEF Said
    <3>2. LastText(T!KiroTexts(g)) = f.value /\ T!KiroTexts(g) # <<>>
      <4>1. texts \in Seq(Said)
        BY <1>5, Zenon
      <4>2. LastText(Append(texts, f.value)) = f.value /\ Append(texts, f.value) # <<>>
        BY <3>1, <4>1, LastOfTexts, Zenon
      <4> QED
        BY <3>1, <4>2
    <3>3. FirstText(r.t, f.value) = TextChunk(Len(texts) + 1, f.value)
      <4>0. texts \in Seq(Said)
        BY <1>5, Zenon
      <4>1. (Len(texts) + 1 = 1) <=> texts = <<>>
        <5>1. Len(texts) \in Nat /\ (Len(texts) = 0 <=> texts = <<>>)
          BY <4>0, EmptySeq
        <5> QED
          BY <5>1
      <4>2. (~ r.t.role) = (Len(texts) + 1 = 1)
        BY <1>3, <4>1
      <4> QED
        BY <4>2, Zenon DEF FirstText, TextChunk
    <3>4. TextChunks(T!KiroTexts(g)) = Append(TextChunks(texts), TextChunk(Len(texts) + 1, f.value))
      BY <1>5, <3>1, TextChunksGrow, Zenon
    <3>5. u.role = TRUE
      BY <1>6, <1>8, <2>1, Zenon
    <3> QED
      BY <1>3, <1>8, <1>9, <1>11, <2>1, <3>2, <3>3, <3>4, <3>5
  <2>2. CASE ~ IsText(r.t, f)
    <3>1. T!KiroTexts(g) = texts
      BY <1>3, <1>5, <2>2, Zenon DEF IsText
    <3>2. u.role = r.t.role
      BY <1>3, <1>6, <1>8, <1>11, <2>2
    <3> QED
      BY <1>3, <1>8, <1>9, <1>11, <2>2, <3>1, <3>2
  <2> QED
    BY <2>1, <2>2
<1>13. T!KiroTexts(g) \in Seq(Said)
  <2>1. f.kind = "content" /\ f.value \notin {"", LastText(texts)} => f.value \in Said
    BY Zenon DEF FrameRows, Said
  <2> QED
    <3>1. CASE f.kind = "content" /\ f.value \notin {"", LastText(texts)}
      <4>1. texts \in Seq(Said) /\ f.value \in Said /\ T!KiroTexts(g) = Append(texts, f.value)
        BY <1>5, <2>1, <3>1, Zenon
      <4> QED
        BY <4>1, AppendProperties
    <3>2. CASE ~ (f.kind = "content" /\ f.value \notin {"", LastText(texts)})
      BY <1>5, <3>2, Zenon
    <3> QED
      BY <3>1, <3>2, Zenon
<1>14. out_ \in Seq(ChunkRows)
  BY <1>12, <1>13, TextChunksGrow
<1>15. u \in KiroStates
  BY <1>8 DEF Parsed
<1>16. PICK q : q = [t |-> u, out |-> out_]
  OBVIOUS
<1>17. q \in [t : KiroStates, out : Seq(ChunkRows)] /\ q.t = u /\ q.out = out_
  BY <1>14, <1>15, <1>16
<1>18. q \in KiroTellings(g, h)
  BY <1>8, <1>11, <1>12, <1>17 DEF KiroTellings
<1> QED
  BY <1>1, <1>10, <1>16, <1>18

PutFrames(r, fs) == T!FoldLeft(T!KiroFrame, r, fs)

(* Putting all frames of a chunk is a fold.                                   *)
LEMMA FramesFold ==
  ASSUME NEW r, NEW s, IsSeq(s)
  PROVE  PutFrames(r, s) = Folded("frames", NoRoute, r, s, Len(s))
<1> DEFINE Going(it) == [t \in SUBSET DOMAIN s |->
                    IF t = {} THEN r
                    ELSE LET x == T!Max(t) IN T!KiroFrame(it[t \ {x}], s[x])]
           It == CHOOSE it : it = Going(it)
<1>1. PutFrames(r, s) = It[DOMAIN s]
  BY DEF PutFrames, T!FoldLeft, T!MapThenFoldSet
<1>2. DOMAIN s = 1 .. Len(s) /\ Len(s) \in Nat
  BY SeqDomain
<1>3. ASSUME NEW it PROVE Going(it) = Folding("frames", NoRoute, r, s, Len(s), it)
  BY <1>2, SameMax DEF Folding, Step
<1> HIDE DEF Going
<1>4. \E it : it = Going(it)
  BY <1>2, <1>3, FoldingExists DEF IsFold
<1>5. IsFold("frames", NoRoute, r, s, Len(s), It)
  BY <1>3, <1>4 DEF IsFold
<1> HIDE DEF It
<1> QED
  BY <1>1, <1>2, <1>5, FoldChosen

(* All frames of a chunk are told after those before it.                      *)
LEMMA FramesKeep ==
  ASSUME NEW s \in Seq(FrameRows), NEW h, NEW r \in KiroTellings(s, h), NEW fs \in Seq(FrameRows)
  PROVE  PutFrames(r, fs) \in KiroTellings(s \o fs, h)
<1> DEFINE E(n) == SubSeq(fs, 1, n)
           P == [n \in Nat |-> KiroTellings(s \o E(n), h)]
<1>1. /\ E(0) = <<>> /\ E(Len(fs)) = fs /\ Len(fs) \in Nat
      /\ \A n \in 0 .. Len(fs) - 1 :
            /\ E(n) \in Seq(FrameRows) /\ fs[n + 1] \in FrameRows
            /\ E(n + 1) = Append(E(n), fs[n + 1])
  BY Beginnings
<1>5. IsSeq(fs) /\ IsSeq(s)
  BY DEF IsSeq
<1> HIDE DEF E
<1>2. r \in P[0]
  BY <1>1, <1>5, ConcatNothing
<1>3. ASSUME NEW n \in 0 .. Len(fs) - 1, NEW y \in P[n]
      PROVE  Step("frames", NoRoute, y, fs[n + 1]) \in P[n + 1]
  <2>0. n \in Nat /\ n + 1 \in Nat
    BY <1>1
  <2> DEFINE g == E(n)
             c == fs[n + 1]
             z == s \o g
  <2>1. y \in KiroTellings(z, h)
    BY <2>0
  <2>2. g \in Seq(FrameRows) /\ c \in FrameRows /\ E(n + 1) = Append(g, c)
    BY <1>1
  <2> HIDE DEF g, c
  <2>3. IsSeq(g)
    BY <2>2 DEF IsSeq
  <2>4. s \o Append(g, c) = Append(z, c)
    BY <1>5, <2>3, ConcatOneMore
  <2>5. z \in Seq(FrameRows)
    BY <2>2, ConcatProperties
  <2> HIDE DEF z
  <2>6. T!KiroFrame(y, c) \in KiroTellings(Append(z, c), h)
    BY <2>1, <2>2, <2>5, FrameKeeps
  <2>7. T!KiroFrame(y, fs[n + 1]) \in KiroTellings(s \o E(n + 1), h)
    BY <2>2, <2>4, <2>6 DEF c
  <2> QED
    BY <2>0, <2>7 DEF Step
<1> HIDE DEF P
<1>4. Folded("frames", NoRoute, r, fs, Len(fs)) \in P[Len(fs)]
  BY <1>1, <1>2, <1>3, FoldKeeps
<1>6. PutFrames(r, fs) \in P[Len(fs)]
  BY <1>4, <1>5, FramesFold
<1> QED
  BY <1>1, <1>6 DEF P

(* While a Kiro answer arrives: the frames that are complete have been        *)
(* processed when they were last looked for.                                  *)
KiroTold ==
  /\ input \in Seq(FrameRows) /\ halves \in Nat
  /\ halves \in {2 * Len(input) - 1, 2 * Len(input)}
  /\ st.half \in 0 .. halves
  /\ [t |-> st, out |-> chunks] \in KiroTellings(SubSeq(input, 1, st.half \div 2), st.half)

(* Nothing has come and nothing has been told.                                *)
LEMMA KiroBegins ==
  ASSUME dialect = "kiro", T!Init
  PROVE  KiroTold
<1>1. input = <<>> /\ halves = 0 /\ chunks = <<>> /\ st = T!KiroStart
  BY DEF T!Init
<1>2. PICK e : e = <<>>
  OBVIOUS
<1>3. e \in Seq(FrameRows) /\ e \in Seq(ToolCalls) /\ e \in Seq(ChunkRows) /\ e \in Seq(STRING) /\ Len(e) = 0
      /\ e \in Seq(Said) /\ DOMAIN e = {}
  BY <1>2
<1>4. PICK u : u = T!KiroStart
  OBVIOUS
<1>5. u \in KiroStates /\ u.half = 0 /\ u.last = "" /\ u.open = FALSE /\ u.calls = e /\ u.role = FALSE
  <2>1. PICK tool : tool = T!NoTool
    OBVIOUS
  <2>2. tool \in [name : Words, args : Seq(STRING)]
    BY <1>2, <1>3, <2>1, Zenon DEF T!NoTool, Words
  <2>3. "" \in Words
    BY DEF Words
  <2>4. u = ParserState(0, "", FALSE, tool, e, FALSE)
    BY <1>2, <1>4, <2>1, Zenon DEF T!KiroStart, ParserState
  <2> QED
    BY <1>3, <2>2, <2>3, <2>4, Zenon DEF ParserState, KiroStates
<1>6. T!Starts(e) = {} /\ Awaiting(e) = {}
  BY <1>3 DEF T!Starts, Awaiting
<1>7. T!CallsAt(e, {}) = e
  <2>1. T!CallsAt(e, {}) = [n \in DOMAIN e |-> CallMade(e, e[n])]
    BY <1>2, OrderOfNone, CallsAre
  <2> QED
    BY <1>2, <2>1
<1>8. u \in Parsed(e)
  BY <1>5, <1>6, <1>7, Zenon DEF Parsed
<1>9. T!KiroTexts(e) = e
  <2>1. T!Values(<<>>) = <<>>
    BY DEF T!Values
  <2>2. T!KiroTexts(e) = TextsOf(<<>>)
    BY <1>2, <2>1, HavingNothing, Zenon DEF T!KiroTexts, T!Pick, TextsOf
  <2>3. IsSeq(<<>>) /\ Len(<<>>) = 0
    BY <1>2, <1>3 DEF IsSeq
  <2>4. TextsOf(<<>>) = Folded("texts", NoRoute, <<>>, <<>>, 0)
    BY <2>3, TextsFold
  <2> QED
    BY <1>2, <2>2, <2>4, FoldGoesOn DEF GoesOn
<1>10. TextChunks(e) = e /\ LastText(e) = ""
  BY <1>2 DEF TextChunks, LastText
<1>11. PICK q : q = [t |-> u, out |-> e]
  OBVIOUS
<1>12. q \in [t : KiroStates, out : Seq(ChunkRows)] /\ q.t = u /\ q.out = e
  BY <1>3, <1>5, <1>11, Zenon
<1>13. (u.role <=> T!KiroTexts(e) # <<>>)
  BY <1>2, <1>5, <1>9, Zenon
<1>14. q \in KiroTellings(e, 0)
  BY <1>5, <1>8, <1>9, <1>10, <1>12, <1>13, Zenon DEF KiroTellings
<1>15. SubSeq(input, 1, st.half \div 2) = e
  <2>3. st.half = 0
    BY <1>1, <1>4, <1>5, Zenon
  <2>4. 0 \div 2 = 0
    OBVIOUS
  <2>1. st.half \div 2 = 0
    BY <2>3, <2>4
  <2>2. SubSeq(e, 1, 0) = <<>>
    BY <1>3, Beginnings
  <2> QED
    BY <1>1, <1>2, <2>1, <2>2
<1>16. input \in Seq(FrameRows) /\ Len(input) = 0
  BY <1>1, <1>2, <1>3
<1>17. halves \in Nat /\ halves \in {2 * Len(input) - 1, 2 * Len(input)} /\ st.half = 0 /\ 0 \in 0 .. halves
  <2>1. halves = 0 /\ st.half = 0
    BY <1>1, <1>4, <1>5, Zenon
  <2> QED
    BY <1>16, <2>1
<1>18. [t |-> st, out |-> chunks] \in KiroTellings(SubSeq(input, 1, st.half \div 2), 0)
  <2>1. [t |-> st, out |-> chunks] = q
    BY <1>1, <1>2, <1>4, <1>11
  <2> QED
    BY <1>14, <1>15, <2>1
<1> QED
  BY <1>16, <1>17, <1>18 DEF KiroTold

(* A prefix and what follows it.                                              *)
LEMMA PrefixGrows ==
  ASSUME NEW X, NEW s \in Seq(X), NEW a \in Nat, NEW b \in Nat, a <= b, b <= Len(s)
  PROVE  /\ SubSeq(s, 1, a) \in Seq(X) /\ SubSeq(s, a + 1, b) \in Seq(X)
         /\ SubSeq(s, 1, a) \o SubSeq(s, a + 1, b) = SubSeq(s, 1, b)
<1> DEFINE p == SubSeq(s, 1, a)
           q == SubSeq(s, a + 1, b)
           w == SubSeq(s, 1, b)
<1>1. p \in Seq(X) /\ Len(p) = a /\ \A i \in 1 .. a : p[i] = s[i]
  OBVIOUS
<1>2. q \in Seq(X) /\ Len(q) = b - a /\ \A i \in 1 .. b - a : q[i] = s[i + a]
  OBVIOUS
<1>3. w \in Seq(X) /\ Len(w) = b /\ \A i \in 1 .. b : w[i] = s[i]
  OBVIOUS
<1> HIDE DEF p, q, w
<1>4. p \o q \in Seq(X) /\ Len(p \o q) = b
  <2>0. p \in Seq(X) /\ q \in Seq(X)
    BY <1>1, <1>2
  <2>1. p \o q \in Seq(X) /\ Len(p \o q) = Len(p) + Len(q)
    BY <2>0, ConcatProperties
  <2> QED
    BY <1>1, <1>2, <2>1
<1>5. ASSUME NEW i \in 1 .. b PROVE (p \o q)[i] = w[i]
  <2>1. CASE i <= a
    <3>1. i \in 1 .. a
      BY <2>1
    <3>2. (p \o q)[i] = p[i]
      BY <1>1, <1>2, <3>1
    <3> QED
      BY <1>1, <1>3, <3>1, <3>2
  <2>2. CASE i > a
    <3>1. i - a \in 1 .. b - a /\ (i - a) + a = i
      BY <2>2
    <3>2. (p \o q)[i] = q[i - a]
      BY <1>1, <1>2, <2>2, <3>1
    <3> QED
      BY <1>2, <1>3, <3>1, <3>2
  <2>3. i <= a \/ i > a
    <3>1. i \in Nat
      OBVIOUS
    <3> QED
      BY <3>1
  <2> QED
    BY <2>1, <2>2, <2>3
<1>6. p \o q = w
  BY <1>3, <1>4, <1>5
<1> QED
  BY <1>1, <1>2, <1>6 DEF p, q, w

(* Halves of frames that have come, and frames that are complete.             *)
LEMMA HalfIs ==
  ASSUME NEW h \in Nat, NEW n \in Nat, h <= 2 * n
  PROVE  /\ h \div 2 \in Nat /\ h \div 2 <= n
         /\ \A g \in 0 .. h : g \div 2 \in Nat /\ g \div 2 <= h \div 2
         /\ h = 2 * n => h \div 2 = n
OBVIOUS

(* What is under way to the gateway changes nothing that was told.            *)
LEMMA KiroGoesOn ==
  ASSUME KiroTold, T!SendFrame \/ T!SendRest, KiroFrames \subseteq FrameRows
  PROVE  KiroTold'
<1>1. /\ input \in Seq(FrameRows) /\ halves \in Nat /\ halves \in {2 * Len(input) - 1, 2 * Len(input)}
      /\ st.half \in 0 .. halves
      /\ [t |-> st, out |-> chunks] \in KiroTellings(SubSeq(input, 1, st.half \div 2), st.half)
  BY DEF KiroTold
<1>2. st' = st /\ chunks' = chunks
  BY DEF T!SendFrame, T!SendRest
<1>3. Len(input) \in Nat
  BY <1>1
<1>4. CASE T!SendFrame
  <2>1. PICK f \in FrameRows, m \in 1 .. 2 : input' = Append(input, f) /\ halves' = halves + m /\ halves = 2 * Len(input)
    BY <1>4 DEF T!SendFrame
  <2>2. input' \in Seq(FrameRows) /\ Len(input') = Len(input) + 1
    BY <1>1, <2>1
  <2>3. halves' \in Nat /\ halves' \in {2 * Len(input') - 1, 2 * Len(input')} /\ st.half \in 0 .. halves'
    BY <1>1, <1>3, <2>1, <2>2
  <2> DEFINE a == st.half \div 2
  <2>4. a \in Nat /\ a <= Len(input)
    BY <1>1, <1>3, <2>1, HalfIs
  <2> HIDE DEF a
  <2>5. SubSeq(input', 1, a) = SubSeq(input, 1, a)
    BY <1>1, <2>1, <2>4
  <2> QED
    BY <1>1, <1>2, <2>2, <2>3, <2>5 DEF KiroTold, a
<1>5. CASE T!SendRest
  <2>1. input' = input /\ halves' = halves + 1 /\ halves = 2 * Len(input) - 1
    BY <1>5 DEF T!SendRest
  <2>2. halves' \in Nat /\ halves' \in {2 * Len(input) - 1, 2 * Len(input)} /\ st.half \in 0 .. halves'
    BY <1>1, <1>3, <2>1
  <2> QED
    BY <1>1, <1>2, <2>1, <2>2 DEF KiroTold
<1> QED
  BY <1>4, <1>5

Halved(s, t, n) == {u \in KiroStates : u \in Parsed(s) /\ u.half = n /\ u.last = t.last /\ u.role = t.role}

(* A parser that has looked further knows the same of the frames.             *)
LEMMA HalfChanges ==
  ASSUME NEW s, NEW t \in Parsed(s), NEW n \in Nat, NEW u, u = WithHalf(t, n)
  PROVE  u \in Halved(s, t, n)
<1>1. t \in KiroStates
  BY DEF Parsed
<1>2. PICK h, l, o, x, c, r : t = ParserState(h, l, o, x, c, r)
  BY <1>1 DEF KiroStates, ParserState
<1>3. u = ParserState(n, l, o, x, c, r)
  BY <1>2, ParserChanges
<1>4. /\ l \in Words /\ x \in [name : Words, args : Seq(STRING)] /\ c \in Seq(ToolCalls)
      /\ o \in BOOLEAN /\ r \in BOOLEAN
  BY <1>1, <1>2 DEF KiroStates, ParserState
<1>5. u \in KiroStates
  BY <1>3, <1>4 DEF KiroStates, ParserState
<1>6. /\ t.last = l /\ t.open = o /\ t.tool = x /\ t.calls = c /\ t.role = r
      /\ u.half = n /\ u.last = l /\ u.open = o /\ u.tool = x /\ u.calls = c /\ u.role = r
  BY <1>2, <1>3 DEF ParserState
<1>7. u \in Parsed(s)
  BY <1>5, <1>6 DEF Parsed
<1> QED
  BY <1>5, <1>6, <1>7 DEF Halved

(* A chunk is looked at: the frames that are complete are told.               *)
LEMMA KiroHears ==
  ASSUME KiroTold, T!TransformChunk
  PROVE  KiroTold'
<1>1. /\ input \in Seq(FrameRows) /\ halves \in Nat /\ halves \in {2 * Len(input) - 1, 2 * Len(input)}
      /\ st.half \in 0 .. halves
      /\ [t |-> st, out |-> chunks] \in KiroTellings(SubSeq(input, 1, st.half \div 2), st.half)
  BY DEF KiroTold
<1>2. /\ st' = T!KiroFeed(halves).t /\ chunks' = T!KiroFeed(halves).out
      /\ input' = input /\ halves' = halves
  BY DEF T!TransformChunk
<1> DEFINE a == st.half \div 2
           b == halves \div 2
           p == SubSeq(input, 1, a)
           q == SubSeq(input, a + 1, b)
<1>3. a \in Nat /\ b \in Nat /\ a <= b /\ b <= Len(input)
  <2>1. Len(input) \in Nat /\ halves <= 2 * Len(input)
    BY <1>1
  <2> QED
    BY <1>1, <2>1, HalfIs
<1>4. p \in Seq(FrameRows) /\ q \in Seq(FrameRows) /\ p \o q = SubSeq(input, 1, b)
  <2> HIDE DEF a, b
  <2> QED
    BY <1>1, <1>3, PrefixGrows
<1>5. PICK u : u = WithHalf(st, halves)
  OBVIOUS
<1>6. PICK r : r = [t |-> u, out |-> chunks]
  OBVIOUS
<1>7. PICK x : x = PutFrames(r, q)
  OBVIOUS
<1>8. T!KiroFeed(halves) = x
  BY <1>5, <1>6, <1>7, Zenon DEF T!KiroFeed, PutFrames, WithHalf
<1> HIDE DEF a, b, p, q
<1>9. [t |-> st, out |-> chunks] \in KiroTellings(p, st.half)
  BY <1>1 DEF p, a
<1>10. r \in KiroTellings(p, halves)
  <2>1. PICK y : y = [t |-> st, out |-> chunks]
    OBVIOUS
  <2>2. y.t = st /\ y.out = chunks
    BY <2>1
  <2>3. /\ st \in Parsed(p) /\ st.last = LastText(T!KiroTexts(p)) /\ (st.role <=> T!KiroTexts(p) # <<>>)
        /\ chunks = TextChunks(T!KiroTexts(p)) /\ chunks \in Seq(ChunkRows)
    BY <1>9, <2>1, <2>2 DEF KiroTellings
  <2>4. u \in Parsed(p) /\ u.half = halves /\ u.last = st.last /\ u.role = st.role /\ u \in KiroStates
    <3>1. u \in Halved(p, st, halves)
      BY <1>1, <1>5, <2>3, HalfChanges
    <3> QED
      BY <3>1 DEF Halved
  <2>5. r \in [t : KiroStates, out : Seq(ChunkRows)] /\ r.t = u /\ r.out = chunks
    BY <1>6, <2>3, <2>4
  <2> QED
    BY <2>3, <2>4, <2>5 DEF KiroTellings
<1>11. x \in KiroTellings(p \o q, halves)
  BY <1>4, <1>7, <1>10, FramesKeep
<1>12. st' = x.t /\ chunks' = x.out /\ [t |-> x.t, out |-> x.out] = x
  BY <1>2, <1>8, <1>11 DEF KiroTellings
<1>13. st'.half = halves
  BY <1>11, <1>12 DEF KiroTellings
<1>14. [t |-> st', out |-> chunks'] \in KiroTellings(SubSeq(input', 1, st'.half \div 2), st'.half)
  BY <1>2, <1>4, <1>11, <1>12, <1>13 DEF b
<1>15. st'.half \in 0 .. halves'
  BY <1>1, <1>2, <1>13
<1> QED
  BY <1>1, <1>2, <1>14, <1>15 DEF KiroTold

(* Elements that are all alike are kept, or none of them is.                  *)
LEMMA HavingAllOrNone ==
  ASSUME NEW X, NEW s \in Seq(X), NEW f, NEW v
  PROVE  /\ (\A x \in X : x[f] = v) => T!Having(s, f, v) = s
         /\ (\A x \in X : x[f] # v) => T!Having(s, f, v) = <<>>
<1> DEFINE B(n) == SubSeq(s, 1, n)
           Alike == \A x \in X : x[f] = v
           Unlike == \A x \in X : x[f] # v
           Q == {n \in Nat : n <= Len(s) => (Alike => T!Having(B(n), f, v) = B(n)) /\ (Unlike => T!Having(B(n), f, v) = <<>>)}
<1>1. /\ B(0) = <<>> /\ B(Len(s)) = s /\ Len(s) \in Nat
      /\ \A n \in 0 .. Len(s) - 1 : B(n) \in Seq(X) /\ s[n + 1] \in X /\ B(n + 1) = Append(B(n), s[n + 1])
  BY Beginnings
<1> HIDE DEF B
<1>2. 0 \in Q
  BY <1>1, HavingNothing
<1>3. ASSUME NEW n \in Nat, n \in Q PROVE n + 1 \in Q
  <2> SUFFICES ASSUME n + 1 <= Len(s)
               PROVE  (Alike => T!Having(B(n + 1), f, v) = B(n + 1)) /\ (Unlike => T!Having(B(n + 1), f, v) = <<>>)
    OBVIOUS
  <2>1. n \in 0 .. Len(s) - 1 /\ n <= Len(s)
    BY <1>1
  <2> DEFINE h == B(n)
             x == s[n + 1]
  <2>2. IsSeq(h) /\ x \in X /\ B(n + 1) = Append(h, x)
    BY <1>1, <2>1 DEF IsSeq
  <2>3. (Alike => T!Having(h, f, v) = h) /\ (Unlike => T!Having(h, f, v) = <<>>)
    BY <1>3, <2>1
  <2> HIDE DEF h, x
  <2>4. T!Having(Append(h, x), f, v) = IF x[f] = v THEN Append(T!Having(h, f, v), x) ELSE T!Having(h, f, v)
    BY <2>2, HavingOneMore
  <2>5. Alike => T!Having(Append(h, x), f, v) = Append(h, x)
    BY <2>2, <2>3, <2>4
  <2>6. Unlike => T!Having(Append(h, x), f, v) = <<>>
    BY <2>2, <2>3, <2>4
  <2> QED
    BY <2>2, <2>5, <2>6
<1> HIDE DEF Q
<1>4. Nat \subseteq Q
  BY <1>2, <1>3, Counting
<1>5. Len(s) \in Q
  BY <1>1, <1>4
<1> QED
  BY <1>1, <1>5 DEF Q

ValuesOf(s) == T!Values(T!DeltasOf(s))
ChunksOfKind(i, kind) == {c \in ChunkRows : c.index = i /\ c.delta.kind = kind}

(* Of no chunks nothing is gathered.                                          *)
LEMMA GatheredNothing == \A i, kind : Gathered(<<>>, i, kind) = <<>> /\ ValuesOf(<<>>) = <<>>
<1> SUFFICES ASSUME NEW i, NEW kind PROVE Gathered(<<>>, i, kind) = <<>> /\ ValuesOf(<<>>) = <<>>
  OBVIOUS
<1>1. T!DeltasOf(<<>>) = <<>> /\ T!Values(<<>>) = <<>>
  BY DEF T!DeltasOf, T!Values
<1> QED
  BY <1>1, HavingNothing DEF Gathered, T!Pick, ValuesOf

(* Of chunks of one index and kind, their values are gathered.                *)
LEMMA GatheredAlike ==
  ASSUME NEW i, NEW kind, NEW s \in Seq(ChunksOfKind(i, kind))
  PROVE  Gathered(s, i, kind) = ValuesOf(s) /\ \A k : k # kind => Gathered(s, i, k) = <<>>
<1> DEFINE B(n) == SubSeq(s, 1, n)
           Right(o) == Gathered(o, i, kind) = ValuesOf(o) /\ \A k : k # kind => Gathered(o, i, k) = <<>>
           Q == {n \in Nat : n <= Len(s) => Right(B(n))}
           X == ChunksOfKind(i, kind)
<1>0. s \in Seq(X)
  OBVIOUS
<1> HIDE DEF X
<1>1. /\ B(0) = <<>> /\ B(Len(s)) = s /\ Len(s) \in Nat
      /\ \A n \in 0 .. Len(s) - 1 : B(n) \in Seq(X) /\ s[n + 1] \in X /\ B(n + 1) = Append(B(n), s[n + 1])
  BY <1>0, Beginnings
<1> HIDE DEF B
<1>2. 0 \in Q
  <2>1. Right(<<>>)
    BY GatheredNothing
  <2> QED
    BY <1>1, <2>1
<1>3. ASSUME NEW n \in Nat, n \in Q PROVE n + 1 \in Q
  <2> SUFFICES ASSUME n + 1 <= Len(s) PROVE Right(B(n + 1))
    OBVIOUS
  <2>1. n \in 0 .. Len(s) - 1 /\ n <= Len(s)
    BY <1>1
  <2> DEFINE h == B(n)
             x == s[n + 1]
  <2>2. h \in Seq(X) /\ x \in X /\ B(n + 1) = Append(h, x)
    BY <1>1, <2>1
  <2>3. Right(h)
    BY <1>3, <2>1
  <2> HIDE DEF h, x
  <2>4. h \in Seq(ChunkRows) /\ x \in ChunkRows /\ x.index = i /\ x.delta.kind = kind
    <3>1. X \subseteq ChunkRows
      BY DEF X, ChunksOfKind
    <3>2. h \in Seq(ChunkRows)
      BY <2>2, <3>1
    <3> QED
      BY <2>2, <3>2 DEF X, ChunksOfKind
  <2>5. \A k : Gathered(Append(h, x), i, k) = IF x.index = i /\ x.delta.kind = k THEN Append(Gathered(h, i, k), x.delta.value)
                                              ELSE Gathered(h, i, k)
    BY <2>4, GatheredOneMore
  <2>6. ValuesOf(Append(h, x)) = Append(ValuesOf(h), x.delta.value)
    <3>1. IsSeq(h)
      BY <2>4 DEF IsSeq
    <3>2. IsSeq(T!DeltasOf(h)) /\ T!DeltasOf(Append(h, x)) = Append(T!DeltasOf(h), x.delta)
      BY <3>1, CarriedOneMore
    <3>3. T!Values(Append(T!DeltasOf(h), x.delta)) = Append(T!Values(T!DeltasOf(h)), x.delta.value)
      BY <3>2, CarriedOneMore
    <3> QED
      BY <3>2, <3>3 DEF ValuesOf
  <2>7. Right(Append(h, x))
    BY <2>3, <2>4, <2>5, <2>6
  <2> QED
    BY <2>2, <2>7
<1> HIDE DEF Q
<1>4. Nat \subseteq Q
  BY <1>2, <1>3, Counting
<1>5. Len(s) \in Q
  BY <1>1, <1>4
<1> QED
  BY <1>1, <1>5 DEF Q

(* Of chunks after chunks, one is gathered after the other.                   *)
LEMMA GatheredConcat ==
  ASSUME NEW a \in Seq(ChunkRows), NEW b \in Seq(ChunkRows), NEW i, NEW kind
  PROVE  Gathered(a \o b, i, kind) = Gathered(a, i, kind) \o Gathered(b, i, kind)
<1> DEFINE B(n) == SubSeq(b, 1, n)
           Q == {n \in Nat : n <= Len(b) => Gathered(a \o B(n), i, kind) = Gathered(a, i, kind) \o Gathered(B(n), i, kind)}
<1>1. IsSeq(a) /\ IsSeq(Gathered(a, i, kind))
  BY GatheredIsSeq DEF IsSeq
<1>2. /\ B(0) = <<>> /\ B(Len(b)) = b /\ Len(b) \in Nat
      /\ \A n \in 0 .. Len(b) - 1 : B(n) \in Seq(ChunkRows) /\ b[n + 1] \in ChunkRows /\ B(n + 1) = Append(B(n), b[n + 1])
  BY Beginnings
<1> HIDE DEF B
<1>3. 0 \in Q
  <2>1. a \o <<>> = a /\ Gathered(a, i, kind) \o <<>> = Gathered(a, i, kind)
    BY <1>1, ConcatNothing
  <2> QED
    BY <1>2, <2>1, GatheredNothing
<1>4. ASSUME NEW n \in Nat, n \in Q PROVE n + 1 \in Q
  <2> SUFFICES ASSUME n + 1 <= Len(b)
               PROVE  Gathered(a \o B(n + 1), i, kind) = Gathered(a, i, kind) \o Gathered(B(n + 1), i, kind)
    OBVIOUS
  <2>1. n \in 0 .. Len(b) - 1 /\ n <= Len(b)
    BY <1>2
  <2> DEFINE h == B(n)
             x == b[n + 1]
  <2>2. h \in Seq(ChunkRows) /\ x \in ChunkRows /\ B(n + 1) = Append(h, x)
    BY <1>2, <2>1
  <2>3. Gathered(a \o h, i, kind) = Gathered(a, i, kind) \o Gathered(h, i, kind)
    BY <1>4, <2>1
  <2> HIDE DEF h, x
  <2>4. IsSeq(h) /\ IsSeq(Gathered(h, i, kind)) /\ a \o h \in Seq(ChunkRows)
    BY <2>2, GatheredIsSeq, ConcatProperties DEF IsSeq
  <2>5. a \o Append(h, x) = Append(a \o h, x)
    BY <1>1, <2>4, ConcatOneMore
  <2>6. Gathered(Append(a \o h, x), i, kind)
          = IF x.index = i /\ x.delta.kind = kind THEN Append(Gathered(a \o h, i, kind), x.delta.value) ELSE Gathered(a \o h, i, kind)
    <3> DEFINE z == a \o h
    <3>1. z \in Seq(ChunkRows)
      BY <2>4
    <3> HIDE DEF z
    <3>2. Gathered(Append(z, x), i, kind)
            = IF x.index = i /\ x.delta.kind = kind THEN Append(Gathered(z, i, kind), x.delta.value) ELSE Gathered(z, i, kind)
      BY <2>2, <3>1, GatheredOneMore
    <3> QED
      BY <3>2 DEF z
  <2>7. Gathered(Append(h, x), i, kind)
          = IF x.index = i /\ x.delta.kind = kind THEN Append(Gathered(h, i, kind), x.delta.value) ELSE Gathered(h, i, kind)
    BY <2>2, GatheredOneMore
  <2>8. Gathered(a, i, kind) \o Append(Gathered(h, i, kind), x.delta.value)
          = Append(Gathered(a, i, kind) \o Gathered(h, i, kind), x.delta.value)
    BY <1>1, <2>4, ConcatOneMore
  <2>9. Gathered(a \o Append(h, x), i, kind) = Gathered(a, i, kind) \o Gathered(Append(h, x), i, kind)
    BY <2>3, <2>5, <2>6, <2>7, <2>8
  <2> QED
    BY <2>2, <2>9
<1> HIDE DEF Q
<1>5. Nat \subseteq Q
  BY <1>3, <1>4, Counting
<1>6. Len(b) \in Q
  BY <1>2, <1>5
<1> QED
  BY <1>2, <1>6 DEF Q

CallChunk(k, c, before) ==
  [index |-> 0, role |-> before + k = 1, delta |-> T!Delta("call", c, k - 1), finish |-> ""]
CallChunks(calls, before) == [k \in DOMAIN calls |-> CallChunk(k, calls[k], before)]

CallTold(k, x) ==
  {c \in ChunkRows : /\ c.index = 0 /\ c.finish = ""
                     /\ c.delta.kind = "call" /\ c.delta.value = x /\ c.delta.n = k - 1}

(* The chunk of a call has its number, its name and its arguments.            *)
LEMMA CallChunkIs ==
  ASSUME NEW k \in Nat \ {0}, NEW x \in ToolCalls, NEW before \in Nat
  PROVE  CallChunk(k, x, before) \in CallTold(k, x)
<1>1. PICK d : d = T!Delta("call", x, k - 1)
  OBVIOUS
<1>2. d = [kind |-> "call", value |-> x, n |-> k - 1]
  BY <1>1 DEF T!Delta
<1>3. x \in Words \cup ToolCalls /\ k - 1 \in Nat
  OBVIOUS
<1>4. d \in DeltaRows
  BY <1>2, <1>3 DEF DeltaRows
<1>5. PICK r : r = (before + k = 1)
  BY Zenon
<1>6. r \in BOOLEAN
  BY <1>5
<1>7. PICK c : c = [index |-> 0, role |-> r, delta |-> d, finish |-> ""]
  BY Zenon
<1>8. CallChunk(k, x, before) = c
  BY <1>1, <1>5, <1>7, Zenon DEF CallChunk
<1>9. 0 \in T!Indexes /\ "" \in Finishes
  BY DEF T!Indexes, Finishes
<1>10. c \in ChunkRows
  BY <1>4, <1>6, <1>7, <1>9, Zenon DEF ChunkRows
<1>11. c.index = 0 /\ c.role = r /\ c.finish = "" /\ c.delta = d
  BY <1>7, Zenon
<1>12. d.kind = "call" /\ d.value = x /\ d.n = k - 1
  BY <1>2
<1> QED
  BY <1>8, <1>10, <1>11, <1>12, Zenon DEF CallTold

(* It has the role if it is the first of all.                                 *)
LEMMA CallChunkRole ==
  ASSUME NEW k, NEW x, NEW before
  PROVE  CallChunk(k, x, before).role <=> before + k = 1
<1>1. PICK r, d : r = (before + k = 1) /\ d = T!Delta("call", x, k - 1)
  BY Zenon
<1>2. PICK c : c = [index |-> 0, role |-> r, delta |-> d, finish |-> ""]
  BY Zenon
<1>3. CallChunk(k, x, before) = c
  BY <1>1, <1>2, Zenon DEF CallChunk
<1>4. c.role = r
  BY <1>2, Zenon
<1> QED
  BY <1>1, <1>3, <1>4, Zenon

CallsTold(calls) ==
  {s \in Seq(ChunksOfKind(0, "call")) :
     /\ Len(s) = Len(calls) /\ ValuesOf(s) = calls
     /\ \A k \in DOMAIN s : s[k].finish = "" /\ s[k].delta.n = k - 1 /\ s[k].delta.kind = "call"}

(* The chunks of the calls are those of each of them, in order.               *)
LEMMA CallChunksAre ==
  ASSUME NEW calls \in Seq(ToolCalls), NEW before \in Nat, NEW s, s = CallChunks(calls, before)
  PROVE  s \in CallsTold(calls)
<1>1. Len(calls) \in Nat /\ DOMAIN calls = 1 .. Len(calls) /\ \A k \in DOMAIN calls : calls[k] \in ToolCalls
  OBVIOUS
<1>2. s = [k \in 1 .. Len(calls) |-> CallChunk(k, calls[k], before)]
  BY <1>1 DEF CallChunks
<1>3. ASSUME NEW k \in 1 .. Len(calls)
      PROVE  /\ s[k] \in ChunksOfKind(0, "call") /\ s[k].delta.kind = "call" /\ s[k].delta.value = calls[k]
             /\ s[k].finish = "" /\ s[k].delta.n = k - 1
  <2>1. k \in Nat \ {0} /\ calls[k] \in ToolCalls
    BY <1>1
  <2> DEFINE c == CallChunk(k, calls[k], before)
  <2>3. /\ c \in ChunkRows /\ c.index = 0 /\ c.finish = ""
        /\ c.delta.kind = "call" /\ c.delta.value = calls[k] /\ c.delta.n = k - 1
    <3>1. c \in CallTold(k, calls[k])
      BY <2>1, CallChunkIs
    <3> HIDE DEF c
    <3> QED
      BY <3>1, Zenon DEF CallTold
  <2>4. s[k] = c
    BY <1>2
  <2> HIDE DEF c
  <2> QED
    BY <2>3, <2>4, Zenon DEF ChunksOfKind
<1>4. \A k \in 1 .. Len(calls) : s[k] \in ChunksOfKind(0, "call")
  BY <1>3, Zenon
<1>5. DOMAIN s = 1 .. Len(calls) /\ s = [k \in 1 .. Len(calls) |-> s[k]]
  BY <1>2
<1>6. s \in Seq(ChunksOfKind(0, "call")) /\ Len(s) = Len(calls)
  BY <1>1, <1>4, <1>5
<1>7. ValuesOf(s) = calls
  <2> DEFINE d == T!DeltasOf(s)
  <2>1. d = [k \in 1 .. Len(calls) |-> s[k].delta]
    BY <1>5 DEF T!DeltasOf
  <2> HIDE DEF d
  <2>2. T!Values(d) = [k \in 1 .. Len(calls) |-> d[k].value]
    BY <2>1 DEF T!Values
  <2>3. \A k \in 1 .. Len(calls) : d[k].value = calls[k]
    BY <1>3, <2>1, Zenon
  <2>4. T!Values(d) = calls
    BY <1>1, <2>2, <2>3
  <2> QED
    BY <2>4 DEF ValuesOf, d
<1> QED
  BY <1>3, <1>5, <1>6, <1>7, Zenon DEF CallsTold

(* The role is with the first call if nothing came before.                    *)
LEMMA CallRolesAre ==
  ASSUME NEW calls \in Seq(ToolCalls), NEW before \in Nat, NEW s, s = CallChunks(calls, before)
  PROVE  \A k \in DOMAIN s : s[k].role <=> before + k = 1
BY CallChunkRole DEF CallChunks

TextsTold(texts) ==
  {s \in Seq(ChunksOfKind(0, "content")) :
     /\ Len(s) = Len(texts)
     /\ \A k \in DOMAIN s : s[k].finish = "" /\ (s[k].role <=> k = 1) /\ s[k].delta.kind = "content"
     /\ ValuesOf(s) = texts}

(* The chunks of the texts are those of each of them, in order.               *)
LEMMA TextChunksAre ==
  ASSUME NEW texts \in Seq(Said), NEW s, s = TextChunks(texts)
  PROVE  s \in TextsTold(texts)
<1>1. Len(texts) \in Nat /\ DOMAIN texts = 1 .. Len(texts) /\ \A k \in DOMAIN texts : texts[k] \in Said
  OBVIOUS
<1>2. s = [k \in 1 .. Len(texts) |-> TextChunk(k, texts[k])]
  BY <1>1 DEF TextChunks
<1>3. ASSUME NEW k \in 1 .. Len(texts)
      PROVE  /\ s[k] \in ChunksOfKind(0, "content") /\ s[k].delta.kind = "content" /\ s[k].delta.value = texts[k]
             /\ s[k].finish = "" /\ (s[k].role <=> k = 1)
  <2>1. texts[k] \in Said
    BY <1>1
  <2> DEFINE c == TextChunk(k, texts[k])
  <2>3. /\ c \in ChunkRows /\ c.index = 0 /\ (c.role <=> k = 1) /\ c.finish = ""
        /\ c.delta.kind = "content" /\ c.delta.value = texts[k]
    <3>1. c \in TextChunkOf(k, texts[k])
      BY <2>1, TextChunkIs, Zenon
    <3> QED
      BY <3>1, Zenon DEF TextChunkOf
  <2>4. s[k] = c
    BY <1>2
  <2> HIDE DEF c
  <2> QED
    BY <2>3, <2>4, Zenon DEF ChunksOfKind
<1>4. \A k \in 1 .. Len(texts) : s[k] \in ChunksOfKind(0, "content")
  BY <1>3, Zenon
<1>5. DOMAIN s = 1 .. Len(texts) /\ s = [k \in 1 .. Len(texts) |-> s[k]]
  BY <1>2
<1>6. s \in Seq(ChunksOfKind(0, "content")) /\ Len(s) = Len(texts)
  BY <1>1, <1>4, <1>5
<1>7. ValuesOf(s) = texts
  <2> DEFINE d == T!DeltasOf(s)
  <2>1. d = [k \in 1 .. Len(texts) |-> s[k].delta]
    BY <1>5 DEF T!DeltasOf
  <2> HIDE DEF d
  <2>2. T!Values(d) = [k \in 1 .. Len(texts) |-> d[k].value]
    BY <2>1 DEF T!Values
  <2>3. \A k \in 1 .. Len(texts) : d[k].value = texts[k]
    BY <1>3, <2>1, Zenon
  <2>4. T!Values(d) = texts
    BY <1>1, <2>2, <2>3
  <2> QED
    BY <2>4 DEF ValuesOf, d
<1> QED
  BY <1>3, <1>5, <1>6, <1>7, Zenon DEF TextsTold

(* Texts and then calls: what is written before the last chunk.               *)
SaidAndCalled(texts, calls) ==
  {o \in Unended : /\ o \in Seq({c \in ChunkRows : c.index = 0})
                   /\ Gathered(o, 0, "content") = texts /\ Gathered(o, 0, "call") = calls
                   /\ Gathered(o, 0, "reasoning") = <<>>}

(* Texts and then calls make a choice that is not ended yet.                  *)
LEMMA BodyIsUnended ==
  ASSUME NEW texts \in Seq(Said), NEW calls \in Seq(ToolCalls), NEW o, o = TextChunks(texts) \o CallChunks(calls, Len(texts))
  PROVE  o \in SaidAndCalled(texts, calls)
<1>1. PICK a : a = TextChunks(texts)
  OBVIOUS
<1>2. PICK b : b = CallChunks(calls, Len(texts))
  OBVIOUS
<1>3. /\ a \in Seq(ChunksOfKind(0, "content")) /\ Len(a) = Len(texts)
      /\ \A k \in DOMAIN a : a[k].finish = "" /\ (a[k].role <=> k = 1) /\ a[k].delta.kind = "content"
      /\ ValuesOf(a) = texts
  <2>1. a \in TextsTold(texts)
    BY <1>1, TextChunksAre
  <2> QED
    BY <2>1, Zenon DEF TextsTold
<1>4. /\ b \in Seq(ChunksOfKind(0, "call")) /\ Len(b) = Len(calls)
      /\ \A k \in DOMAIN b : /\ b[k].finish = "" /\ (b[k].role <=> Len(texts) + k = 1) /\ b[k].delta.n = k - 1
                             /\ b[k].delta.kind = "call"
      /\ ValuesOf(b) = calls
  <2>1. Len(texts) \in Nat
    OBVIOUS
  <2> QED
    <3>1. b \in CallsTold(calls)
      BY <1>2, <2>1, CallChunksAre
    <3>3. \A k \in DOMAIN b : (b[k].role <=> Len(texts) + k = 1)
      BY <1>2, <2>1, CallRolesAre
    <3> QED
      BY <3>1, <3>3, Zenon DEF CallsTold
<1>5. o = a \o b
  BY <1>1, <1>2
<1> DEFINE Zeros == {c \in ChunkRows : c.index = 0}
<1>6. a \in Seq(Zeros) /\ b \in Seq(Zeros)
  <2>1. ChunksOfKind(0, "content") \subseteq Zeros /\ ChunksOfKind(0, "call") \subseteq Zeros
    BY DEF ChunksOfKind
  <2>2. a \in Seq(ChunksOfKind(0, "content")) /\ b \in Seq(ChunksOfKind(0, "call"))
    BY <1>3, <1>4, Zenon
  <2> HIDE DEF Zeros
  <2> QED
    BY <2>1, <2>2
<1>7. a \in Seq(ChunkRows) /\ b \in Seq(ChunkRows)
  <2>1. Zeros \subseteq ChunkRows
    OBVIOUS
  <2> HIDE DEF Zeros
  <2> QED
    BY <1>6, <2>1
<1>8. o \in Seq(Zeros) /\ o \in Seq(ChunkRows)
  <2> HIDE DEF Zeros
  <2> QED
    BY <1>5, <1>6, <1>7, ConcatProperties
<1>9. \A kind : Gathered(o, 0, kind) = Gathered(a, 0, kind) \o Gathered(b, 0, kind)
  BY <1>5, <1>7, GatheredConcat
<1>10. Gathered(a, 0, "content") = texts /\ Gathered(a, 0, "call") = <<>> /\ Gathered(a, 0, "reasoning") = <<>>
  <2>1. a \in Seq(ChunksOfKind(0, "content"))
    BY <1>3, Zenon
  <2>2. Gathered(a, 0, "content") = ValuesOf(a) /\ \A k : k # "content" => Gathered(a, 0, k) = <<>>
    BY <2>1, GatheredAlike
  <2> QED
    BY <1>3, <2>2, Zenon
<1>11. Gathered(b, 0, "content") = <<>> /\ Gathered(b, 0, "call") = calls /\ Gathered(b, 0, "reasoning") = <<>>
  <2>1. b \in Seq(ChunksOfKind(0, "call"))
    BY <1>4, Zenon
  <2>2. Gathered(b, 0, "call") = ValuesOf(b) /\ \A k : k # "call" => Gathered(b, 0, k) = <<>>
    BY <2>1, GatheredAlike
  <2> QED
    BY <1>4, <2>2, Zenon
<1>12. texts \o <<>> = texts /\ <<>> \o calls = calls /\ <<>> \o <<>> = <<>>
  <2>1. <<>> \in Seq({})
    OBVIOUS
  <2>2. IsSeq(texts) /\ IsSeq(calls) /\ IsSeq(<<>>)
    BY <2>1 DEF IsSeq
  <2> QED
    BY <2>2, ConcatNothing
<1>13. /\ Gathered(o, 0, "content") = texts /\ Gathered(o, 0, "call") = calls
       /\ Gathered(o, 0, "reasoning") = <<>>
  BY <1>9, <1>10, <1>11, <1>12
<1> DEFINE m == Len(a)
<1>14. /\ m \in Nat /\ Len(b) \in Nat /\ DOMAIN a = 1 .. m /\ DOMAIN b = 1 .. Len(b) /\ DOMAIN o = 1 .. m + Len(b)
       /\ \A k \in DOMAIN o : o[k] = IF k <= m THEN a[k] ELSE b[k - m]
  <2>1. m \in Nat /\ Len(b) \in Nat /\ DOMAIN a = 1 .. m /\ DOMAIN b = 1 .. Len(b)
    BY <1>7
  <2>2. Len(o) = m + Len(b) /\ \A k \in 1 .. m + Len(b) : o[k] = IF k <= m THEN a[k] ELSE b[k - m]
    BY <1>5, <1>7, ConcatProperties
  <2>3. DOMAIN o = 1 .. Len(o)
    BY <1>8
  <2> QED
    BY <2>1, <2>2, <2>3
<1>15. m = Len(texts)
  BY <1>3, Zenon
<1> HIDE DEF m
<1>16. ASSUME NEW k \in DOMAIN o
       PROVE  /\ o[k].finish = "" /\ (o[k].role <=> k = 1)
              /\ (o[k].delta.kind = "call" => o[k].delta.n = k - m - 1)
  <2>1. k \in Nat /\ k >= 1 /\ k <= m + Len(b)
    BY <1>14
  <2>2. CASE k <= m
    <3>1. k \in DOMAIN a /\ o[k] = a[k]
      BY <1>14, <2>1, <2>2
    <3> QED
      BY <1>3, <3>1, Zenon
  <2>3. CASE k > m
    <3>1. k - m \in DOMAIN b
      BY <1>14, <2>1, <2>3
    <3>2. o[k] = b[k - m]
      BY <1>14, <2>1, <2>3
    <3>3. (m + (k - m) = 1) <=> k = 1
      BY <1>14, <2>1, <2>3
    <3>4. /\ b[k - m].finish = "" /\ (b[k - m].role <=> Len(texts) + (k - m) = 1) /\ b[k - m].delta.n = k - m - 1
      BY <1>4, <3>1, Zenon
    <3> QED
      BY <1>15, <3>2, <3>3, <3>4, Zenon
  <2>4. k <= m \/ k > m
    BY <1>14, <2>1
  <2> QED
    BY <2>2, <2>3, <2>4, Zenon
<1>17. Apart(o)
  <2> SUFFICES ASSUME NEW k \in DOMAIN o, NEW l \in DOMAIN o, k # l, o[k].delta.kind = "call", o[l].delta.kind = "call"
               PROVE  o[k].delta.n # o[l].delta.n
    BY DEF Apart
  <2>1. o[k].delta.n = k - m - 1 /\ o[l].delta.n = l - m - 1
    BY <1>16, Zenon
  <2>2. k \in Nat /\ l \in Nat /\ m \in Nat
    BY <1>14
  <2>3. k - m - 1 # l - m - 1
    BY <2>2
  <2> QED
    BY <2>1, <2>3
<1>18. o \in Unended
  BY <1>8, <1>16, <1>17, Zenon DEF Unended
<1> QED
  BY <1>8, <1>13, <1>18 DEF SaidAndCalled

(* The whole stream of a Kiro answer.                                         *)
Streamed(texts, calls, why) == Append(TextChunks(texts) \o CallChunks(calls, Len(texts)), LastChunk(0, why))

(* With a last chunk it is whole, and tells those texts and calls.            *)
LEMMA StreamedIsWhole ==
  ASSUME NEW texts \in Seq(Said), NEW calls \in Seq(ToolCalls), NEW why \in Reasons,
         NEW o, o = Streamed(texts, calls, why)
  PROVE  /\ o \in WholeChoice /\ T!Having(o, "index", 0) = o /\ T!Having(o, "index", 1) = <<>>
         /\ Gathered(o, 0, "content") = texts /\ Gathered(o, 0, "call") = calls
         /\ Gathered(o, 0, "reasoning") = <<>>
<1>1. PICK b : b = TextChunks(texts) \o CallChunks(calls, Len(texts))
  OBVIOUS
<1>2. /\ b \in Unended /\ b \in Seq({c \in ChunkRows : c.index = 0})
      /\ Gathered(b, 0, "content") = texts /\ Gathered(b, 0, "call") = calls
      /\ Gathered(b, 0, "reasoning") = <<>>
  <2>1. b \in SaidAndCalled(texts, calls)
    BY <1>1, BodyIsUnended
  <2> QED
    BY <2>1 DEF SaidAndCalled
<1>3. PICK z : z = LastChunk(0, why)
  OBVIOUS
<1>4. z \in ChunkRows /\ z.index = 0 /\ z.role = FALSE /\ z.delta.kind = "none" /\ z.finish = why
  <2>1. 0 \in T!Indexes
    BY DEF T!Indexes
  <2>2. why \in Finishes
    BY Zenon DEF Reasons
  <2>3. LET c == LastChunk(0, why)
        IN  c \in ChunkRows /\ c.index = 0 /\ c.role = FALSE /\ c.delta.kind = "none" /\ c.finish = why
    BY <2>1, <2>2, LastChunkIs, Zenon
  <2> QED
    BY <1>3, <2>3, Zenon
<1>5. o = Append(b, z)
  BY <1>1, <1>3 DEF Streamed
<1>6. z \in Lasts
  BY <1>4, Zenon DEF Lasts, Reasons
<1>7. o \in WholeChoice
  BY <1>2, <1>5, <1>6, EndedIsWhole
<1> DEFINE Zeros == {c \in ChunkRows : c.index = 0}
<1>8. o \in Seq(Zeros)
  <2>1. z \in Zeros /\ b \in Seq(Zeros)
    BY <1>2, <1>4
  <2> HIDE DEF Zeros
  <2> QED
    BY <1>5, <2>1, AppendProperties
<1>9. T!Having(o, "index", 0) = o /\ T!Having(o, "index", 1) = <<>>
  <2>1. \A c \in Zeros : c["index"] = 0 /\ c["index"] # 1
    OBVIOUS
  <2> HIDE DEF Zeros
  <2> QED
    BY <1>8, <2>1, HavingAllOrNone
<1>10. b \in Seq(ChunkRows)
  BY <1>2, Zenon DEF Unended
<1>11. \A kind : Gathered(o, 0, kind) = IF z.index = 0 /\ z.delta.kind = kind THEN Append(Gathered(b, 0, kind), z.delta.value)
                                         ELSE Gathered(b, 0, kind)
  BY <1>4, <1>5, <1>10, GatheredOneMore
<1> QED
  BY <1>2, <1>4, <1>7, <1>9, <1>11

(* Finish tells the calls of all frames and ends the choice.                  *)
LEMMA KiroFinishes ==
  ASSUME KiroTold, halves = st.half, halves = 2 * Len(input)
  PROVE  \E why \in Reasons :
           chunks \o T!KiroFinish = Streamed(T!KiroTexts(input), T!CallsAt(input, T!Starts(input)), why)
<1> DEFINE texts == T!KiroTexts(input)
           calls == T!CallsAt(input, T!Starts(input))
<1>1. /\ input \in Seq(FrameRows) /\ halves \in Nat
      /\ [t |-> st, out |-> chunks] \in KiroTellings(SubSeq(input, 1, st.half \div 2), st.half)
  BY DEF KiroTold
<1>2. SubSeq(input, 1, st.half \div 2) = input
  <2>1. Len(input) \in Nat /\ SubSeq(input, 1, Len(input)) = input
    BY <1>1, Beginnings
  <2>2. halves \div 2 = Len(input)
    <3>1. PICK n \in Nat : n = Len(input)
      BY <2>1, Zenon
    <3>2. halves = 2 * n /\ halves <= 2 * n
      BY <1>1, <3>1
    <3>3. halves \div 2 = n
      BY <1>1, <3>2, HalfIs
    <3> QED
      BY <3>1, <3>3
  <2> QED
    BY <2>1, <2>2, Zenon
<1>3. st \in Parsed(input) /\ (st.role <=> texts # <<>>) /\ chunks = TextChunks(texts)
  <2>1. PICK y : y = [t |-> st, out |-> chunks]
    OBVIOUS
  <2>2. y \in KiroTellings(input, st.half) /\ y.t = st /\ y.out = chunks
    BY <1>1, <1>2, <2>1
  <2> QED
    BY <2>2 DEF KiroTellings
<1>4. PICK u : u = T!Finalize(st)
  OBVIOUS
<1>5. u.calls = calls /\ u.role = st.role
  <2>1. u.calls = calls
    BY <1>1, <1>3, <1>4, FinalizeCloses
  <2>2. st \in KiroStates
    BY <1>3 DEF Parsed
  <2> QED
    BY <1>4, <2>1, <2>2, FinalizeIs, Zenon
<1>6. calls \in Seq(ToolCalls)
  BY <1>1, CallsGrow, Zenon DEF T!Starts
<1>7. texts \in Seq(Said)
  BY <1>1, TextsAreSaid
<1> HIDE DEF texts, calls
<1>8. PICK why : why = IF calls = <<>> THEN "stop" ELSE "tool_calls"
  OBVIOUS
<1>9. why \in Reasons
  BY <1>8 DEF Reasons, Finishes
<1>10. PICK w : w = [k \in DOMAIN calls |->
                  [index |-> 0, role |-> k = 1 /\ ~ u.role,
                   delta |-> T!Delta("call", calls[k], k - 1), finish |-> ""]]
  BY Zenon
<1>11. T!KiroFinish = w \o <<LastChunk(0, why)>>
  BY <1>4, <1>5, <1>8, <1>10, Zenon DEF T!KiroFinish, LastChunk
<1>12. w = CallChunks(calls, Len(texts))
  <2>1. Len(calls) \in Nat /\ DOMAIN calls = 1 .. Len(calls)
    BY <1>6
  <2>2. Len(texts) \in Nat /\ (Len(texts) = 0 <=> texts = <<>>)
    BY <1>7, EmptySeq
  <2>3. \A k \in DOMAIN calls : (k = 1 /\ ~ u.role) = (Len(texts) + k = 1)
    <3> SUFFICES ASSUME NEW k \in DOMAIN calls PROVE (k = 1 /\ ~ u.role) = (Len(texts) + k = 1)
      OBVIOUS
    <3>1. (Len(texts) + k = 1) <=> (k = 1 /\ Len(texts) = 0)
      BY <2>1, <2>2
    <3>2. (~ u.role) <=> Len(texts) = 0
      BY <1>3, <1>5, <2>2
    <3> QED
      BY <3>1, <3>2
  <2>4. CallChunks(calls, Len(texts)) = [k \in DOMAIN calls |->
                  [index |-> 0, role |-> Len(texts) + k = 1,
                   delta |-> T!Delta("call", calls[k], k - 1), finish |-> ""]]
    BY Zenon DEF CallChunks, CallChunk
  <2> QED
    BY <1>10, <2>3, <2>4, Zenon
<1>13. PICK a : a = chunks
  OBVIOUS
<1>14. a \in Seq(ChunkRows) /\ w \in Seq(ChunkRows) /\ LastChunk(0, why) \in ChunkRows
  <2>1. a \in Seq(ChunkRows)
    BY <1>3, <1>7, <1>13, TextChunksGrow
  <2>2. w \in Seq(ChunkRows)
    <3>1. Len(texts) \in Nat
      BY <1>7
    <3>2. w \in CallsTold(calls)
      BY <1>6, <1>12, <3>1, CallChunksAre
    <3>3. w \in Seq(ChunksOfKind(0, "call")) /\ ChunksOfKind(0, "call") \subseteq ChunkRows
      BY <3>2, Zenon DEF CallsTold, ChunksOfKind
    <3> QED
      BY <3>3
  <2>3. LastChunk(0, why) \in ChunkRows
    <3>1. 0 \in T!Indexes
      BY DEF T!Indexes
    <3>2. why \in Finishes
      BY <1>9, Zenon DEF Reasons
    <3> QED
      BY <3>1, <3>2, LastChunkIs
  <2> QED
    BY <2>1, <2>2, <2>3
<1>15. PICK z : z = LastChunk(0, why)
  OBVIOUS
<1>16. a \o (w \o <<z>>) = Append(a \o w, z)
  <2>1. w \o <<z>> = Append(w, z)
    BY <1>14, <1>15, AppendIsConcat
  <2>2. IsSeq(a) /\ IsSeq(w)
    BY <1>14 DEF IsSeq
  <2>3. a \o Append(w, z) = Append(a \o w, z)
    BY <2>2, ConcatOneMore
  <2> QED
    BY <2>1, <2>3
<1>17. chunks \o T!KiroFinish = Streamed(texts, calls, why)
  BY <1>3, <1>11, <1>12, <1>13, <1>15, <1>16 DEF Streamed
<1> QED
  BY <1>9, <1>17 DEF texts, calls

(* A Kiro stream that has ended told the whole answer, once.                  *)
LEMMA KiroEnds ==
  ASSUME dialect = "kiro", KiroTold, T!Finish
  PROVE  T!StreamTellsTheAnswer' /\ T!ChunksAreWellFormed'
<1> DEFINE texts == T!KiroTexts(input)
           calls == T!CallsAt(input, T!Starts(input))
<1>1. halves = st.half /\ halves = 2 * Len(input) /\ chunks' = chunks \o T!KiroFinish /\ dialect' = "kiro" /\ input' = input
  BY DEF T!Finish
<1>2. PICK why \in Reasons : chunks' = Streamed(texts, calls, why)
  BY <1>1, KiroFinishes
<1>3. PICK g : g = chunks'
  OBVIOUS
<1>4. input \in Seq(FrameRows)
  BY DEF KiroTold
<1>5. calls \in Seq(ToolCalls)
  BY <1>4, CallsGrow, Zenon DEF T!Starts
<1>6. texts \in Seq(Said)
  BY <1>4, TextsAreSaid
<1> HIDE DEF texts, calls
<1>7. /\ g \in WholeChoice /\ T!Having(g, "index", 0) = g /\ T!Having(g, "index", 1) = <<>>
      /\ Gathered(g, 0, "content") = texts /\ Gathered(g, 0, "call") = calls
      /\ Gathered(g, 0, "reasoning") = <<>>
  BY <1>2, <1>3, <1>5, <1>6, StreamedIsWhole
<1>8. \A i \in T!Indexes : i = 0 \/ i = 1
  BY DEF T!Indexes
<1>9. T!ChunksAreWellFormed'
  <2> SUFFICES ASSUME NEW i \in T!Indexes
               PROVE  T!Having(chunks', "index", i) \in WholeChoice
    BY Zenon DEF T!ChunksAreWellFormed, T!ChunksOf, WholeChoice
  <2>1. <<>> \in WholeChoice
    BY DEF WholeChoice
  <2> QED
    BY <1>3, <1>7, <1>8, <2>1
<1>10. T!StreamTellsTheAnswer'
  <2> SUFFICES ASSUME NEW i \in T!Indexes, T!Having(chunks', "index", i) # <<>>
               PROVE  /\ T!Deltas(i, "content")' = T!Choice(i).content'
                      /\ T!Deltas(i, "reasoning")' = T!Choice(i).reasoning'
                      /\ T!Deltas(i, "call")' = T!Choice(i).calls'
    BY DEF T!StreamTellsTheAnswer, T!ChunksOf
  <2>1. i = 0
    BY <1>3, <1>7, <1>8
  <2>2. \A k : T!Deltas(i, k)' = Gathered(g, 0, k)
    BY <1>3, <2>1 DEF T!Deltas, T!ChunksOf, Gathered
  <2>3. T!Choice(i)' = T!KiroChoice'
    BY <1>1 DEF T!Choice
  <2>4. /\ T!KiroChoice.content' = texts /\ T!KiroChoice.reasoning' = <<>> /\ T!KiroChoice.calls' = calls
    BY <1>1 DEF T!KiroChoice, texts, calls
  <2> QED
    BY <1>7, <2>2, <2>3, <2>4
<1> QED
  BY <1>9, <1>10

-----------------------------------------------------------------------------
(* The conversations: what a provider is told of what the client has said.    *)

MadeCalls == [id : Ids, name : STRING]
SayingRows == [role : STRING, text : BOOLEAN, image : STRING, calls : Seq(MadeCalls), block : STRING,
               id : Ids, name : STRING, args : STRING]

(* A call without a name is dropped, by a fold.                               *)
LEMMA NamedFolds ==
  ASSUME NEW m, IsSeq(m.calls)
  PROVE  C!Named(m) = Folded("named", NoRoute, <<>>, m.calls, Len(m.calls))
<1> DEFINE s == m.calls
           Going(it) == [t \in SUBSET DOMAIN s |->
                    IF t = {} THEN <<>>
                    ELSE LET x == C!Max(t) IN IF s[x].name = "" THEN it[t \ {x}] ELSE Append(it[t \ {x}], s[x])]
           It == CHOOSE it : it = Going(it)
<1>1. C!Named(m) = It[DOMAIN s]
  BY DEF C!Named, C!FoldLeft, C!MapThenFoldSet
<1>2. DOMAIN s = 1 .. Len(s) /\ Len(s) \in Nat
  BY SeqDomain
<1>0. \A X : C!Max(X) = O!Max(X)
  BY DEF C!Max, O!Max
<1>3. ASSUME NEW it PROVE Going(it) = Folding("named", NoRoute, <<>>, s, Len(s), it)
  BY <1>0, <1>2, Zenon DEF Folding, Step
<1> HIDE DEF Going
<1>4. \E it : it = Going(it)
  BY <1>2, <1>3, FoldingExists DEF IsFold
<1>5. IsFold("named", NoRoute, <<>>, s, Len(s), It)
  BY <1>3, <1>4 DEF IsFold
<1> HIDE DEF It
<1> QED
  BY <1>1, <1>2, <1>5, FoldChosen

(* The calls with a name are calls.                                           *)
LEMMA NamedIsSeq ==
  ASSUME NEW m \in Sayings
  PROVE  C!Named(m) \in Seq(MadeCalls)
<1> DEFINE v == m.calls
           P == [n \in Nat |-> Seq(MadeCalls)]
<1>0. m \in SayingRows
  BY TranslationAssumption DEF TranslationWellFormed, SayingRows, MadeCalls
<1>7. v \in Seq(MadeCalls)
  BY <1>0 DEF SayingRows
<1> HIDE DEF v
<1>1. v \in Seq(MadeCalls) /\ Len(v) \in Nat
  BY <1>7
<1>2. IsSeq(v)
  BY <1>1 DEF IsSeq
<1>3. <<>> \in P[0]
  OBVIOUS
<1>4. ASSUME NEW n \in 0 .. Len(v) - 1, NEW y \in P[n] PROVE Step("named", NoRoute, y, v[n + 1]) \in P[n + 1]
  <2>1. n \in Nat /\ n + 1 \in Nat /\ n + 1 \in DOMAIN v
    BY <1>1
  <2>2. y \in Seq(MadeCalls) /\ v[n + 1] \in MadeCalls
    BY <1>1, <2>1
  <2>3. Append(y, v[n + 1]) \in Seq(MadeCalls)
    BY <2>2, AppendProperties
  <2>4. Step("named", NoRoute, y, v[n + 1]) \in Seq(MadeCalls)
    BY <2>2, <2>3, Zenon DEF Step
  <2> QED
    BY <2>1, <2>4
<1> HIDE DEF P
<1>5. Folded("named", NoRoute, <<>>, v, Len(v)) \in P[Len(v)]
  BY <1>1, <1>3, <1>4, FoldKeeps
<1>6. C!Named(m) = Folded("named", NoRoute, <<>>, v, Len(v))
  BY <1>2, NamedFolds DEF v
<1> QED
  BY <1>1, <1>5, <1>6 DEF P

-----------------------------------------------------------------------------
(* What a call's id is named by the messages up to n.                         *)
GivenIn(m, d) == {k \in DOMAIN m.calls : m.role = "assistant" /\ m.calls[k].id = d /\ m.calls[k].name # ""}

CallsIn(ts, n, d) ==
  {x \in UNION {{i} \X DOMAIN ts[i].calls : i \in 1 .. n} :
     /\ ts[x[1]].role = "assistant"
     /\ ts[x[1]].calls[x[2]].id = d /\ ts[x[1]].calls[x[2]].name # ""}

NameIn(ts, n, d) ==
  LET calls == CallsIn(ts, n, d)
  IN  IF calls = {} THEN "" ELSE ts[C!LatestOf(calls)[1]].calls[C!LatestOf(calls)[2]].name

(* The calls of an id, with one message more.                                 *)
LEMMA CallsOneMore ==
  ASSUME NEW ts, NEW n \in Nat, NEW d
  PROVE  CallsIn(ts, n + 1, d) = CallsIn(ts, n, d) \cup ({n + 1} \X GivenIn(ts[n + 1], d))
<1>1. 1 .. n + 1 = (1 .. n) \cup {n + 1}
  OBVIOUS
<1> DEFINE Known(x) == /\ ts[x[1]].role = "assistant"
                       /\ ts[x[1]].calls[x[2]].id = d /\ ts[x[1]].calls[x[2]].name # ""
           U(k) == UNION {{i} \X DOMAIN ts[i].calls : i \in 1 .. k}
           m == n + 1
           G == {m} \X GivenIn(ts[m], d)
<1>2. U(n + 1) = U(n) \cup ({m} \X DOMAIN ts[m].calls)
  BY <1>1
<1>3. G = {x \in {m} \X DOMAIN ts[m].calls : Known(x)}
  <2>1. ASSUME NEW x \in G PROVE x \in {m} \X DOMAIN ts[m].calls /\ Known(x)
    BY Zenon DEF GivenIn
  <2>2. ASSUME NEW x \in {m} \X DOMAIN ts[m].calls, Known(x) PROVE x \in G
    BY <2>2, Zenon DEF GivenIn
  <2> QED
    BY <2>1, <2>2, Zenon
<1>4. CallsIn(ts, n + 1, d) = {x \in U(n + 1) : Known(x)} /\ CallsIn(ts, n, d) = {x \in U(n) : Known(x)}
  BY DEF CallsIn
<1> HIDE DEF Known, U, G, m
<1>5. CallsIn(ts, n + 1, d) = CallsIn(ts, n, d) \cup G
  BY <1>2, <1>3, <1>4
<1> QED
  BY <1>5 DEF G, m

(* Numbers up to n have a greatest among them.                                *)
LEMMA GreatestExists ==
  \A n \in Nat : \A X \in SUBSET (1 .. n) : X # {} => \E m \in X : \A y \in X : y <= m
<1> DEFINE Q == {n \in Nat : \A X \in SUBSET (1 .. n) : X # {} => \E m \in X : \A y \in X : y <= m}
<1>1. 0 \in Q
  <2>1. 1 .. 0 = {}
    OBVIOUS
  <2> QED
    BY <2>1
<1>2. ASSUME NEW n \in Nat, n \in Q PROVE n + 1 \in Q
  <2> SUFFICES ASSUME NEW X \in SUBSET (1 .. n + 1), X # {} PROVE \E m \in X : \A y \in X : y <= m
    OBVIOUS
  <2>1. CASE n + 1 \in X
    BY <2>1
  <2>2. CASE n + 1 \notin X
    <3>1. \A x \in X : x \in 1 .. n
      BY <2>2
    <3> QED
      BY <1>2, <3>1
  <2> QED
    BY <2>1, <2>2
<1>3. Nat \subseteq Q
  <2> HIDE DEF Q
  <2> QED
    BY <1>1, <1>2, Counting
<1> QED
  BY <1>3

(* They have a latest, where there are any, of the last message that gives one. *)
LatestsOf(X) == {x \in X : \A y \in X : y[1] < x[1] \/ (y[1] = x[1] /\ y[2] <= x[2])}

(* The call that is later than all others is the one that is chosen.          *)
LEMMA LatestIs ==
  ASSUME NEW X, NEW x \in LatestsOf(X), X \subseteq Nat \X Nat
  PROVE  C!LatestOf(X) = x /\ x \in X
<1>1. C!LatestOf(X) \in LatestsOf(X)
  BY DEF C!LatestOf, LatestsOf
<1>2. PICK y : y = C!LatestOf(X)
  OBVIOUS
<1>3. /\ x \in Nat \X Nat /\ y \in Nat \X Nat
      /\ y[1] < x[1] \/ (y[1] = x[1] /\ y[2] <= x[2])
      /\ x[1] < y[1] \/ (x[1] = y[1] /\ x[2] <= y[2])
  BY <1>1, <1>2 DEF LatestsOf
<1>4. x[1] = y[1] /\ x[2] = y[2] /\ x = <<x[1], x[2]>> /\ y = <<y[1], y[2]>>
  BY <1>3
<1> QED
  BY <1>2, <1>4 DEF LatestsOf

(* Of a message's calls with an id, one is the last.                          *)
LEMMA GreatestGiven ==
  ASSUME NEW m, IsSeq(m.calls), NEW d, GivenIn(m, d) # {}
  PROVE  /\ C!Max(GivenIn(m, d)) \in GivenIn(m, d) /\ GivenIn(m, d) \subseteq Nat
         /\ \A k \in GivenIn(m, d) : k <= C!Max(GivenIn(m, d))
<1> DEFINE G == GivenIn(m, d)
<1>1. Len(m.calls) \in Nat /\ DOMAIN m.calls = 1 .. Len(m.calls)
  BY SeqDomain
<1>2. G \in SUBSET (1 .. Len(m.calls)) /\ G # {}
  BY <1>1, Zenon DEF GivenIn
<1> HIDE DEF G
<1>3. \E k \in G : \A y \in G : y <= k
  BY <1>1, <1>2, GreatestExists
<1>4. \A k, y \in G : y <= k <=> k >= y
  BY <1>2
<1>5. \E k \in G : \A y \in G : k >= y
  BY <1>3, <1>4
<1>6. C!Max(G) \in G /\ \A y \in G : C!Max(G) >= y
  BY <1>5 DEF C!Max
<1>7. \A y \in G : y <= C!Max(G)
  BY <1>4, <1>6
<1> QED
  BY <1>2, <1>6, <1>7 DEF G

(* The calls of an id are in the messages, and have names.                    *)
LEMMA CallsAreCounted ==
  ASSUME NEW ts, NEW n \in Nat, NEW d, \A i \in 1 .. n : IsSeq(ts[i].calls)
  PROVE  /\ CallsIn(ts, n, d) \subseteq (1 .. n) \X Nat
         /\ \A x \in CallsIn(ts, n, d) : /\ ts[x[1]].calls[x[2]].name # "" /\ x[1] \in 1 .. n
                                        /\ x[2] \in DOMAIN ts[x[1]].calls
<1> SUFFICES ASSUME NEW x \in CallsIn(ts, n, d)
             PROVE  /\ x \in (1 .. n) \X Nat /\ ts[x[1]].calls[x[2]].name # "" /\ x[1] \in 1 .. n
                    /\ x[2] \in DOMAIN ts[x[1]].calls
  BY Zenon
<1>1. PICK i \in 1 .. n : x \in {i} \X DOMAIN ts[i].calls
  BY Zenon DEF CallsIn
<1>2. DOMAIN ts[i].calls = 1 .. Len(ts[i].calls) /\ Len(ts[i].calls) \in Nat
  BY SeqDomain
<1>3. x \in {i} \X (1 .. Len(ts[i].calls))
  BY <1>1, <1>2
<1>4. x[1] = i /\ x[2] \in 1 .. Len(ts[i].calls) /\ x \in (1 .. n) \X Nat
  BY <1>2, <1>3
<1>5. ts[x[1]].calls[x[2]].name # ""
  BY Zenon DEF CallsIn
<1> QED
  BY <1>2, <1>4, <1>5, Zenon

(* The last message that gives the name gives it by its last such call.       *)
LEMMA LatestOneMore ==
  ASSUME NEW ts, NEW n \in Nat, NEW d, \A i \in 1 .. n + 1 : IsSeq(ts[i].calls),
         GivenIn(ts[n + 1], d) # {}
  PROVE  <<n + 1, C!Max(GivenIn(ts[n + 1], d))>> \in LatestsOf(CallsIn(ts, n + 1, d))
<1> DEFINE G == GivenIn(ts[n + 1], d)
           k == C!Max(G)
           B == CallsIn(ts, n, d)
           a == <<n + 1, k>>
<1>1. k \in G /\ G \subseteq Nat /\ \A j \in G : j <= k
  BY GreatestGiven
<1>0. \A i \in 1 .. n : IsSeq(ts[i].calls)
  OBVIOUS
<1>2. B \subseteq (1 .. n) \X Nat
  BY <1>0, CallsAreCounted, Zenon
<1>3. CallsIn(ts, n + 1, d) = B \cup ({n + 1} \X G)
  BY CallsOneMore
<1> HIDE DEF G, k, B
<1>4. a \in {n + 1} \X G /\ a[1] = n + 1 /\ a[2] = k
  BY <1>1
<1>5. ASSUME NEW y \in {n + 1} \X G PROVE y[1] = a[1] /\ y[2] <= a[2]
  BY <1>1, <1>4
<1>6. ASSUME NEW y \in B PROVE y[1] < a[1]
  BY <1>2, <1>4
<1> HIDE DEF a
<1>7. a \in LatestsOf(B \cup ({n + 1} \X G))
  BY <1>4, <1>5, <1>6 DEF LatestsOf
<1> QED
  BY <1>3, <1>7 DEF a, k, G

(* If an id was called at all, one call was the latest.                       *)
LEMMA LatestExists ==
  ASSUME NEW ts, NEW d, NEW m \in Nat, \A i \in 1 .. m : IsSeq(ts[i].calls)
  PROVE  \A n \in 0 .. m : CallsIn(ts, n, d) # {} => LatestsOf(CallsIn(ts, n, d)) # {}
<1> DEFINE F(n) == CallsIn(ts, n, d)
           Q == {n \in Nat : n <= m => (F(n) # {} => LatestsOf(F(n)) # {})}
<1>1. 0 \in Q
  <2>1. F(0) = {}
    BY DEF CallsIn
  <2> HIDE DEF F
  <2> QED
    BY <2>1
<1>2. ASSUME NEW n \in Nat, n \in Q PROVE n + 1 \in Q
  <2> SUFFICES ASSUME n + 1 <= m, F(n + 1) # {} PROVE LatestsOf(F(n + 1)) # {}
    OBVIOUS
  <2>1. \A i \in 1 .. n + 1 : IsSeq(ts[i].calls)
    OBVIOUS
  <2>2. F(n + 1) = F(n) \cup ({n + 1} \X GivenIn(ts[n + 1], d))
    BY CallsOneMore
  <2>3. CASE GivenIn(ts[n + 1], d) # {}
    <3>1. <<n + 1, C!Max(GivenIn(ts[n + 1], d))>> \in LatestsOf(F(n + 1))
      BY <2>1, <2>3, LatestOneMore
    <3> QED
      BY <3>1
  <2>4. CASE GivenIn(ts[n + 1], d) = {}
    <3>1. F(n + 1) = F(n) /\ n <= m
      BY <2>2, <2>4
    <3> HIDE DEF F
    <3> QED
      BY <1>2, <3>1
  <2> QED
    BY <2>3, <2>4
<1>3. Nat \subseteq Q
  <2> HIDE DEF Q
  <2> QED
    BY <1>1, <1>2, Counting
<1> QED
  BY <1>3

(* So the one that is chosen is one of them.                                  *)
LEMMA LatestChosen ==
  ASSUME NEW ts, NEW n \in Nat, NEW d, \A i \in 1 .. n : IsSeq(ts[i].calls), CallsIn(ts, n, d) # {}
  PROVE  C!LatestOf(CallsIn(ts, n, d)) \in CallsIn(ts, n, d)
<1> DEFINE B == CallsIn(ts, n, d)
<1>0. n \in 0 .. n
  OBVIOUS
<1>1. LatestsOf(B) # {}
  BY <1>0, LatestExists
<1>2. PICK x : x \in LatestsOf(B)
  BY <1>1
<1>3. B \subseteq (1 .. n) \X Nat
  BY CallsAreCounted, Zenon
<1> HIDE DEF B
<1>4. B \subseteq Nat \X Nat
  BY <1>3
<1>5. C!LatestOf(B) = x /\ x \in B
  BY <1>2, <1>4, LatestIs
<1> QED
  BY <1>5 DEF B

(* So they are named by the last message that names them, and by what was     *)
(* said up to there.                                                          *)
LEMMA NameOneMore ==
  ASSUME NEW ts, NEW n \in Nat, NEW d, \A i \in 1 .. n + 1 : IsSeq(ts[i].calls)
  PROVE  NameIn(ts, n + 1, d) =
           IF GivenIn(ts[n + 1], d) = {} THEN NameIn(ts, n, d)
           ELSE ts[n + 1].calls[C!Max(GivenIn(ts[n + 1], d))].name
<1> DEFINE G == GivenIn(ts[n + 1], d)
           B == CallsIn(ts, n + 1, d)
<1>1. CallsIn(ts, n + 1, d) = CallsIn(ts, n, d) \cup ({n + 1} \X G)
  BY CallsOneMore
<1>2. CASE G = {}
  <2>1. CallsIn(ts, n + 1, d) = CallsIn(ts, n, d)
    BY <1>1, <1>2
  <2> QED
    BY <1>2, <2>1, Zenon DEF NameIn
<1>3. CASE G # {}
  <2> DEFINE a == <<n + 1, C!Max(G)>>
  <2>1. a \in LatestsOf(B)
    BY <1>3, LatestOneMore
  <2>2. n + 1 \in Nat /\ B \subseteq Nat \X Nat
    <3>0. n + 1 \in Nat
      OBVIOUS
    <3>1. B \subseteq (1 .. n + 1) \X Nat
      BY <3>0, CallsAreCounted, Zenon
    <3> HIDE DEF B
    <3> QED
      BY <3>0, <3>1
  <2>3. a[1] = n + 1 /\ a[2] = C!Max(G)
    OBVIOUS
  <2> HIDE DEF a, B
  <2>4. C!LatestOf(B) = a /\ a \in B
    BY <2>1, <2>2, LatestIs
  <2>5. B # {} /\ NameIn(ts, n + 1, d) = IF B = {} THEN "" ELSE ts[C!LatestOf(B)[1]].calls[C!LatestOf(B)[2]].name
    BY <2>4 DEF NameIn, B
  <2> HIDE DEF G
  <2> QED
    BY <1>3, <2>3, <2>4, <2>5, Zenon DEF G
<1> QED
  BY <1>2, <1>3

(* A client's messages are what they are said to be.                          *)
LEMMA SayingsTyped == Sayings \subseteq SayingRows
BY TranslationAssumption DEF TranslationWellFormed, SayingRows, MadeCalls

(* So are the calls in them.                                                  *)
LEMMA CallsAreSeqs ==
  ASSUME NEW ts \in Seq(Sayings)
  PROVE  \A i \in DOMAIN ts : IsSeq(ts[i].calls) /\ ts[i].calls \in Seq(MadeCalls)
<1> SUFFICES ASSUME NEW i \in DOMAIN ts PROVE IsSeq(ts[i].calls) /\ ts[i].calls \in Seq(MadeCalls)
  OBVIOUS
<1>1. ts[i] \in SayingRows
  BY SayingsTyped
<1>2. ts[i].calls \in Seq(MadeCalls)
  BY <1>1 DEF SayingRows
<1> QED
  BY <1>2 DEF IsSeq

(* A message more does not change what those before it say.                   *)
LEMMA NameStays ==
  ASSUME NEW ts \in Seq(Sayings), NEW m \in Sayings, NEW n \in 0 .. Len(ts), NEW d
  PROVE  /\ CallsIn(Append(ts, m), n, d) = CallsIn(ts, n, d)
         /\ NameIn(Append(ts, m), n, d) = NameIn(ts, n, d)
<1> DEFINE us == Append(ts, m)
           B == CallsIn(ts, n, d)
<1>1. \A i \in 1 .. n : us[i] = ts[i] /\ i \in DOMAIN ts
  OBVIOUS
<1>2. n \in Nat /\ \A i \in 1 .. n : IsSeq(ts[i].calls)
  BY <1>1, CallsAreSeqs
<1> HIDE DEF us
<1>3. CallsIn(us, n, d) = B
  <2> DEFINE U(vs) == UNION {{i} \X DOMAIN vs[i].calls : i \in 1 .. n}
  <2>1. U(us) = U(ts)
    BY <1>1
  <2>2. \A x \in U(ts) : x[1] \in 1 .. n
    OBVIOUS
  <2>3. CallsIn(us, n, d) = {x \in U(us) : us[x[1]].role = "assistant" /\ us[x[1]].calls[x[2]].id = d /\ us[x[1]].calls[x[2]].name # ""}
    BY DEF CallsIn
  <2>4. CallsIn(ts, n, d) = {x \in U(ts) : ts[x[1]].role = "assistant" /\ ts[x[1]].calls[x[2]].id = d /\ ts[x[1]].calls[x[2]].name # ""}
    BY DEF CallsIn
  <2> HIDE DEF U
  <2>5. \A x \in U(ts) : us[x[1]] = ts[x[1]]
    BY <1>1, <2>2, Zenon
  <2> QED
    BY <2>1, <2>3, <2>4, <2>5, Zenon
<1>4. CASE B = {}
  BY <1>3, <1>4 DEF NameIn, us
<1>5. CASE B # {}
  <2>2. PICK x : x = C!LatestOf(B)
    OBVIOUS
  <2>5. C!LatestOf(B) = x /\ x \in B
    BY <1>2, <1>5, <2>2, LatestChosen
  <2>3. B \subseteq (1 .. n) \X Nat
    BY <1>2, CallsAreCounted, Zenon
  <2> HIDE DEF B
  <2>6. us[x[1]] = ts[x[1]]
    BY <1>1, <2>3, <2>5
  <2>7. NameIn(ts, n, d) = IF B = {} THEN "" ELSE ts[C!LatestOf(B)[1]].calls[C!LatestOf(B)[2]].name
    BY DEF NameIn, B
  <2>8. NameIn(us, n, d) = IF B = {} THEN "" ELSE us[C!LatestOf(B)[1]].calls[C!LatestOf(B)[2]].name
    BY <1>3 DEF NameIn
  <2>9. NameIn(us, n, d) = NameIn(ts, n, d)
    BY <2>5, <2>6, <2>7, <2>8, Zenon
  <2> QED
    BY <1>3, <2>9 DEF B, us
<1> QED
  BY <1>4, <1>5

(* A call that is named has a name.                                           *)
LEMMA NamedIsName ==
  ASSUME NEW ts \in Seq(Sayings), NEW n \in 0 .. Len(ts), NEW d
  PROVE  /\ NameIn(ts, n, d) \in STRING \cup {""}
         /\ NameIn(ts, n, d) = "" <=> CallsIn(ts, n, d) = {}
<1> DEFINE B == CallsIn(ts, n, d)
<1>2. n \in Nat /\ \A i \in 1 .. n : IsSeq(ts[i].calls) /\ ts[i].calls \in Seq(MadeCalls)
  BY CallsAreSeqs
<1>4. CASE B = {}
  BY <1>4 DEF NameIn
<1>5. CASE B # {}
  <2>2. PICK x : x = C!LatestOf(B)
    OBVIOUS
  <2>5. C!LatestOf(B) = x /\ x \in B
    BY <1>2, <1>5, <2>2, LatestChosen
  <2>3. /\ B \subseteq (1 .. n) \X Nat
        /\ \A y \in B : /\ ts[y[1]].calls[y[2]].name # "" /\ y[1] \in 1 .. n
                       /\ y[2] \in DOMAIN ts[y[1]].calls
    BY <1>2, CallsAreCounted, Zenon
  <2> HIDE DEF B
  <2>4. ts[x[1]].calls[x[2]].name # "" /\ x[1] \in 1 .. n /\ x[2] \in DOMAIN ts[x[1]].calls
    BY <2>3, <2>5, Zenon
  <2>10. ts[x[1]].calls \in Seq(MadeCalls)
    BY <1>2, <2>4, Zenon
  <2>6. ts[x[1]].calls[x[2]] \in MadeCalls /\ ts[x[1]].calls[x[2]].name # ""
    <3> DEFINE g == ts[x[1]].calls
               e == x[2]
    <3>1. g \in Seq(MadeCalls) /\ e \in DOMAIN g
      BY <2>4, <2>10, Zenon
    <3> HIDE DEF g, e
    <3>2. g[e] \in MadeCalls
      BY <3>1
    <3> QED
      BY <2>4, <3>2, Zenon DEF g, e
  <2>7. NameIn(ts, n, d) = IF B = {} THEN "" ELSE ts[C!LatestOf(B)[1]].calls[C!LatestOf(B)[2]].name
    BY DEF NameIn, B
  <2>8. NameIn(ts, n, d) = ts[x[1]].calls[x[2]].name
    BY <2>5, <2>7, Zenon
  <2>9. NameIn(ts, n, d) \in STRING /\ NameIn(ts, n, d) # ""
    BY <2>6, <2>8, Zenon DEF MadeCalls
  <2> QED
    BY <1>5, <2>9, Zenon DEF B
<1> QED
  BY <1>4, <1>5, Zenon

-----------------------------------------------------------------------------
(* The names that the calls' ids have been given so far.                      *)
NamesOf(ts) == [d \in Ids |-> IF d = "" THEN "" ELSE NameIn(ts, Len(ts), d)]

(* A message more names its own calls and no others.                          *)
LEMMA NamesGrow ==
  ASSUME NEW ts \in Seq(Sayings), NEW m \in Sayings
  PROVE  \A d \in Ids : NamesOf(Append(ts, m))[d] =
           IF d = "" \/ GivenIn(m, d) = {} THEN NamesOf(ts)[d] ELSE m.calls[C!Max(GivenIn(m, d))].name
<1> SUFFICES ASSUME NEW d \in Ids
             PROVE  NamesOf(Append(ts, m))[d] =
                      IF d = "" \/ GivenIn(m, d) = {} THEN NamesOf(ts)[d] ELSE m.calls[C!Max(GivenIn(m, d))].name
  BY Zenon
<1> DEFINE us == Append(ts, m)
           n == Len(ts)
<1>1. us \in Seq(Sayings) /\ Len(us) = n + 1 /\ us[n + 1] = m /\ n \in Nat /\ DOMAIN us = 1 .. n + 1
  BY AppendProperties
<1>2. n \in 0 .. Len(ts)
  BY <1>1
<1>3. NameIn(us, n, d) = NameIn(ts, n, d)
  <2> HIDE DEF n
  <2> QED
    BY <1>2, NameStays
<1> HIDE DEF us, n
<1>4. \A i \in 1 .. n + 1 : IsSeq(us[i].calls)
  BY <1>1, CallsAreSeqs
<1>5. NameIn(us, n + 1, d) = IF GivenIn(us[n + 1], d) = {} THEN NameIn(us, n, d)
                             ELSE us[n + 1].calls[C!Max(GivenIn(us[n + 1], d))].name
  BY <1>1, <1>4, NameOneMore
<1>6. NameIn(us, n + 1, d) = IF GivenIn(m, d) = {} THEN NameIn(ts, n, d) ELSE m.calls[C!Max(GivenIn(m, d))].name
  BY <1>1, <1>3, <1>5
<1>7. NamesOf(us)[d] = (IF d = "" THEN "" ELSE NameIn(us, n + 1, d)) /\ NamesOf(ts)[d] = (IF d = "" THEN "" ELSE NameIn(ts, n, d))
  BY <1>1 DEF NamesOf, n
<1> QED
  BY <1>6, <1>7, Zenon DEF us

(* The names that are kept are those that were given last.                    *)
LEMMA NamesKept ==
  ASSUME NEW ts \in Seq(Sayings), NEW m \in Sayings, names = NamesOf(ts),
         names' = IF m.role = "assistant" THEN C!NamesAfter(m) ELSE names
  PROVE  names' = NamesOf(Append(ts, m))
<1> DEFINE us == Append(ts, m)
<1>1. \A d \in Ids : NamesOf(us)[d] =
           IF d = "" \/ GivenIn(m, d) = {} THEN names[d] ELSE m.calls[C!Max(GivenIn(m, d))].name
  BY NamesGrow, Zenon
<1>2. NamesOf(us) = [d \in Ids |-> NamesOf(us)[d]] /\ names = [d \in Ids |-> names[d]]
  BY Zenon DEF NamesOf
<1> HIDE DEF us
<1>3. CASE m.role = "assistant"
  <2> DEFINE G(d) == {k \in DOMAIN m.calls : m.calls[k].id = d /\ d # "" /\ m.calls[k].name # ""}
             V(d) == IF G(d) = {} THEN names[d] ELSE m.calls[CHOOSE k \in G(d) : \A j \in G(d) : j <= k].name
  <2>1. C!NamesAfter(m) = [d \in Ids |-> V(d)]
    BY Zenon DEF C!NamesAfter
  <2>2. ASSUME NEW d \in Ids PROVE NamesOf(us)[d] = V(d)
    <3>1. CASE d = ""
      <4>1. G(d) = {}
        BY <3>1, Zenon
      <4> HIDE DEF G
      <4> QED
        BY <1>1, <3>1, <4>1, Zenon
    <3>2. CASE d # ""
      <4>1. G(d) = GivenIn(m, d)
        BY <1>3, <3>2, Zenon DEF GivenIn
      <4>2. CASE GivenIn(m, d) = {}
        <5> HIDE DEF G
        <5> QED
          BY <1>1, <4>1, <4>2, Zenon
      <4>3. CASE GivenIn(m, d) # {}
        <5>1. IsSeq(m.calls)
          <6>1. m \in SayingRows
            BY SayingsTyped
          <6> QED
            BY <6>1 DEF SayingRows, IsSeq
        <5> DEFINE H == GivenIn(m, d)
        <5>2. /\ C!Max(H) \in H /\ H \subseteq Nat
              /\ \A k \in H : k <= C!Max(H)
          BY <4>3, <5>1, GreatestGiven
        <5>3. (CHOOSE k \in H : \A j \in H : j <= k) = C!Max(H)
          <6> HIDE DEF H
          <6> DEFINE z == CHOOSE k \in H : \A j \in H : j <= k
          <6>1. z \in H /\ \A j \in H : j <= z
            BY <5>2
          <6> HIDE DEF z
          <6>2. z <= C!Max(H) /\ C!Max(H) <= z /\ z \in Nat /\ C!Max(H) \in Nat
            BY <5>2, <6>1
          <6>3. z = C!Max(H)
            BY <6>2
          <6> QED
            BY <6>3 DEF z
        <5>4. V(d) = m.calls[C!Max(H)].name
          <6> HIDE DEF G, H
          <6>1. G(d) = H /\ H # {}
            BY <4>1, <4>3 DEF H
          <6> QED
            BY <5>3, <6>1
        <5> HIDE DEF G, V
        <5> QED
          BY <1>1, <3>2, <4>3, <5>4, Zenon
      <4> QED
        BY <4>2, <4>3, Zenon
    <3> QED
      BY <3>1, <3>2, Zenon
  <2> HIDE DEF V
  <2> QED
    BY <1>2, <1>3, <2>1, <2>2 DEF us
<1>4. CASE m.role # "assistant"
  <2>1. \A d \in Ids : GivenIn(m, d) = {}
    BY <1>4, Zenon DEF GivenIn
  <2>2. \A d \in Ids : NamesOf(us)[d] = names[d]
    BY <1>1, <2>1, Zenon
  <2> QED
    BY <1>2, <1>4, <2>2 DEF us
<1> QED
  BY <1>3, <1>4

-----------------------------------------------------------------------------
(* Contents.  Of a content's parts the first is an answer's or none is.       *)
Names == STRING \cup Ids \cup {"tool", ""}
PlainRows == [kind : {"text", "inlineData", "fileData"}, from : Nat]
             \cup [kind : {"call"}, from : Nat, name : STRING, args : STRING \cup {"object", "empty"}]
             \cup [kind : {"call"}, from : Nat, name : STRING, id : Ids, args : STRING]
AnswerRows == [kind : {"response"}, from : Nat, name : Names]
              \cup [kind : {"response"}, from : Nat, name : Names, id : Ids]

(* An answer is named as its message says, and else after the call that it    *)
(* answers.                                                                   *)
NamedAs(ts, i) ==
  IF CallsIn(ts, i - 1, ts[i].id) = {} THEN ts[i].id ELSE NameIn(ts, i - 1, ts[i].id)

SoundAnswers(ts) ==
  {p \in AnswerRows : /\ p.from \in DOMAIN ts
                      /\ ts[p.from].name = "" /\ ts[p.from].id # "" => p.name = NamedAs(ts, p.from)}

SoundContents(ts) ==
  {c \in [role : {"user", "model"}, parts : Seq(PlainRows) \cup Seq(AnswerRows)] :
     c.parts # <<>> /\ c.parts[1] \in PlainRows \cup SoundAnswers(ts)}

SoundTold(ts) == [contents : Seq(SoundContents(ts)), system : Seq(PlainRows)]

(* An answer that is named stays so when more is said.                        *)
LEMMA AnswersStaySound ==
  ASSUME NEW ts \in Seq(Sayings), NEW m \in Sayings
  PROVE  SoundAnswers(ts) \subseteq SoundAnswers(Append(ts, m))
<1> SUFFICES ASSUME NEW p \in SoundAnswers(ts) PROVE p \in SoundAnswers(Append(ts, m))
  OBVIOUS
<1> DEFINE us == Append(ts, m)
           i == p.from
           d == ts[i].id
<1>1. p \in AnswerRows /\ i \in DOMAIN ts /\ (ts[i].name = "" /\ d # "" => p.name = NamedAs(ts, i))
  BY Zenon DEF SoundAnswers
<1>2. i \in DOMAIN us /\ us[i] = ts[i] /\ i - 1 \in 0 .. Len(ts)
  <2>1. i \in DOMAIN ts
    BY <1>1, Zenon
  <2> HIDE DEF i
  <2> QED
    BY <2>1
<1> DEFINE n == i - 1
<1>3. n \in 0 .. Len(ts)
  BY <1>2
<1> HIDE DEF n, i, d
<1>4. CallsIn(us, n, d) = CallsIn(ts, n, d) /\ NameIn(us, n, d) = NameIn(ts, n, d)
  BY <1>3, NameStays
<1> HIDE DEF us
<1>5. us[i].id = d /\ us[i].name = ts[i].name
  BY <1>2 DEF d
<1>6. NamedAs(us, i) = NamedAs(ts, i)
  BY <1>4, <1>5 DEF NamedAs, n, d
<1>7. us[i].name = "" /\ us[i].id # "" => p.name = NamedAs(us, i)
  BY <1>1, <1>5, <1>6, Zenon
<1> QED
  BY <1>1, <1>2, <1>7, Zenon DEF SoundAnswers, us, i

(* So do the contents.                                                        *)
LEMMA ContentsStaySound ==
  ASSUME NEW ts \in Seq(Sayings), NEW m \in Sayings, NEW cs \in Seq(SoundContents(ts))
  PROVE  cs \in Seq(SoundContents(Append(ts, m)))
<1>1. SoundAnswers(ts) \subseteq SoundAnswers(Append(ts, m))
  BY AnswersStaySound
<1>2. SoundContents(ts) \subseteq SoundContents(Append(ts, m))
  BY <1>1 DEF SoundContents
<1>3. IsSeq(cs) /\ \A k \in DOMAIN cs : cs[k] \in SoundContents(Append(ts, m))
  BY <1>2 DEF IsSeq
<1> QED
  BY <1>3, SeqDomain

(* The parts that a message has in either form.                               *)
LEMMA PartsAreContents ==
  ASSUME NEW m \in Sayings, NEW i \in Nat
  PROVE  /\ C!ContentParts(m, i) \in Seq(PlainRows)
         /\ C!GeminiCalls(m, i) \in Seq(PlainRows)
         /\ C!AgyCalls(m, i) \in Seq(PlainRows)
<1>0. m \in SayingRows /\ C!Named(m) \in Seq(MadeCalls)
  BY SayingsTyped, NamedIsSeq
<1> DEFINE g == C!Named(m)
<1>1. g \in Seq(MadeCalls) /\ DOMAIN g = 1 .. Len(g) /\ Len(g) \in Nat /\ C!Named(m) = g
  BY <1>0
<1> HIDE DEF g
<1>5. m.args \in STRING
  BY <1>0 DEF SayingRows
<1>2. C!ContentParts(m, i) \in Seq(PlainRows)
  <2>1. \A k \in {"text", "inlineData", "fileData"} : [kind |-> k, from |-> i] \in PlainRows
    BY DEF PlainRows
  <2>2. <<>> \in Seq(PlainRows) /\ \A k \in {"text", "inlineData", "fileData"} : <<[kind |-> k, from |-> i]>> \in Seq(PlainRows)
    BY <2>1
  <2>3. C!ImageParts(m, i) \in Seq(PlainRows)
    BY <2>2 DEF C!ImageParts
  <2>4. PICK a \in Seq(PlainRows) : a = IF m.text THEN <<[kind |-> "text", from |-> i]>> ELSE <<>>
    BY <2>2
  <2>5. C!ContentParts(m, i) = a \o C!ImageParts(m, i)
    BY <2>4 DEF C!ContentParts
  <2> QED
    BY <2>3, <2>4, <2>5, ConcatProperties
<1>3. C!GeminiCalls(m, i) \in Seq(PlainRows)
  <2> DEFINE a == IF m.args = "object" THEN "object" ELSE "empty"
             CallPart(k) == [kind |-> "call", from |-> i, name |-> g[k].name, args |-> a]
  <2>1. ASSUME NEW k \in DOMAIN g PROVE CallPart(k) \in PlainRows
    <3>0. g[k] \in MadeCalls
      BY <1>1
    <3>1. g[k].name \in STRING
      BY <3>0 DEF MadeCalls
    <3>2. a \in STRING \cup {"object", "empty"}
      OBVIOUS
    <3> HIDE DEF a
    <3> QED
      BY <3>1, <3>2 DEF PlainRows
  <2>2. C!GeminiCalls(m, i) = [k \in DOMAIN g |-> CallPart(k)]
    BY <1>1 DEF C!GeminiCalls
  <2> HIDE DEF CallPart
  <2> QED
    BY <1>1, <2>1, <2>2
<1>4. C!AgyCalls(m, i) \in Seq(PlainRows)
  <2> DEFINE CallPart(k) == [kind |-> "call", from |-> i, name |-> g[k].name, id |-> g[k].id, args |-> m.args]
  <2>1. ASSUME NEW k \in DOMAIN g PROVE CallPart(k) \in PlainRows
    <3>0. g[k] \in MadeCalls
      BY <1>1
    <3>1. g[k].name \in STRING /\ g[k].id \in Ids
      BY <3>0 DEF MadeCalls
    <3> QED
      BY <1>5, <3>1 DEF PlainRows
  <2>2. C!AgyCalls(m, i) = [k \in DOMAIN g |-> CallPart(k)]
    BY <1>1 DEF C!AgyCalls
  <2> HIDE DEF CallPart
  <2> QED
    BY <1>1, <2>1, <2>2
<1> QED
  BY <1>2, <1>3, <1>4

(* The name that an answer is given.                                          *)
LEMMA ResponseIsNamed ==
  ASSUME NEW ts \in Seq(Sayings), NEW m \in Sayings, names = NamesOf(ts)
  PROVE  /\ C!ResponseName(m) \in Names
         /\ m.name = "" /\ m.id # "" => C!ResponseName(m) = NamedAs(Append(ts, m), Len(ts) + 1)
<1> DEFINE us == Append(ts, m)
           n == Len(ts)
           d == m.id
<1>1. n \in 0 .. Len(ts) /\ n \in Nat /\ (n + 1) - 1 = n /\ us[n + 1] = m
  OBVIOUS
<1>2. m.name \in STRING /\ d \in Ids
  BY SayingsTyped DEF SayingRows
<1> HIDE DEF n, d
<1>3. CallsIn(us, n, d) = CallsIn(ts, n, d) /\ NameIn(us, n, d) = NameIn(ts, n, d)
  BY <1>1, NameStays
<1>4. NameIn(ts, n, d) \in STRING \cup {""} /\ (NameIn(ts, n, d) = "" <=> CallsIn(ts, n, d) = {})
  BY <1>1, NamedIsName, Zenon
<1>5. names[d] = IF d = "" THEN "" ELSE NameIn(ts, n, d)
  BY <1>2, Zenon DEF NamesOf, n
<1> HIDE DEF us
<1>6. C!ResponseName(m) = IF m.name # "" THEN m.name
        ELSE IF d = "" THEN "tool"
        ELSE IF names[d] # "" THEN names[d] ELSE d
  BY DEF C!ResponseName, d
<1>7. C!ResponseName(m) \in Names
  BY <1>2, <1>4, <1>5, <1>6, Zenon DEF Names
<1>8. NamedAs(us, n + 1) = IF CallsIn(us, n, d) = {} THEN d ELSE NameIn(us, n, d)
  BY <1>1 DEF NamedAs, d
<1>9. m.name = "" /\ d # "" => C!ResponseName(m) = NamedAs(us, n + 1)
  <2> SUFFICES ASSUME m.name = "", d # "" PROVE C!ResponseName(m) = NamedAs(us, n + 1)
    BY Zenon
  <2>1. C!ResponseName(m) = IF NameIn(ts, n, d) # "" THEN NameIn(ts, n, d) ELSE d
    BY <1>5, <1>6, Zenon
  <2>2. CASE CallsIn(ts, n, d) = {}
    BY <1>3, <1>4, <1>8, <2>1, <2>2, Zenon
  <2>3. CASE CallsIn(ts, n, d) # {}
    BY <1>3, <1>4, <1>8, <2>1, <2>3, Zenon
  <2> QED
    BY <2>2, <2>3, Zenon
<1> QED
  BY <1>7, <1>9, Zenon DEF us, n, d

Instructed(c, ps) == [c EXCEPT !.system = @ \o ps]
Speaking(c, role, ps) == [c EXCEPT !.contents = Append(@, [role |-> role, parts |-> ps])]

(* Instructions are added to the system's alone.                              *)
LEMMA InstructedIs ==
  ASSUME NEW X, NEW Y, NEW c \in [contents : X, system : Y], NEW ps
  PROVE  Instructed(c, ps) = [contents |-> c.contents, system |-> c.system \o ps]
<1> PICK a \in X, b \in Y : c = [contents |-> a, system |-> b]
  OBVIOUS
<1>1. c.contents = a /\ c.system = b
  OBVIOUS
<1>2. PICK z : z = b \o ps
  OBVIOUS
<1>3. [c EXCEPT !.system = z] = [contents |-> a, system |-> z]
  OBVIOUS
<1> QED
  BY <1>1, <1>2, <1>3 DEF Instructed

(* A content more is added to the contents alone.                             *)
LEMMA ToldChanges ==
  ASSUME NEW X, NEW Y, NEW c \in [contents : X, system : Y], NEW ps, NEW role
  PROVE  Speaking(c, role, ps) = [contents |-> Append(c.contents, [role |-> role, parts |-> ps]), system |-> c.system]
<1> PICK a \in X, b \in Y : c = [contents |-> a, system |-> b]
  OBVIOUS
<1>1. c.contents = a /\ c.system = b
  OBVIOUS
<1>2. PICK x : x = [role |-> role, parts |-> ps]
  OBVIOUS
<1>4. [c EXCEPT !.contents = Append(@, x)] = [contents |-> Append(a, x), system |-> b]
  OBVIOUS
<1> QED
  BY <1>1, <1>2, <1>4 DEF Speaking

(* A message adds at most a content, that begins as it should.                *)
LEMMA ContentIsAdded ==
  ASSUME NEW ts \in Seq(Sayings), NEW m \in Sayings, NEW c \in SoundTold(ts), NEW role \in {"user", "model"},
         NEW ps \in Seq(PlainRows) \cup Seq(AnswerRows), ps # <<>>,
         ps[1] \in PlainRows \cup SoundAnswers(Append(ts, m))
  PROVE  Speaking(c, role, ps) \in SoundTold(Append(ts, m))
<1> DEFINE us == Append(ts, m)
           x == [role |-> role, parts |-> ps]
           cs == c.contents
<1>1. cs \in Seq(SoundContents(ts)) /\ c.system \in Seq(PlainRows) /\ c = [contents |-> cs, system |-> c.system]
  BY DEF SoundTold
<1>2. cs \in Seq(SoundContents(us))
  <2> HIDE DEF cs
  <2> QED
    BY <1>1, ContentsStaySound
<1>3. x \in SoundContents(us)
  <2> HIDE DEF us
  <2> QED
    BY DEF SoundContents, us
<1> HIDE DEF us, x, cs
<1>4. Append(cs, x) \in Seq(SoundContents(us))
  BY <1>2, <1>3, AppendProperties
<1>5. Speaking(c, role, ps) = [contents |-> Append(cs, x), system |-> c.system]
  BY ToldChanges DEF SoundTold, cs, x
<1> QED
  BY <1>1, <1>4, <1>5 DEF SoundTold, x, us

(* A message more is told in sound contents.                                  *)
LEMMA GrowKeeps ==
  ASSUME NEW ts \in Seq(Sayings), NEW m \in Sayings, NEW i \in Nat, NEW c \in SoundTold(ts),
         NEW calls \in Seq(PlainRows), NEW q \in SoundAnswers(Append(ts, m))
  PROVE  C!Grow(c, m, i, calls, <<q>>) \in SoundTold(Append(ts, m))
<1> DEFINE us == Append(ts, m)
<1>1. /\ c.contents \in Seq(SoundContents(ts)) /\ c.system \in Seq(PlainRows)
      /\ c = [contents |-> c.contents, system |-> c.system]
  BY DEF SoundTold
<1>2. c.contents \in Seq(SoundContents(us))
  BY <1>1, ContentsStaySound
<1>3. c \in SoundTold(us)
  BY <1>1, <1>2 DEF SoundTold
<1>4. PICK ps : ps = C!ContentParts(m, i) \o (IF m.role = "assistant" THEN calls ELSE <<>>)
  OBVIOUS
<1>5. ps \in Seq(PlainRows)
  <2>1. C!ContentParts(m, i) \in Seq(PlainRows)
    BY PartsAreContents
  <2>2. PICK a \in Seq(PlainRows) : a = IF m.role = "assistant" THEN calls ELSE <<>>
    <3>1. <<>> \in Seq(PlainRows)
      OBVIOUS
    <3> QED
      BY <3>1
  <2> QED
    BY <1>4, <2>1, <2>2, ConcatProperties
<1>6. C!Grow(c, m, i, calls, <<q>>) =
        IF m.role = "system" THEN Instructed(c, ps)
        ELSE IF m.role = "tool" THEN Speaking(c, "user", <<q>>)
        ELSE IF ps = <<>> THEN c
        ELSE Speaking(c, IF m.role = "assistant" THEN "model" ELSE "user", ps)
  BY <1>4 DEF C!Grow, Instructed, Speaking
<1>7. Instructed(c, ps) \in SoundTold(us)
  <2>1. Instructed(c, ps) = [contents |-> c.contents, system |-> c.system \o ps]
    <3> DEFINE X == Seq(SoundContents(ts))
               Y == Seq(PlainRows)
    <3>1. c \in [contents : X, system : Y]
      BY DEF SoundTold
    <3> HIDE DEF X, Y
    <3> QED
      BY <3>1, InstructedIs
  <2>2. c.system \o ps \in Seq(PlainRows)
    BY <1>1, <1>5, ConcatProperties
  <2> QED
    BY <1>2, <2>1, <2>2 DEF SoundTold
<1>8. Speaking(c, "user", <<q>>) \in SoundTold(us)
  <2>1. PICK qs : qs = <<q>>
    OBVIOUS
  <2>2. q \in AnswerRows
    BY Zenon DEF SoundAnswers
  <2>3. qs \in Seq(PlainRows) \cup Seq(AnswerRows) /\ qs # <<>> /\ qs[1] = q
    BY <2>1, <2>2
  <2> HIDE DEF us
  <2>4. qs[1] \in PlainRows \cup SoundAnswers(Append(ts, m))
    BY <2>3
  <2>5. Speaking(c, "user", qs) \in SoundTold(us)
    BY <2>3, <2>4, ContentIsAdded DEF us
  <2> QED
    BY <2>1, <2>5
<1>9. ASSUME ps # <<>>, NEW r \in {"user", "model"}
      PROVE  Speaking(c, r, ps) \in SoundTold(us)
  <2>1. ps[1] \in PlainRows
    BY <1>5, <1>9
  <2>2. ps \in Seq(PlainRows) \cup Seq(AnswerRows) /\ ps[1] \in PlainRows \cup SoundAnswers(Append(ts, m))
    BY <1>5, <2>1
  <2> QED
    BY <1>9, <2>2, ContentIsAdded
<1> HIDE DEF us
<1>10. C!Grow(c, m, i, calls, <<q>>) \in SoundTold(us)
  <2>1. CASE m.role = "system"
    BY <1>6, <1>7, <2>1
  <2>2. CASE m.role = "tool"
    BY <1>6, <1>8, <2>2
  <2>3. CASE m.role \notin {"system", "tool"} /\ ps = <<>>
    BY <1>3, <1>6, <2>3
  <2>4. CASE m.role \notin {"system", "tool"} /\ ps # <<>>
    <3>1. PICK r \in {"user", "model"} : r = IF m.role = "assistant" THEN "model" ELSE "user"
      OBVIOUS
    <3>2. Speaking(c, r, ps) \in SoundTold(us)
      BY <1>9, <2>4
    <3>3. C!Grow(c, m, i, calls, <<q>>) = Speaking(c, r, ps)
      BY <1>6, <2>4, <3>1
    <3> QED
      BY <3>2, <3>3
  <2> QED
    BY <2>1, <2>2, <2>3, <2>4
<1> QED
  BY <1>10 DEF us

(* What the two providers are told stays so.                                  *)
LEMMA ContentsKept ==
  ASSUME NEW ts \in Seq(Sayings), NEW m \in Sayings, names = NamesOf(ts),
         gemini \in SoundTold(ts), agy \in SoundTold(ts), NEW i, i = Len(ts) + 1
  PROVE  /\ C!Grow(gemini, m, i, C!GeminiCalls(m, i), C!GeminiResponse(m, i)) \in SoundTold(Append(ts, m))
         /\ C!Grow(agy, m, i, C!AgyCalls(m, i), C!AgyResponse(m, i)) \in SoundTold(Append(ts, m))
<1> DEFINE us == Append(ts, m)
           n == C!ResponseName(m)
           p == [kind |-> "response", from |-> i, name |-> n]
           q == [kind |-> "response", from |-> i, name |-> n, id |-> m.id]
<1>0. i \in Nat /\ i \in DOMAIN us /\ us[i] = m
  OBVIOUS
<1>1. n \in Names /\ (m.name = "" /\ m.id # "" => n = NamedAs(us, i))
  BY ResponseIsNamed, Zenon
<1>2. m.id \in Ids
  BY SayingsTyped DEF SayingRows
<1>3. C!GeminiResponse(m, i) = <<p>> /\ C!AgyResponse(m, i) = <<q>>
  BY DEF C!GeminiResponse, C!AgyResponse
<1> HIDE DEF us, n
<1>4. p \in AnswerRows /\ q \in AnswerRows
  BY <1>0, <1>1, <1>2, Zenon DEF AnswerRows
<1>5. p \in SoundAnswers(us) /\ q \in SoundAnswers(us)
  BY <1>0, <1>1, <1>4, Zenon DEF SoundAnswers
<1> HIDE DEF p, q
<1>6. C!GeminiCalls(m, i) \in Seq(PlainRows) /\ C!AgyCalls(m, i) \in Seq(PlainRows)
  BY <1>0, PartsAreContents
<1>7. PICK gc \in Seq(PlainRows), ac \in Seq(PlainRows) : gc = C!GeminiCalls(m, i) /\ ac = C!AgyCalls(m, i)
  BY <1>6
<1>8. C!Grow(gemini, m, i, gc, <<p>>) \in SoundTold(us)
  BY <1>0, <1>5, GrowKeeps DEF us
<1>9. C!Grow(agy, m, i, ac, <<q>>) \in SoundTold(us)
  BY <1>0, <1>5, GrowKeeps DEF us
<1> QED
  BY <1>3, <1>7, <1>8, <1>9 DEF us

-----------------------------------------------------------------------------
(* Entries.                                                                   *)
EntryRows == [kind : {"user", "assistant"}, from : Nat, text : BOOLEAN, image : BOOLEAN,
              results : Seq(Ids), uses : Seq(Ids), system : BOOLEAN, tools : BOOLEAN]

EntriesFrom(i) == {e \in EntryRows : e.from = i /\ e.system = FALSE}

FromOf(e, i) == [e EXCEPT !.from = i]
TextOf(e, b) == [e EXCEPT !.text = b]
ImageOf(e, b) == [e EXCEPT !.image = b]
ResultsOf(e, s) == [e EXCEPT !.results = s]
UsesOf(e, s) == [e EXCEPT !.uses = s]
SystemOf(e, b) == [e EXCEPT !.system = b]
ToolsOf(e, b) == [e EXCEPT !.tools = b]

(* An entry that is made up to fill a turn stands for no message.             *)
LEMMA MadeUpIs ==
  ASSUME NEW kind \in {"user", "assistant"}
  PROVE  C!MadeUp(kind) \in EntriesFrom(0) /\ C!MadeUp(kind).kind = kind
<1>1. <<>> \in Seq(Ids)
  OBVIOUS
<1> DEFINE e == [kind |-> kind, from |-> 0, text |-> FALSE, image |-> FALSE, results |-> <<>>,
                 uses |-> <<>>, system |-> FALSE, tools |-> FALSE]
<1>2. C!MadeUp(kind) = e
  BY DEF C!MadeUp
<1>3. e \in EntryRows
  BY <1>1 DEF EntryRows
<1>4. e.from = 0 /\ e.kind = kind
  OBVIOUS
<1>5. e.system = FALSE
  OBVIOUS
<1> HIDE DEF e
<1> QED
  BY <1>2, <1>3, <1>4, <1>5 DEF EntriesFrom

(* An entry with one of its fields changed.                                   *)
LEMMA EntryChanges ==
  ASSUME NEW i, NEW e \in EntriesFrom(i)
  PROVE  /\ \A j \in Nat : FromOf(e, j) \in EntriesFrom(j)
         /\ \A b \in BOOLEAN : TextOf(e, b) \in EntriesFrom(i) /\ ImageOf(e, b) \in EntriesFrom(i)
         /\ \A s \in Seq(Ids) : ResultsOf(e, s) \in EntriesFrom(i) /\ UsesOf(e, s) \in EntriesFrom(i)
<1>1. e \in EntryRows /\ e.from = i /\ e.system = FALSE
  BY DEF EntriesFrom
<1>2. ASSUME NEW j \in Nat PROVE FromOf(e, j) \in EntriesFrom(j)
  <2>1. FromOf(e, j) \in EntryRows /\ FromOf(e, j).from = j
    BY <1>1 DEF FromOf, EntryRows
  <2>2. FromOf(e, j).system = e.system
    BY <1>1 DEF FromOf, EntryRows
  <2> QED
    BY <1>1, <2>1, <2>2 DEF EntriesFrom
<1>3. ASSUME NEW b \in BOOLEAN PROVE TextOf(e, b) \in EntriesFrom(i)
  <2>1. TextOf(e, b) \in EntryRows /\ TextOf(e, b).from = e.from
    BY <1>1 DEF TextOf, EntryRows
  <2>2. TextOf(e, b).system = e.system
    BY <1>1 DEF TextOf, EntryRows
  <2> QED
    BY <1>1, <2>1, <2>2 DEF EntriesFrom
<1>4. ASSUME NEW b \in BOOLEAN PROVE ImageOf(e, b) \in EntriesFrom(i)
  <2>1. ImageOf(e, b) \in EntryRows /\ ImageOf(e, b).from = e.from
    BY <1>1 DEF ImageOf, EntryRows
  <2>2. ImageOf(e, b).system = e.system
    BY <1>1 DEF ImageOf, EntryRows
  <2> QED
    BY <1>1, <2>1, <2>2 DEF EntriesFrom
<1>5. ASSUME NEW s \in Seq(Ids) PROVE ResultsOf(e, s) \in EntriesFrom(i)
  <2>1. ResultsOf(e, s) \in EntryRows /\ ResultsOf(e, s).from = e.from
    BY <1>1 DEF ResultsOf, EntryRows
  <2>2. ResultsOf(e, s).system = e.system
    BY <1>1 DEF ResultsOf, EntryRows
  <2> QED
    BY <1>1, <2>1, <2>2 DEF EntriesFrom
<1>6. ASSUME NEW s \in Seq(Ids) PROVE UsesOf(e, s) \in EntriesFrom(i)
  <2>1. UsesOf(e, s) \in EntryRows /\ UsesOf(e, s).from = e.from
    BY <1>1 DEF UsesOf, EntryRows
  <2>2. UsesOf(e, s).system = e.system
    BY <1>1 DEF UsesOf, EntryRows
  <2> QED
    BY <1>1, <2>1, <2>2 DEF EntriesFrom
<1> QED
  BY <1>2, <1>3, <1>4, <1>5, <1>6

(* An entry is of its message, whatever that says.                            *)
LEMMA KiroEntryIs ==
  ASSUME NEW m \in Sayings, NEW i \in Nat
  PROVE  C!KiroEntry(m, i) \in EntriesFrom(i)
<1>1. PICK kind \in {"user", "assistant"} : kind = IF m.role = "assistant" THEN "assistant" ELSE "user"
  OBVIOUS
<1>2. C!MadeUp(kind) \in EntriesFrom(0)
  BY MadeUpIs
<1>3. PICK e : e = FromOf(C!MadeUp(kind), i)
  OBVIOUS
<1>4. e \in EntriesFrom(i)
  BY <1>2, <1>3, EntryChanges
<1>5. m.id \in Ids
  BY SayingsTyped DEF SayingRows
<1>6. <<m.id>> \in Seq(Ids) /\ <<>> \in Seq(Ids)
  BY <1>5
<1>7. C!KiroCallIds(m) \in Seq(Ids)
  <2> DEFINE g == C!Named(m)
  <2>1. g \in Seq(MadeCalls) /\ C!Named(m) = g
    BY NamedIsSeq
  <2> HIDE DEF g
  <2>2. DOMAIN g = 1 .. Len(g) /\ Len(g) \in Nat /\ \A k \in DOMAIN g : g[k] \in MadeCalls
    BY <2>1
  <2>3. \A k \in DOMAIN g : g[k].id \in Ids
    BY <2>2 DEF MadeCalls
  <2>4. C!KiroCallIds(m) = [k \in DOMAIN g |-> g[k].id]
    BY <2>1 DEF C!KiroCallIds
  <2> QED
    BY <2>2, <2>3, <2>4
<1>8. PICK b \in BOOLEAN : b = (m.text \/ m.image = "link")
  BY Zenon
<1>9. PICK h \in BOOLEAN : h = (m.image = "data")
  BY Zenon
<1>10. PICK u \in Seq(Ids) : u = IF m.block = "use" THEN <<m.id>> ELSE C!KiroCallIds(m)
  BY <1>6, <1>7
<1>11. PICK a \in Seq(Ids) : a = IF m.block = "result" THEN <<m.id>> ELSE <<>>
  BY <1>6
<1>12. CASE m.role = "assistant"
  <2>1. C!KiroEntry(m, i) = UsesOf(TextOf(e, b), u)
    BY <1>1, <1>3, <1>8, <1>10, <1>12, Zenon DEF C!KiroEntry, UsesOf, TextOf, FromOf
  <2>2. TextOf(e, b) \in EntriesFrom(i)
    BY <1>4, EntryChanges
  <2> QED
    BY <2>1, <2>2, EntryChanges
<1>13. CASE m.role = "tool"
  <2>1. C!KiroEntry(m, i) = ResultsOf(e, <<m.id>>)
    BY <1>1, <1>3, <1>13, Zenon DEF C!KiroEntry, ResultsOf, FromOf
  <2> QED
    BY <1>4, <1>6, <2>1, EntryChanges
<1>14. CASE m.role \notin {"assistant", "tool"}
  <2>1. C!KiroEntry(m, i) = ResultsOf(ImageOf(TextOf(e, b), h), a)
    BY <1>1, <1>3, <1>8, <1>9, <1>11, <1>14, Zenon DEF C!KiroEntry, ResultsOf, ImageOf, TextOf, FromOf
  <2>2. TextOf(e, b) \in EntriesFrom(i)
    BY <1>4, EntryChanges
  <2>3. ImageOf(TextOf(e, b), h) \in EntriesFrom(i)
    BY <2>2, EntryChanges
  <2> QED
    BY <2>1, <2>3, EntryChanges
<1> QED
  BY <1>12, <1>13, <1>14

(* Who has spoken, and what the system prompt is of.                          *)
FromsOf(es) == {es[k].from : k \in DOMAIN es}
TurnsOf(ts) == {i \in DOMAIN ts : ts[i].role # "system"}
PromptsOf(ts) == {i \in DOMAIN ts : ts[i].role = "system" /\ (ts[i].text \/ ts[i].image = "link")}

EntriesOf(ts) ==
  {es \in Seq(EntryRows) : /\ FromsOf(es) = TurnsOf(ts)
                           /\ \A k \in DOMAIN es : es[k].system = FALSE
                           /\ \A j, k \in DOMAIN es : j < k => es[j].from < es[k].from}

PromptOf(ts) == {s \in Seq(Nat) : {s[k] : k \in DOMAIN s} = PromptsOf(ts)}

KiroHeard(ts) == [entries : EntriesOf(ts), system : PromptOf(ts)]

(* With one message more.                                                     *)
LEMMA HearsOneMore ==
  ASSUME NEW ts \in Seq(Sayings), NEW m \in Sayings
  PROVE  /\ TurnsOf(Append(ts, m)) = TurnsOf(ts) \cup (IF m.role = "system" THEN {} ELSE {Len(ts) + 1})
         /\ PromptsOf(Append(ts, m)) =
              PromptsOf(ts) \cup (IF m.role = "system" /\ (m.text \/ m.image = "link") THEN {Len(ts) + 1} ELSE {})
         /\ TurnsOf(ts) \subseteq 1 .. Len(ts)
<1> DEFINE us == Append(ts, m)
           n == Len(ts)
<1>1. /\ n \in Nat /\ DOMAIN ts = 1 .. n /\ DOMAIN us = (1 .. n) \cup {n + 1} /\ us[n + 1] = m
      /\ \A i \in 1 .. n : us[i] = ts[i]
  OBVIOUS
<1> HIDE DEF us, n
<1>2. TurnsOf(us) = TurnsOf(ts) \cup (IF m.role = "system" THEN {} ELSE {n + 1})
  BY <1>1 DEF TurnsOf
<1>3. PromptsOf(us) = PromptsOf(ts) \cup (IF m.role = "system" /\ (m.text \/ m.image = "link") THEN {n + 1} ELSE {})
  BY <1>1 DEF PromptsOf
<1>4. TurnsOf(ts) \subseteq 1 .. n
  BY <1>1 DEF TurnsOf
<1> QED
  BY <1>2, <1>3, <1>4 DEF us, n

(* An entry more stands for its message as well.                              *)
LEMMA EntriesGrow ==
  ASSUME NEW es \in Seq(EntryRows), NEW e \in EntryRows
  PROVE  /\ Append(es, e) \in Seq(EntryRows) /\ Len(Append(es, e)) = Len(es) + 1 /\ Len(es) \in Nat
         /\ DOMAIN Append(es, e) = (1 .. Len(es)) \cup {Len(es) + 1} /\ DOMAIN es = 1 .. Len(es)
         /\ \A k \in DOMAIN es : Append(es, e)[k] = es[k]
         /\ Append(es, e)[Len(es) + 1] = e
         /\ FromsOf(Append(es, e)) = FromsOf(es) \cup {e.from}
<1> DEFINE fs == Append(es, e)
           n == Len(es)
<1>1. /\ fs \in Seq(EntryRows) /\ Len(fs) = n + 1 /\ n \in Nat
      /\ DOMAIN fs = (1 .. n) \cup {n + 1} /\ DOMAIN es = 1 .. n
      /\ fs[n + 1] = e /\ \A i \in 1 .. n : fs[i] = es[i]
  BY AppendProperties
<1> HIDE DEF fs, n
<1>2. FromsOf(fs) = FromsOf(es) \cup {e.from}
  BY <1>1 DEF FromsOf
<1> QED
  BY <1>1, <1>2 DEF fs, n

(* Kiro hears a message more, once.                                           *)
LEMMA HeardGrows ==
  ASSUME NEW ts \in Seq(Sayings), NEW m \in Sayings, NEW k \in KiroHeard(ts), NEW i, i = Len(ts) + 1
  PROVE  C!Grown(k, m, i) \in KiroHeard(Append(ts, m))
<1> DEFINE us == Append(ts, m)
<1>1. PICK es \in EntriesOf(ts), sy \in PromptOf(ts) : k = [entries |-> es, system |-> sy]
  BY DEF KiroHeard
<1>2. k.entries = es /\ k.system = sy
  BY <1>1
<1>3. /\ TurnsOf(us) = TurnsOf(ts) \cup (IF m.role = "system" THEN {} ELSE {i})
      /\ PromptsOf(us) = PromptsOf(ts) \cup (IF m.role = "system" /\ (m.text \/ m.image = "link") THEN {i} ELSE {})
      /\ TurnsOf(ts) \subseteq 1 .. Len(ts)
  BY HearsOneMore
<1>4. Len(ts) \in Nat /\ i \in Nat /\ \A j \in 1 .. Len(ts) : j < i
  OBVIOUS
<1> HIDE DEF us
<1>5. /\ es \in Seq(EntryRows) /\ FromsOf(es) = TurnsOf(ts)
      /\ \A j \in DOMAIN es : es[j].system = FALSE
      /\ \A j, l \in DOMAIN es : j < l => es[j].from < es[l].from
  BY DEF EntriesOf
<1>6. sy \in Seq(Nat) /\ {sy[j] : j \in DOMAIN sy} = PromptsOf(ts)
  BY DEF PromptOf
<1>7. CASE m.role = "system"
  <2>1. PICK z : z = IF m.text \/ m.image = "link" THEN Append(sy, i) ELSE sy
    OBVIOUS
  <2>2. z \in PromptOf(us)
    <3>1. CASE m.text \/ m.image = "link"
      <4>1. /\ Append(sy, i) \in Seq(Nat) /\ Len(sy) \in Nat /\ DOMAIN sy = 1 .. Len(sy)
            /\ DOMAIN Append(sy, i) = (1 .. Len(sy)) \cup {Len(sy) + 1}
            /\ Append(sy, i)[Len(sy) + 1] = i /\ \A j \in 1 .. Len(sy) : Append(sy, i)[j] = sy[j]
        BY <1>4, <1>6, AppendProperties
      <4>2. PICK s : s = Append(sy, i)
        OBVIOUS
      <4>3. {s[j] : j \in DOMAIN s} = {sy[j] : j \in DOMAIN sy} \cup {i}
        BY <4>1, <4>2
      <4>4. PromptsOf(us) = PromptsOf(ts) \cup {i}
        BY <1>3, <1>7, <3>1
      <4>5. s \in Seq(Nat) /\ z = s
        BY <2>1, <3>1, <4>1, <4>2
      <4>6. {s[j] : j \in DOMAIN s} = PromptsOf(us)
        BY <1>6, <4>3, <4>4
      <4> QED
        BY <4>5, <4>6 DEF PromptOf
    <3>2. CASE ~(m.text \/ m.image = "link")
      <4>1. PromptsOf(us) = PromptsOf(ts) /\ z = sy
        BY <1>3, <2>1, <3>2
      <4> QED
        BY <1>6, <4>1 DEF PromptOf
    <3> QED
      BY <3>1, <3>2
  <2>3. es \in EntriesOf(us)
    <3>1. TurnsOf(us) = TurnsOf(ts)
      BY <1>3, <1>7
    <3> QED
      BY <3>1 DEF EntriesOf
  <2>4. C!Grown(k, m, i) = [k EXCEPT !.system = z]
    BY <1>2, <1>7, <2>1 DEF C!Grown
  <2>5. [k EXCEPT !.system = z] = [entries |-> es, system |-> z]
    BY <1>1
  <2>6. [entries |-> es, system |-> z] \in KiroHeard(us)
    BY <2>2, <2>3 DEF KiroHeard
  <2> QED
    BY <2>4, <2>5, <2>6 DEF us
<1>8. CASE m.role # "system"
  <2>1. PICK e \in EntriesFrom(i) : e = C!KiroEntry(m, i)
    BY <1>4, KiroEntryIs
  <2>2. e \in EntryRows /\ e.from = i /\ e.system = FALSE
    BY DEF EntriesFrom
  <2>3. PICK fs : fs = Append(es, e)
    OBVIOUS
  <2>4. /\ fs \in Seq(EntryRows) /\ Len(es) \in Nat
        /\ DOMAIN fs = (1 .. Len(es)) \cup {Len(es) + 1} /\ DOMAIN es = 1 .. Len(es)
        /\ \A j \in DOMAIN es : fs[j] = es[j]
        /\ fs[Len(es) + 1] = e
        /\ FromsOf(fs) = FromsOf(es) \cup {i}
    BY <1>5, <2>2, <2>3, EntriesGrow
  <2>5. \A j \in DOMAIN es : es[j].from < i
    <3>1. \A j \in DOMAIN es : es[j].from \in TurnsOf(ts)
      BY <1>5 DEF FromsOf
    <3> QED
      BY <1>3, <1>4, <3>1
  <2>6. \A j \in DOMAIN fs : fs[j].system = FALSE
    BY <1>5, <2>2, <2>4
  <2>7. \A j, l \in DOMAIN fs : j < l => fs[j].from < fs[l].from
    <3> SUFFICES ASSUME NEW j \in DOMAIN fs, NEW l \in DOMAIN fs, j < l PROVE fs[j].from < fs[l].from
      OBVIOUS
    <3>1. j \in DOMAIN es /\ fs[j] = es[j]
      BY <2>4
    <3>2. CASE l \in DOMAIN es
      BY <1>5, <2>4, <3>1, <3>2
    <3>3. CASE l = Len(es) + 1
      BY <2>2, <2>4, <2>5, <3>1, <3>3
    <3> QED
      BY <2>4, <3>2, <3>3
  <2>8. FromsOf(fs) = TurnsOf(us)
    BY <1>3, <1>5, <1>8, <2>4
  <2>9. fs \in EntriesOf(us)
    BY <2>4, <2>6, <2>7, <2>8 DEF EntriesOf
  <2>10. sy \in PromptOf(us)
    <3>1. PromptsOf(us) = PromptsOf(ts)
      BY <1>3, <1>8
    <3> QED
      BY <3>1 DEF PromptOf
  <2>11. C!Grown(k, m, i) = [k EXCEPT !.entries = fs]
    BY <1>2, <1>8, <2>1, <2>3 DEF C!Grown
  <2>12. [k EXCEPT !.entries = fs] = [entries |-> fs, system |-> sy]
    BY <1>1
  <2>13. [entries |-> fs, system |-> sy] \in KiroHeard(us)
    BY <2>9, <2>10 DEF KiroHeard
  <2> QED
    BY <2>11, <2>12, <2>13 DEF us
<1> QED
  BY <1>7, <1>8 DEF us

(* Entries that take turns: those said by messages in order, the others made  *)
(* up, with the system prompt told or not.                                    *)
SpeakerOf(k) == IF k % 2 = 1 THEN "user" ELSE "assistant"

Woven(F, b) ==
  {d \in Seq(EntryRows) :
     /\ \A k \in DOMAIN d : d[k].kind = SpeakerOf(k)
     /\ FromsOf(d) \ {0} = F
     /\ \A j, k \in DOMAIN d : j < k /\ d[j].from > 0 /\ d[k].from > 0 => d[j].from < d[k].from
     /\ d # <<>> => d[1].system = b}

(* What an entry in its turn adds.                                            *)
LEMMA WeaveEntry ==
  ASSUME NEW F, F \subseteq Nat, NEW b \in BOOLEAN, NEW d \in Woven(F, b), NEW e \in EntryRows,
         e.kind = SpeakerOf(Len(d) + 1), d # <<>> \/ e.system = b,
         e.from = 0 \/ (e.from > 0 /\ \A i \in F : i < e.from)
  PROVE  Append(d, e) \in Woven(F \cup ({e.from} \ {0}), b)
<1>1. /\ d \in Seq(EntryRows) /\ FromsOf(d) \ {0} = F
      /\ \A k \in DOMAIN d : d[k].kind = SpeakerOf(k)
      /\ \A j, k \in DOMAIN d : j < k /\ d[j].from > 0 /\ d[k].from > 0 => d[j].from < d[k].from
  BY DEF Woven
<1>2. d # <<>> => d[1].system = b
  BY DEF Woven
<1>3. PICK f : f = Append(d, e)
  OBVIOUS
<1>4. PICK n : n = Len(d)
  OBVIOUS
<1>5. /\ f \in Seq(EntryRows) /\ n \in Nat /\ Len(f) = n + 1
      /\ DOMAIN f = (1 .. n) \cup {n + 1} /\ DOMAIN d = 1 .. n
      /\ \A j \in DOMAIN d : f[j] = d[j]
      /\ f[n + 1] = e
      /\ FromsOf(f) = FromsOf(d) \cup {e.from}
  BY <1>1, <1>3, <1>4, EntriesGrow
<1>6. \A k \in DOMAIN f : f[k].kind = SpeakerOf(k)
  <2> SUFFICES ASSUME NEW k \in DOMAIN f PROVE f[k].kind = SpeakerOf(k)
    OBVIOUS
  <2>1. CASE k \in DOMAIN d
    BY <1>1, <1>5, <2>1
  <2>2. CASE k = n + 1
    BY <1>4, <1>5, <2>2
  <2> QED
    BY <1>5, <2>1, <2>2
<1>7. FromsOf(f) \ {0} = F \cup ({e.from} \ {0})
  BY <1>1, <1>5
<1>8. \A j, k \in DOMAIN f : j < k /\ f[j].from > 0 /\ f[k].from > 0 => f[j].from < f[k].from
  <2> SUFFICES ASSUME NEW j \in DOMAIN f, NEW k \in DOMAIN f, j < k, f[j].from > 0, f[k].from > 0
               PROVE  f[j].from < f[k].from
    OBVIOUS
  <2>1. j \in DOMAIN d /\ f[j] = d[j]
    BY <1>5
  <2>2. CASE k \in DOMAIN d
    BY <1>1, <1>5, <2>1, <2>2
  <2>3. CASE k = n + 1
    <3>1. d[j].from \in FromsOf(d) \ {0}
      BY <2>1 DEF FromsOf
    <3>2. d[j].from \in F
      BY <1>1, <3>1
    <3>3. f[k] = e /\ e.from > 0
      BY <1>5, <2>3
    <3>4. \A i \in F : i < e.from
      BY <3>3
    <3>5. d[j].from < e.from
      BY <3>2, <3>4
    <3> QED
      BY <2>1, <3>3, <3>5
  <2> QED
    BY <1>5, <2>2, <2>3
<1>9. f # <<>> => f[1].system = b
  <2>1. CASE d = <<>>
    <3>1. n = 0 /\ e.system = b
      BY <1>4, <2>1
    <3>2. f[1] = e
      BY <1>5, <3>1
    <3> QED
      BY <3>1, <3>2
  <2>2. CASE d # <<>>
    <3>1. 1 \in DOMAIN d
      BY <1>1, <2>2
    <3>2. f[1] = d[1]
      BY <1>5, <3>1
    <3> QED
      BY <1>2, <2>2, <3>2
  <2> QED
    BY <2>1, <2>2
<1>10. f \in Woven(F \cup ({e.from} \ {0}), b)
  BY <1>5, <1>6, <1>7, <1>8, <1>9 DEF Woven
<1> QED
  BY <1>3, <1>10

(* An entry that is made up for whose turn it is keeps the turns.             *)
LEMMA WeaveMadeUp ==
  ASSUME NEW F, F \subseteq Nat, NEW b \in BOOLEAN, NEW d \in Woven(F, b), NEW kind \in {"user", "assistant"},
         kind = SpeakerOf(Len(d) + 1), d # <<>> \/ b = FALSE
  PROVE  Append(d, C!MadeUp(kind)) \in Woven(F, b)
<1>1. PICK e : e = C!MadeUp(kind)
  OBVIOUS
<1>2. e \in EntriesFrom(0) /\ e.kind = kind
  BY <1>1, MadeUpIs
<1>3. e \in EntryRows /\ e.from = 0 /\ e.system = FALSE
  BY <1>2 DEF EntriesFrom
<1>4. d # <<>> \/ e.system = b
  BY <1>3
<1>5. Append(d, e) \in Woven(F \cup ({e.from} \ {0}), b)
  BY <1>2, <1>3, <1>4, WeaveEntry
<1>6. F \cup ({e.from} \ {0}) = F
  BY <1>3
<1> QED
  BY <1>1, <1>5, <1>6

(* No entries take turns.                                                     *)
LEMMA WovenNothing == \A b : <<>> \in Woven({}, b)
<1>1. <<>> \in Seq(EntryRows) /\ DOMAIN <<>> = {}
  OBVIOUS
<1>2. FromsOf(<<>>) = {}
  BY <1>1 DEF FromsOf
<1> QED
  BY <1>1, <1>2 DEF Woven

(* Who speaks last speaks in turn.                                            *)
SpokenInTurn ==
  {d \in Seq(EntryRows) :
     /\ Len(d) \in Nat /\ (d = <<>> <=> Len(d) = 0)
     /\ d # <<>> => /\ C!Last(d) \in EntryRows /\ C!Last(d).kind = SpeakerOf(Len(d))
                    /\ C!Last(d) = d[Len(d)] /\ Len(d) \in DOMAIN d
     /\ SpeakerOf(Len(d)) # SpeakerOf(Len(d) + 1)
     /\ SpeakerOf(Len(d)) \in {"user", "assistant"} /\ SpeakerOf(Len(d) + 1) \in {"user", "assistant"}}

(* Who spoke last, by how many have spoken.                                   *)
LEMMA LastSpeaker ==
  ASSUME NEW F, NEW b, NEW d \in Woven(F, b)
  PROVE  d \in SpokenInTurn
<1>1. d \in Seq(EntryRows) /\ \A k \in DOMAIN d : d[k].kind = SpeakerOf(k)
  BY DEF Woven
<1>2. Len(d) \in Nat /\ (d = <<>> <=> Len(d) = 0)
  BY <1>1
<1>3. ASSUME d # <<>>
      PROVE  /\ C!Last(d) \in EntryRows /\ C!Last(d).kind = SpeakerOf(Len(d))
             /\ C!Last(d) = d[Len(d)] /\ Len(d) \in DOMAIN d
  <2>1. Len(d) \in DOMAIN d
    BY <1>1, <1>3
  <2>2. d[Len(d)] \in EntryRows /\ d[Len(d)].kind = SpeakerOf(Len(d))
    BY <1>1, <2>1
  <2> QED
    BY <2>1, <2>2 DEF C!Last
<1>4. ASSUME NEW n \in Nat PROVE SpeakerOf(n) # SpeakerOf(n + 1) /\ SpeakerOf(n) \in {"user", "assistant"}
  <2>0. n % 2 \in {0, 1} /\ (n + 1) % 2 \in {0, 1} /\ n % 2 # (n + 1) % 2
    OBVIOUS
  <2>1. (n % 2 = 1 /\ (n + 1) % 2 # 1) \/ (n % 2 # 1 /\ (n + 1) % 2 = 1)
    BY <2>0
  <2> QED
    BY <2>1 DEF SpeakerOf
<1>5. Len(d) + 1 \in Nat
  BY <1>2
<1>6. /\ SpeakerOf(Len(d)) # SpeakerOf(Len(d) + 1)
      /\ SpeakerOf(Len(d)) \in {"user", "assistant"} /\ SpeakerOf(Len(d) + 1) \in {"user", "assistant"}
  BY <1>2, <1>4, <1>5
<1> QED
  BY <1>1, <1>2, <1>3, <1>6, Zenon DEF SpokenInTurn

(* What is missing before an entry is made up.                                *)
LEMMA WeaveStep ==
  ASSUME NEW F, F \subseteq Nat, NEW d \in Woven(F, FALSE), NEW e \in EntryRows, e.system = FALSE,
         e.from > 0, \A i \in F : i < e.from
  PROVE  d \o C!Between(d, e) \o <<e>> \in Woven(F \cup {e.from}, FALSE)
<1>1. /\ Len(d) \in Nat /\ (d = <<>> <=> Len(d) = 0)
      /\ d # <<>> => /\ C!Last(d) \in EntryRows /\ C!Last(d).kind = SpeakerOf(Len(d))
      /\ SpeakerOf(Len(d)) # SpeakerOf(Len(d) + 1)
      /\ SpeakerOf(Len(d)) \in {"user", "assistant"} /\ SpeakerOf(Len(d) + 1) \in {"user", "assistant"}
  <2>1. d \in SpokenInTurn
    BY LastSpeaker, Zenon
  <2> QED
    BY <2>1, Zenon DEF SpokenInTurn
<1>2. e.kind \in {"user", "assistant"} /\ e.from \in Nat
  BY DEF EntryRows
<1>3. PICK b \in BOOLEAN : b = FALSE
  BY Zenon
<1>4. d \in Woven(F, b) /\ e.system = b /\ IsSeq(d)
  BY <1>3 DEF Woven, IsSeq
<1>5. F \cup ({e.from} \ {0}) = F \cup {e.from}
  BY <1>2
<1>6. d = <<>> => SpeakerOf(Len(d) + 1) = "user"
  BY <1>1 DEF SpeakerOf
<1>7. CASE e.kind = SpeakerOf(Len(d) + 1)
  <2>1. C!Between(d, e) = <<>>
    <3>1. CASE d = <<>>
      BY <1>6, <1>7, <3>1 DEF C!Between
    <3>2. CASE d # <<>>
      BY <1>1, <1>7, <3>2 DEF C!Between
    <3> QED
      BY <3>1, <3>2
  <2>2. d \o <<>> \o <<e>> = Append(d, e)
    <3>1. d \o <<>> = d
      BY <1>4 DEF IsSeq
    <3>2. d \o <<e>> = Append(d, e)
      BY <1>4, AppendIsConcat DEF IsSeq
    <3> QED
      BY <3>1, <3>2
  <2>3. Append(d, e) \in Woven(F \cup ({e.from} \ {0}), b)
    BY <1>2, <1>4, <1>7, WeaveEntry
  <2> QED
    BY <1>3, <1>5, <2>1, <2>2, <2>3
<1>8. CASE e.kind # SpeakerOf(Len(d) + 1)
  <2>1. PICK kind \in {"user", "assistant"} : kind = SpeakerOf(Len(d) + 1)
    BY <1>1
  <2>2. PICK u : u = C!MadeUp(kind)
    OBVIOUS
  <2>3. C!Between(d, e) = <<u>>
    <3>1. CASE d = <<>>
      <4>1. kind = "user" /\ e.kind = "assistant"
        BY <1>2, <1>6, <1>8, <2>1, <3>1
      <4> QED
        BY <2>2, <3>1, <4>1 DEF C!Between
    <3>2. CASE d # <<>>
      <4>1. C!Last(d).kind = e.kind
        BY <1>1, <1>2, <1>8, <3>2
      <4>2. C!Other(e.kind) = kind
        BY <1>2, <1>8, <2>1 DEF C!Other
      <4> QED
        BY <2>2, <3>2, <4>1, <4>2 DEF C!Between
    <3> QED
      BY <3>1, <3>2
  <2>4. PICK f : f = Append(d, u)
    OBVIOUS
  <2>5. d \o <<u>> \o <<e>> = Append(f, e) /\ IsSeq(f) /\ Len(f) = Len(d) + 1 /\ f # <<>>
    <3>1. d \o <<u>> = f
      BY <1>4, <2>4, AppendIsConcat DEF IsSeq
    <3>2. IsSeq(f) /\ Len(f) = Len(d) + 1
      BY <1>4, <2>4, SeqGrows
    <3>3. f \o <<e>> = Append(f, e)
      BY <3>2, AppendIsConcat DEF IsSeq
    <3>4. f # <<>>
      BY <1>1, <3>2
    <3> QED
      BY <3>1, <3>2, <3>3, <3>4
  <2>6. f \in Woven(F, b)
    BY <1>3, <1>4, <2>1, <2>2, <2>4, WeaveMadeUp
  <2>7. e.kind = SpeakerOf(Len(f) + 1)
    <3>1. Len(f) \in Nat /\ SpeakerOf(Len(f)) # SpeakerOf(Len(f) + 1) /\ SpeakerOf(Len(f) + 1) \in {"user", "assistant"}
      <4>1. f \in SpokenInTurn
        BY <2>6, LastSpeaker, Zenon
      <4> QED
        BY <4>1, Zenon DEF SpokenInTurn
    <3>2. SpeakerOf(Len(f)) = kind
      BY <2>1, <2>5
    <3> QED
      BY <1>2, <1>8, <2>1, <3>1, <3>2
  <2>8. Append(f, e) \in Woven(F \cup ({e.from} \ {0}), b)
    BY <1>2, <1>4, <2>5, <2>6, <2>7, WeaveEntry
  <2> QED
    BY <1>3, <1>5, <2>3, <2>5, <2>8
<1> QED
  BY <1>7, <1>8

(* Filling the turns of a history is a fold.                                  *)
LEMMA NormalizedFolds ==
  ASSUME NEW s, IsSeq(s), s # <<>>
  PROVE  C!Normalized(s) = Folded("turns", NoRoute, <<>>, s, Len(s))
<1> DEFINE Going(it) == [t \in SUBSET DOMAIN s |->
                    IF t = {} THEN <<>>
                    ELSE LET x == C!Max(t) IN it[t \ {x}] \o C!Between(it[t \ {x}], s[x]) \o <<s[x]>>]
           It == CHOOSE it : it = Going(it)
<1>1. C!Normalized(s) = It[DOMAIN s]
  BY DEF C!Normalized, C!FoldLeft, C!MapThenFoldSet
<1>2. DOMAIN s = 1 .. Len(s) /\ Len(s) \in Nat
  BY SeqDomain
<1>0. \A X : C!Max(X) = O!Max(X)
  BY DEF C!Max, O!Max
<1>3. ASSUME NEW it PROVE Going(it) = Folding("turns", NoRoute, <<>>, s, Len(s), it)
  BY <1>0, <1>2 DEF Folding, Step
<1> HIDE DEF Going
<1>4. \E it : it = Going(it)
  BY <1>2, <1>3, FoldingExists DEF IsFold
<1>5. IsFold("turns", NoRoute, <<>>, s, Len(s), It)
  BY <1>3, <1>4 DEF IsFold
<1> HIDE DEF It
<1> QED
  BY <1>1, <1>2, <1>5, FoldChosen

(* Whatever the entries are, they take turns in the end, and none is lost.    *)
LEMMA NormalizedIsWoven ==
  ASSUME NEW ts \in Seq(Sayings), NEW es \in EntriesOf(ts)
  PROVE  C!Normalized(es) \in Woven(TurnsOf(ts), FALSE) /\ C!Normalized(es) # <<>>
<1>1. /\ es \in Seq(EntryRows) /\ FromsOf(es) = TurnsOf(ts)
      /\ \A k \in DOMAIN es : es[k].system = FALSE
      /\ \A j, k \in DOMAIN es : j < k => es[j].from < es[k].from
  BY DEF EntriesOf
<1>2. TurnsOf(ts) \subseteq Nat \ {0}
  BY DEF TurnsOf
<1>3. Len(es) \in Nat /\ DOMAIN es = 1 .. Len(es) /\ \A k \in DOMAIN es : es[k] \in EntryRows /\ es[k].from \in Nat \ {0}
  BY <1>1, <1>2 DEF FromsOf
<1>4. CASE es = <<>>
  <2>1. FromsOf(es) = {}
    BY <1>4 DEF FromsOf
  <2>2. PICK b \in BOOLEAN : b = FALSE
    BY Zenon
  <2>3. PICK d : d = <<>>
    OBVIOUS
  <2>4. d \in Woven({}, b) /\ Len(d) = 0
    BY <2>3, WovenNothing
  <2>5. "user" = SpeakerOf(Len(d) + 1)
    BY <2>4 DEF SpeakerOf
  <2>6. Append(d, C!MadeUp("user")) \in Woven({}, b)
    BY <2>2, <2>4, <2>5, WeaveMadeUp
  <2>7. Append(d, C!MadeUp("user")) = <<C!MadeUp("user")>>
    BY <2>3
  <2>8. C!Normalized(es) = <<C!MadeUp("user")>>
    BY <1>4, Zenon DEF C!Normalized
  <2>9. TurnsOf(ts) = {}
    BY <1>1, <2>1
  <2>10. C!Normalized(es) \in Woven(TurnsOf(ts), FALSE)
    BY <2>2, <2>6, <2>7, <2>8, <2>9, Zenon
  <2>11. C!Normalized(es) # <<>>
    BY <2>8
  <2> QED
    BY <2>10, <2>11
<1>5. CASE es # <<>>
  <2> DEFINE Fr(n) == {es[k].from : k \in 1 .. n}
             P == [n \in Nat |-> Woven(Fr(n), FALSE)]
  <2>1. <<>> \in P[0]
    <3>1. Fr(0) = {}
      OBVIOUS
    <3>2. <<>> \in Woven(Fr(0), FALSE)
      BY <3>1, WovenNothing
    <3> QED
      BY <3>2
  <2>2. ASSUME NEW n \in 0 .. Len(es) - 1, NEW d \in P[n]
        PROVE  Step("turns", NoRoute, d, es[n + 1]) \in P[n + 1]
    <3>9. n \in Nat /\ n + 1 \in Nat /\ n + 1 \in DOMAIN es
      BY <1>3
    <3>0. d \in Woven(Fr(n), FALSE)
      <4> HIDE DEF Fr
      <4> QED
        BY <3>9
    <3>1. n \in Nat /\ n + 1 \in Nat /\ n + 1 \in DOMAIN es /\ d \in Woven(Fr(n), FALSE)
      BY <3>0, <3>9
    <3>2. PICK e : e = es[n + 1]
      OBVIOUS
    <3>3. e \in EntryRows /\ e.system = FALSE /\ e.from > 0
      BY <1>1, <1>3, <3>1, <3>2
    <3>4. Fr(n) \subseteq Nat /\ \A i \in Fr(n) : i < e.from
      <4>1. \A k \in 1 .. n : k \in DOMAIN es /\ k < n + 1
        <5>1. n <= Len(es)
          BY <1>3
        <5> QED
          BY <1>3, <3>1, <5>1
      <4>2. \A k \in 1 .. n : es[k].from \in Nat /\ es[k].from < e.from
        BY <1>1, <1>3, <3>1, <3>2, <4>1
      <4> QED
        BY <4>2
    <3>5. Fr(n + 1) = Fr(n) \cup {e.from}
      <4>1. 1 .. n + 1 = (1 .. n) \cup {n + 1}
        BY <3>1
      <4> QED
        BY <3>2, <4>1
    <3> HIDE DEF Fr
    <3>6. d \o C!Between(d, e) \o <<e>> \in Woven(Fr(n + 1), FALSE)
      BY <3>1, <3>3, <3>4, <3>5, WeaveStep
    <3>7. Step("turns", NoRoute, d, e) = d \o C!Between(d, e) \o <<e>>
      BY DEF Step
    <3> QED
      BY <3>1, <3>2, <3>6, <3>7
  <2>3. Fr(Len(es)) = TurnsOf(ts) /\ TurnsOf(ts) # {}
    <3>1. 1 \in DOMAIN es
      BY <1>3, <1>5
    <3> QED
      BY <1>1, <1>3, <3>1 DEF FromsOf
  <2> HIDE DEF P
  <2>4. Folded("turns", NoRoute, <<>>, es, Len(es)) \in P[Len(es)]
    BY <1>3, <2>1, <2>2, FoldKeeps
  <2>5. IsSeq(es)
    BY <1>1 DEF IsSeq
  <2>6. C!Normalized(es) \in P[Len(es)]
    BY <1>5, <2>4, <2>5, NormalizedFolds
  <2> HIDE DEF Fr
  <2>7. C!Normalized(es) \in Woven(TurnsOf(ts), FALSE)
    BY <1>3, <2>3, <2>6 DEF P
  <2>8. C!Normalized(es) # <<>>
    BY <1>2, <2>3, <2>7 DEF Woven, FromsOf
  <2> QED
    BY <2>7, <2>8
<1> QED
  BY <1>4, <1>5

(* Entries like those of a sequence that takes turns take turns.              *)
Alike(d, c) ==
  {f \in Seq(EntryRows) : /\ Len(f) = Len(d) /\ (f # <<>> => f[1].system = c)
                          /\ \A k \in DOMAIN d : f[k].kind = d[k].kind /\ f[k].from = d[k].from}

(* Entries that speak in the same turns for the same messages take turns too. *)
LEMMA WovenAlike ==
  ASSUME NEW F, NEW b, NEW d \in Woven(F, b), NEW c, NEW f \in Alike(d, c)
  PROVE  f \in Woven(F, c)
<1>0. /\ f \in Seq(EntryRows) /\ Len(f) = Len(d) /\ (f # <<>> => f[1].system = c)
      /\ \A k \in DOMAIN d : f[k].kind = d[k].kind /\ f[k].from = d[k].from
  BY DEF Alike
<1>1. /\ d \in Seq(EntryRows) /\ FromsOf(d) \ {0} = F
      /\ \A k \in DOMAIN d : d[k].kind = SpeakerOf(k)
      /\ \A j, k \in DOMAIN d : j < k /\ d[j].from > 0 /\ d[k].from > 0 => d[j].from < d[k].from
  BY DEF Woven
<1>2. DOMAIN f = DOMAIN d
  BY <1>0, <1>1
<1>3. FromsOf(f) = FromsOf(d)
  BY <1>0, <1>2 DEF FromsOf
<1>4. \A k \in DOMAIN f : f[k].kind = SpeakerOf(k)
  BY <1>0, <1>1, <1>2
<1>5. \A j, k \in DOMAIN f : j < k /\ f[j].from > 0 /\ f[k].from > 0 => f[j].from < f[k].from
  BY <1>0, <1>1, <1>2
<1> QED
  BY <1>0, <1>1, <1>3, <1>4, <1>5 DEF Woven

(* The system prompt goes to the first entry, that is the user's.             *)
LEMMA EntryFlags ==
  ASSUME NEW e \in EntryRows, NEW b \in BOOLEAN
  PROVE  /\ SystemOf(e, b) \in EntryRows /\ SystemOf(e, b).kind = e.kind /\ SystemOf(e, b).from = e.from
         /\ ToolsOf(e, b) \in EntryRows /\ ToolsOf(e, b).kind = e.kind /\ ToolsOf(e, b).from = e.from
<1>1. SystemOf(e, b) \in EntryRows /\ SystemOf(e, b).kind = e.kind /\ SystemOf(e, b).from = e.from
  BY DEF SystemOf, EntryRows
<1>2. ToolsOf(e, b) \in EntryRows /\ ToolsOf(e, b).kind = e.kind /\ ToolsOf(e, b).from = e.from
  BY DEF ToolsOf, EntryRows
<1> QED
  BY <1>1, <1>2

(* Marks of prompts and of tools.                                             *)
LEMMA FlagsAre ==
  ASSUME NEW e \in EntryRows, NEW b \in BOOLEAN
  PROVE  SystemOf(e, b).system = b /\ ToolsOf(e, b).system = e.system
<1>1. SystemOf(e, b).system = b
  BY DEF SystemOf, EntryRows
<1>2. ToolsOf(e, b).system = e.system
  BY DEF ToolsOf, EntryRows
<1> QED
  BY <1>1, <1>2

(* The first to speak is the user.                                            *)
LEMMA FirstIsUsers ==
  ASSUME NEW F, NEW b, NEW d \in Woven(F, b), d # <<>>
  PROVE  (CHOOSE i \in DOMAIN d : d[i].kind = "user" /\ \A j \in 1 .. i - 1 : d[j].kind # "user") = 1
<1>1. /\ d \in Seq(EntryRows) /\ DOMAIN d = 1 .. Len(d) /\ Len(d) \in Nat /\ 1 \in DOMAIN d
      /\ \A k \in DOMAIN d : d[k].kind = SpeakerOf(k)
  BY DEF Woven
<1>2. d[1].kind = "user"
  BY <1>1 DEF SpeakerOf
<1> DEFINE i == CHOOSE i \in DOMAIN d : d[i].kind = "user" /\ \A j \in 1 .. i - 1 : d[j].kind # "user"
<1>3. i \in DOMAIN d /\ \A j \in 1 .. i - 1 : d[j].kind # "user"
  <2>1. 1 .. 1 - 1 = {}
    OBVIOUS
  <2> QED
    BY <1>1, <1>2, <2>1
<1> HIDE DEF i
<1>4. ~(1 \in 1 .. i - 1) /\ i \in Nat /\ i >= 1
  BY <1>1, <1>2, <1>3
<1>5. i = 1
  BY <1>4
<1> QED
  BY <1>5 DEF i

(* The prompts are told with the first entry, and no turn is lost.            *)
LEMMA PromptIsTold ==
  ASSUME NEW F, NEW d \in Woven(F, FALSE), d # <<>>
  PROVE  /\ kiro.system = <<>> => C!WithSystem(d) = d
         /\ kiro.system # <<>> => C!WithSystem(d) \in Woven(F, TRUE) /\ C!WithSystem(d) # <<>>
<1> DEFINE i == CHOOSE i \in DOMAIN d : d[i].kind = "user" /\ \A j \in 1 .. i - 1 : d[j].kind # "user"
<1>0. PICK a \in BOOLEAN : a = FALSE
  BY Zenon
<1>5. d \in Woven(F, a)
  BY <1>0, Zenon
<1>1. i = 1
  BY <1>5, FirstIsUsers
<1>2. C!WithSystem(d) = IF kiro.system = <<>> THEN d ELSE [d EXCEPT ![i].system = TRUE]
  BY DEF C!WithSystem
<1> HIDE DEF i
<1>3. CASE kiro.system = <<>>
  BY <1>2, <1>3
<1>4. CASE kiro.system # <<>>
  <2>1. d \in Seq(EntryRows) /\ DOMAIN d = 1 .. Len(d) /\ Len(d) \in Nat /\ 1 \in DOMAIN d
    BY DEF Woven
  <2>2. PICK b \in BOOLEAN : b = TRUE
    BY Zenon
  <2>3. PICK e : e = SystemOf(d[1], b)
    OBVIOUS
  <2>0. d[1] \in EntryRows
    BY <2>1
  <2>4. e \in EntryRows /\ e.kind = d[1].kind /\ e.from = d[1].from
    BY <2>0, <2>3, EntryFlags
  <2>5. e.system = b
    BY <2>0, <2>3, FlagsAre
  <2>6. PICK f : f = [d EXCEPT ![1] = e]
    OBVIOUS
  <2>7. f \in Seq(EntryRows) /\ Len(f) = Len(d) /\ f[1] = e /\ \A k \in DOMAIN d : k # 1 => f[k] = d[k]
    BY <2>1, <2>4, <2>6
  <2>8. C!WithSystem(d) = f
    BY <1>1, <1>2, <1>4, <2>2, <2>3, <2>6, Zenon DEF SystemOf
  <2>9. \A k \in DOMAIN d : f[k].kind = d[k].kind /\ f[k].from = d[k].from
    BY <2>4, <2>7
  <2>10. f # <<>> => f[1].system = b
    BY <2>5, <2>7
  <2>11. f \in Woven(F, b)
    <3>1. f \in Alike(d, b)
      BY <2>7, <2>9, <2>10, Zenon DEF Alike
    <3> QED
      BY <3>1, WovenAlike, Zenon
  <2>12. f # <<>>
    BY <2>1, <2>7
  <2>13. C!WithSystem(d) \in Woven(F, TRUE)
    BY <2>2, <2>8, <2>11, Zenon
  <2> QED
    BY <1>4, <2>8, <2>12, <2>13
<1> QED
  BY <1>3, <1>4

(* The last entry is what is said now, with what there is to call.            *)
LEMMA ToolsAreTold ==
  ASSUME NEW F, NEW b, NEW g \in Woven(F, b), NEW h \in Seq(EntryRows), Len(g) = Len(h) + 1,
         \A k \in DOMAIN h : h[k] = g[k], NEW t \in BOOLEAN
  PROVE  /\ Append(h, ToolsOf(g[Len(g)], t)) \in Woven(F, b)
         /\ Len(Append(h, ToolsOf(g[Len(g)], t))) = Len(g)
<1>1. PICK n : n = Len(g)
  OBVIOUS
<1>2. PICK e : e = ToolsOf(g[n], t)
  OBVIOUS
<1>3. PICK f : f = Append(h, e)
  OBVIOUS
<1>4. g \in Seq(EntryRows) /\ DOMAIN g = 1 .. n /\ n \in Nat /\ n = Len(h) + 1 /\ Len(h) \in Nat
  BY <1>1 DEF Woven
<1>5. g[n] \in EntryRows
  BY <1>4
<1>6. e \in EntryRows /\ e.kind = g[n].kind /\ e.from = g[n].from
  BY <1>2, <1>5, EntryFlags
<1>7. e.system = g[n].system
  BY <1>2, <1>5, FlagsAre
<1>8. f \in Seq(EntryRows) /\ Len(f) = n /\ f[n] = e /\ \A k \in DOMAIN h : f[k] = h[k]
  BY <1>3, <1>4, <1>6, AppendProperties
<1>9. \A k \in DOMAIN g : k \in DOMAIN h \/ k = n
  BY <1>4
<1>10. \A k \in DOMAIN g : f[k].kind = g[k].kind /\ f[k].from = g[k].from
  BY <1>6, <1>8, <1>9
<1>11. g # <<>> => g[1].system = b
  BY DEF Woven
<1>12. f # <<>> => f[1].system = b
  <2> SUFFICES ASSUME f # <<>> PROVE f[1].system = b
    OBVIOUS
  <2>1. g # <<>> /\ 1 \in DOMAIN g
    BY <1>4, <1>8
  <2>2. f[1].system = g[1].system
    BY <1>7, <1>8, <1>9, <2>1
  <2> QED
    BY <1>11, <2>1, <2>2
<1>13. Len(f) = Len(g)
  BY <1>1, <1>8
<1>14. f \in Woven(F, b)
  <2>1. f \in Alike(g, b)
    BY <1>8, <1>10, <1>12, <1>13, Zenon DEF Alike
  <2> QED
    BY <2>1, WovenAlike, Zenon
<1> QED
  BY <1>1, <1>2, <1>3, <1>13, <1>14

(* What Kiro is asked: turns, of which the last is the user's.                *)
Asking(F, b) == {d \in Woven(F, b) : d # <<>> /\ d[Len(d)].kind = "user"}

Divided(x, F, b) == \E h, c : x = [history |-> h, current |-> c] /\ Append(h, c) \in Asking(F, b)

(* What is asked now and what was said before make up the whole.              *)
LEMMA SplitIs ==
  ASSUME NEW F, F \subseteq Nat, NEW b \in BOOLEAN, NEW d \in Woven(F, b), d # <<>>, NEW t \in BOOLEAN
  PROVE  Divided([C!Split(d) EXCEPT !.current.tools = t], F, b)
<1> DEFINE Put(h, e) == [history |-> h, current |-> e]
<1>1. /\ Len(d) \in Nat /\ Len(d) # 0
      /\ C!Last(d) \in EntryRows /\ C!Last(d).kind = SpeakerOf(Len(d))
      /\ C!Last(d) = d[Len(d)] /\ Len(d) \in DOMAIN d
      /\ SpeakerOf(Len(d)) # SpeakerOf(Len(d) + 1)
      /\ SpeakerOf(Len(d)) \in {"user", "assistant"} /\ SpeakerOf(Len(d) + 1) \in {"user", "assistant"}
  <2>1. d \in SpokenInTurn
    BY LastSpeaker, Zenon
  <2>2. d # <<>>
    OBVIOUS
  <2> QED
    BY <2>1, <2>2, Zenon DEF SpokenInTurn
<1>2. d \in Seq(EntryRows)
  BY DEF Woven
<1>3. PICK g : g = IF C!Last(d).kind = "user" THEN d ELSE Append(d, C!MadeUp("user"))
  OBVIOUS
<1>4. PICK h : h = IF C!Last(d).kind = "user" THEN C!Front(d) ELSE d
  OBVIOUS
<1>5. g \in Woven(F, b) /\ g # <<>> /\ Len(g) = Len(h) + 1 /\ h \in Seq(EntryRows)
      /\ \A k \in DOMAIN h : h[k] = g[k]
  <2>1. CASE C!Last(d).kind = "user"
    <3>1. g = d /\ h = SubSeq(d, 1, Len(d) - 1)
      BY <1>3, <1>4, <2>1 DEF C!Front
    <3>4. PICK n : n = Len(d) - 1
      OBVIOUS
    <3>5. n \in Nat /\ n <= Len(d) /\ Len(d) = n + 1 /\ h = SubSeq(d, 1, n) /\ DOMAIN d = 1 .. Len(d)
      BY <1>1, <1>2, <3>1, <3>4
    <3>6. h = [k \in 1 .. n |-> d[k]]
      BY <1>2, <3>5
    <3>7. \A k \in 1 .. n : d[k] \in EntryRows
      BY <1>2, <3>5
    <3>2. h \in Seq(EntryRows) /\ Len(h) = n /\ \A k \in DOMAIN h : h[k] = d[k]
      BY <3>5, <3>6, <3>7
    <3> QED
      BY <1>1, <3>1, <3>2, <3>5
  <2>2. CASE C!Last(d).kind # "user"
    <3>1. PICK kind \in {"user", "assistant"} : kind = "user"
      OBVIOUS
    <3>2. kind = SpeakerOf(Len(d) + 1)
      BY <1>1, <2>2, <3>1
    <3>3. g = Append(d, C!MadeUp(kind)) /\ h = d
      BY <1>3, <1>4, <2>2, <3>1
    <3>4. g \in Woven(F, b)
      BY <3>2, <3>3, WeaveMadeUp
    <3>5. IsSeq(d)
      BY <1>2 DEF IsSeq
    <3>6. Len(g) = Len(d) + 1 /\ \A k \in DOMAIN d : g[k] = d[k]
      BY <3>3, <3>5, SeqGrows
    <3> QED
      BY <1>1, <1>2, <3>3, <3>4, <3>6
  <2> QED
    BY <2>1, <2>2
<1>6. g[Len(g)].kind = "user" /\ C!Split(d) = Put(h, g[Len(g)]) /\ g[Len(g)] \in EntryRows
  <2>1. CASE C!Last(d).kind = "user"
    BY <1>1, <1>3, <1>4, <2>1 DEF C!Split
  <2>2. CASE C!Last(d).kind # "user"
    <3>1. PICK u : u = C!MadeUp("user")
      OBVIOUS
    <3>2. u \in EntryRows /\ u.kind = "user"
      BY <3>1, MadeUpIs DEF EntriesFrom
    <3>3. g[Len(g)] = u
      BY <1>2, <1>3, <2>2, <3>1, <3>2
    <3>4. C!Split(d) = Put(h, u)
      BY <1>4, <2>2, <3>1 DEF C!Split
    <3> QED
      BY <3>2, <3>3, <3>4
  <2> QED
    BY <2>1, <2>2
<1>7. PICK e : e = g[Len(g)]
  OBVIOUS
<1>8. PICK c : c = ToolsOf(e, t)
  OBVIOUS
<1>9. [Put(h, e) EXCEPT !.current.tools = t] = Put(h, c)
  BY <1>8 DEF ToolsOf
<1>10. PICK f : f = Append(h, c)
  OBVIOUS
<1>11. f \in Woven(F, b) /\ Len(f) = Len(g)
  BY <1>5, <1>7, <1>8, <1>10, ToolsAreTold
<1>12. c.kind = e.kind
  BY <1>6, <1>7, <1>8, EntryFlags
<1>13. IsSeq(h) /\ f[Len(h) + 1] = c
  BY <1>5, <1>10, SeqGrows DEF IsSeq
<1>14. f # <<>> /\ f[Len(f)].kind = "user"
  <2>1. f[Len(f)] = c /\ Len(f) = Len(h) + 1 /\ Len(h) \in Nat
    BY <1>5, <1>11, <1>13
  <2>2. f # <<>>
    BY <2>1
  <2> QED
    BY <1>6, <1>7, <1>12, <2>1, <2>2
<1>15. f \in Asking(F, b)
  BY <1>11, <1>14 DEF Asking
<1>16. [C!Split(d) EXCEPT !.current.tools = t] = Put(h, c)
  BY <1>6, <1>7, <1>9
<1> QED
  BY <1>10, <1>15, <1>16 DEF Divided

(* Kiro's request.                                                            *)
KiroAsked(ts) ==
  {d \in Seq(EntryRows) : /\ PromptsOf(ts) = {} => d \in Asking(TurnsOf(ts), FALSE)
                          /\ PromptsOf(ts) # {} => d \in Asking(TurnsOf(ts), TRUE)}

(* Kiro is asked all turns, with the prompts if there are any.                *)
LEMMA KiroIsAsked ==
  ASSUME NEW ts \in Seq(Sayings), kiro \in KiroHeard(ts), options.functions \in BOOLEAN
  PROVE  \E h, c : C!KiroRequest = [history |-> h, current |-> c] /\ Append(h, c) \in KiroAsked(ts)
<1> DEFINE F == TurnsOf(ts)
<1>1. kiro.entries \in EntriesOf(ts) /\ kiro.system \in PromptOf(ts)
  BY DEF KiroHeard
<1>2. PICK es \in EntriesOf(ts) : es = kiro.entries
  BY <1>1
<1>3. PICK d : d = C!Normalized(es)
  OBVIOUS
<1>4. d \in Woven(F, FALSE) /\ d # <<>>
  BY <1>3, NormalizedIsWoven
<1>5. F \subseteq Nat
  BY DEF TurnsOf
<1>6. kiro.system = <<>> <=> PromptsOf(ts) = {}
  <2>1. kiro.system \in Seq(Nat) /\ {kiro.system[k] : k \in DOMAIN kiro.system} = PromptsOf(ts)
    BY <1>1 DEF PromptOf
  <2>2. PICK s \in Seq(Nat) : s = kiro.system
    BY <2>1
  <2>3. s = <<>> <=> {s[k] : k \in DOMAIN s} = {}
    <3>1. CASE s = <<>>
      <4>1. DOMAIN s = {}
        BY <3>1
      <4> QED
        BY <3>1, <4>1
    <3>2. CASE s # <<>>
      <4>1. 1 \in DOMAIN s
        BY <3>2
      <4>2. s[1] \in {s[k] : k \in DOMAIN s}
        BY <4>1
      <4> QED
        BY <3>2, <4>2
    <3> QED
      BY <3>1, <3>2
  <2> QED
    BY <2>1, <2>2, <2>3
<1>7. PICK t \in BOOLEAN : t = options.functions
  OBVIOUS
<1>8. PICK w : w = C!WithSystem(d)
  OBVIOUS
<1>9. C!KiroRequest = [C!Split(w) EXCEPT !.current.tools = t]
  BY <1>2, <1>3, <1>7, <1>8 DEF C!KiroRequest
<1> HIDE DEF F
<1>10. /\ kiro.system = <<>> => w = d
       /\ kiro.system # <<>> => w \in Woven(F, TRUE) /\ w # <<>>
  BY <1>4, <1>8, PromptIsTold
<1>11. ASSUME NEW b \in BOOLEAN, w \in Woven(F, b), w # <<>>
       PROVE  \E h, c : C!KiroRequest = [history |-> h, current |-> c] /\ Append(h, c) \in Asking(F, b)
  <2>1. Divided([C!Split(w) EXCEPT !.current.tools = t], F, b)
    BY <1>5, <1>11, SplitIs, Zenon
  <2> QED
    BY <1>9, <2>1, Zenon DEF Divided
<1>12. CASE PromptsOf(ts) = {}
  <2>1. PICK b \in BOOLEAN : b = FALSE
    BY Zenon
  <2>2. w \in Woven(F, b) /\ w # <<>>
    BY <1>4, <1>6, <1>10, <1>12, <2>1, Zenon
  <2>3. PICK h, c : C!KiroRequest = [history |-> h, current |-> c] /\ Append(h, c) \in Asking(F, b)
    BY <1>11, <2>2
  <2>4. Append(h, c) \in Asking(F, FALSE)
    BY <2>1, <2>3, Zenon
  <2>5. Append(h, c) \in Seq(EntryRows)
    BY <2>4 DEF Asking, Woven
  <2>6. Append(h, c) \in KiroAsked(ts)
    BY <1>12, <2>4, <2>5, Zenon DEF KiroAsked, F
  <2> QED
    BY <2>3, <2>6
<1>13. CASE PromptsOf(ts) # {}
  <2>1. PICK b \in BOOLEAN : b = TRUE
    BY Zenon
  <2>2. w \in Woven(F, b) /\ w # <<>>
    BY <1>6, <1>10, <1>13, <2>1, Zenon
  <2>3. PICK h, c : C!KiroRequest = [history |-> h, current |-> c] /\ Append(h, c) \in Asking(F, b)
    BY <1>11, <2>2
  <2>4. Append(h, c) \in Asking(F, TRUE)
    BY <2>1, <2>3, Zenon
  <2>5. Append(h, c) \in Seq(EntryRows)
    BY <2>4 DEF Asking, Woven
  <2>6. Append(h, c) \in KiroAsked(ts)
    BY <1>13, <2>4, <2>5, Zenon DEF KiroAsked, F
  <2> QED
    BY <2>3, <2>6
<1> QED
  BY <1>12, <1>13

-----------------------------------------------------------------------------
(* A request says what has been said: the answers are named, Kiro's turns are *)
(* taken, once and in order.                                                  *)
SoundRequest(ts, r) ==
  /\ r.gemini.contents \in Seq(SoundContents(ts))
  /\ r.agy.contents \in Seq(SoundContents(ts))
  /\ Append(r.kiro.history, r.kiro.current) \in KiroAsked(ts)

RequestInv ==
  /\ told \in Seq(Sayings) /\ options \in Options
  /\ names = NamesOf(told)
  /\ gemini \in SoundTold(told) /\ agy \in SoundTold(told)
  /\ kiro \in KiroHeard(told)
  /\ request = NoRequest \/ SoundRequest(told, request)

(* Nothing has been said.                                                     *)
LEMMA RequestInit ==
  ASSUME C!Init
  PROVE  RequestInv
<1>1. /\ told = <<>> /\ options \in Options /\ request = NoRequest
      /\ gemini = [contents |-> <<>>, system |-> <<>>] /\ agy = [contents |-> <<>>, system |-> <<>>]
      /\ kiro = [entries |-> <<>>, system |-> <<>>] /\ names = [d \in Ids |-> ""]
  BY Zenon DEF C!Init, C!Nothing
<1>2. told \in Seq(Sayings) /\ DOMAIN told = {} /\ Len(told) = 0
  <2>1. <<>> \in Seq(Sayings) /\ DOMAIN <<>> = {} /\ Len(<<>>) = 0
    OBVIOUS
  <2>2. told = <<>>
    BY <1>1, Zenon
  <2> QED
    BY <2>1, <2>2
<1>3. names = NamesOf(told)
  <2>1. \A d \in Ids : CallsIn(told, 0, d) = {}
    BY DEF CallsIn
  <2>2. \A d \in Ids : NameIn(told, 0, d) = ""
    BY <2>1, Zenon DEF NameIn
  <2>3. \A d \in Ids : (IF d = "" THEN "" ELSE NameIn(told, Len(told), d)) = ""
    BY <1>2, <2>2, Zenon
  <2> QED
    BY <1>1, <2>3, Zenon DEF NamesOf
<1>4. gemini \in SoundTold(told) /\ agy \in SoundTold(told)
  <2>1. <<>> \in Seq(SoundContents(told)) /\ <<>> \in Seq(PlainRows)
    OBVIOUS
  <2> QED
    BY <1>1, <2>1, Zenon DEF SoundTold
<1>5. kiro \in KiroHeard(told)
  <2>1. <<>> \in Seq(EntryRows) /\ <<>> \in Seq(Nat) /\ DOMAIN <<>> = {}
    OBVIOUS
  <2>2. TurnsOf(told) = {} /\ PromptsOf(told) = {} /\ FromsOf(<<>>) = {}
    BY <1>2, <2>1 DEF TurnsOf, PromptsOf, FromsOf
  <2>3. <<>> \in EntriesOf(told)
    BY <2>1, <2>2 DEF EntriesOf
  <2>4. <<>> \in PromptOf(told)
    BY <2>1, <2>2 DEF PromptOf
  <2> QED
    BY <1>1, <2>3, <2>4, Zenon DEF KiroHeard
<1> QED
  BY <1>1, <1>2, <1>3, <1>4, <1>5, Zenon DEF RequestInv

(* While other parts move, what has been said stays.                          *)
LEMMA RequestStays ==
  ASSUME RequestInv, UNCHANGED requestVars
  PROVE  RequestInv'
BY DEF RequestInv, requestVars

(* A message more, or the request.                                            *)
LEMMA RequestNext ==
  ASSUME RequestInv, C!Next
  PROVE  RequestInv'
<1>1. /\ told \in Seq(Sayings) /\ options \in Options /\ names = NamesOf(told)
      /\ gemini \in SoundTold(told) /\ agy \in SoundTold(told) /\ kiro \in KiroHeard(told)
  BY DEF RequestInv
<1>2. CASE C!Send
  <2>1. /\ told' = told /\ gemini' = gemini /\ agy' = agy /\ kiro' = kiro
        /\ names' = names /\ options' = options
        /\ request' = [gemini |-> C!Request("gemini", gemini, C!ToolMode),
                       agy |-> C!Request("antigravity", agy, C!AgyToolMode),
                       kiro |-> C!KiroRequest]
    BY <1>2 DEF C!Send
  <2>2. request'.gemini.contents \in Seq(SoundContents(told))
    BY <1>1, <2>1 DEF C!Request, SoundTold
  <2>3. request'.agy.contents \in Seq(SoundContents(told))
    BY <1>1, <2>1 DEF C!Request, SoundTold
  <2>4. options.functions \in BOOLEAN
    BY <1>1, TranslationAssumption DEF TranslationWellFormed
  <2>5. PICK h, c : C!KiroRequest = [history |-> h, current |-> c] /\ Append(h, c) \in KiroAsked(told)
    BY <1>1, <2>4, KiroIsAsked
  <2>6. request'.kiro.history = h /\ request'.kiro.current = c
    BY <2>1, <2>5
  <2>7. Append(request'.kiro.history, request'.kiro.current) \in KiroAsked(told)
    BY <2>5, <2>6
  <2>8. SoundRequest(told', request')
    BY <2>1, <2>2, <2>3, <2>7 DEF SoundRequest
  <2> QED
    BY <1>1, <2>1, <2>8 DEF RequestInv
<1>3. ASSUME NEW m \in Sayings, C!Read(m) PROVE RequestInv'
  <2> DEFINE i == Len(told) + 1
  <2>1. /\ request' = NoRequest /\ told' = Append(told, m) /\ options' = options
        /\ names' = IF m.role = "assistant" THEN C!NamesAfter(m) ELSE names
        /\ gemini' = C!Grow(gemini, m, i, C!GeminiCalls(m, i), C!GeminiResponse(m, i))
        /\ agy' = C!Grow(agy, m, i, C!AgyCalls(m, i), C!AgyResponse(m, i))
        /\ kiro' = C!Grown(kiro, m, i)
    BY <1>3 DEF C!Read
  <2>2. told' \in Seq(Sayings)
    BY <1>1, <2>1, AppendProperties
  <2>3. names' = NamesOf(told')
    BY <1>1, <2>1, NamesKept
  <2>4. gemini' \in SoundTold(told') /\ agy' \in SoundTold(told')
    BY <1>1, <2>1, ContentsKept
  <2>5. kiro' \in KiroHeard(told')
    BY <1>1, <2>1, HeardGrows
  <2> QED
    BY <1>1, <2>1, <2>2, <2>3, <2>4, <2>5 DEF RequestInv
<1> QED
  BY <1>2, <1>3 DEF C!Next

(* So Kiro hears every turn, and takes turns.                                 *)
LEMMA KiroIsFaithful == RequestInv => C!KiroHearsEverything /\ C!KiroTakesTurns
<1> SUFFICES ASSUME RequestInv, request # NoRequest PROVE C!KiroHearsEverything /\ C!KiroTakesTurns
  BY DEF C!KiroHearsEverything, C!KiroTakesTurns, C!Sent
<1>1. PICK es : es = Append(request.kiro.history, request.kiro.current)
  OBVIOUS
<1>2. es \in KiroAsked(told) /\ told \in Seq(Sayings)
  BY <1>1 DEF RequestInv, SoundRequest
<1>3. es \in Asking(C!Turns, FALSE) \/ es \in Asking(C!Turns, TRUE)
  BY <1>2, Zenon DEF KiroAsked, C!Turns, TurnsOf
<1>4. /\ es \in Seq(EntryRows) /\ es # <<>> /\ es[Len(es)].kind = "user"
      /\ \A k \in DOMAIN es : es[k].kind = SpeakerOf(k)
      /\ FromsOf(es) \ {0} = C!Turns
      /\ \A j, k \in DOMAIN es : j < k /\ es[j].from > 0 /\ es[k].from > 0 => es[j].from < es[k].from
  <2>1. PICK b \in BOOLEAN : es \in Asking(C!Turns, b)
    BY <1>3, Zenon
  <2> QED
    BY <2>1 DEF Asking, Woven
<1>5. C!Froms(es) = C!Turns
  <2>0. \A k \in DOMAIN es : es[k] \in EntryRows
    BY <1>4
  <2>1. \A k \in DOMAIN es : es[k].from \in Nat
    BY <2>0 DEF EntryRows
  <2>2. C!Froms(es) = FromsOf(es) \ {0}
    BY <2>1 DEF C!Froms, FromsOf
  <2> QED
    BY <1>4, <2>2
<1>6. C!Ascending(es)
  BY <1>4 DEF C!Ascending
<1>7. es[1].system = \E i \in DOMAIN told : told[i].role = "system" /\ (told[i].text \/ told[i].image = "link")
  <2>1. CASE PromptsOf(told) = {}
    <3>1. es[1].system = FALSE
      BY <1>2, <1>4, <2>1 DEF KiroAsked, Asking, Woven
    <3>2. ~ \E i \in DOMAIN told : told[i].role = "system" /\ (told[i].text \/ told[i].image = "link")
      BY <2>1 DEF PromptsOf
    <3> QED
      BY <3>1, <3>2, Zenon
  <2>2. CASE PromptsOf(told) # {}
    <3>1. es[1].system = TRUE
      BY <1>2, <1>4, <2>2 DEF KiroAsked, Asking, Woven
    <3>2. \E i \in DOMAIN told : told[i].role = "system" /\ (told[i].text \/ told[i].image = "link")
      BY <2>2 DEF PromptsOf
    <3>3. PICK b \in BOOLEAN : b = \E i \in DOMAIN told : told[i].role = "system" /\ (told[i].text \/ told[i].image = "link")
      BY Zenon
    <3>4. b = TRUE
      BY <3>2, <3>3
    <3> QED
      BY <3>1, <3>3, <3>4, Zenon
  <2> QED
    BY <2>1, <2>2
<1>8. \A k \in DOMAIN es : es[k].kind = IF k % 2 = 1 THEN "user" ELSE "assistant"
  BY <1>4 DEF SpeakerOf
<1>9. C!KiroHearsEverything
  BY <1>1, <1>5, <1>6, <1>7 DEF C!KiroHearsEverything
<1>10. C!KiroTakesTurns
  BY <1>1, <1>4, <1>8 DEF C!KiroTakesTurns
<1> QED
  BY <1>9, <1>10

(* And an answer is named after its call.                                     *)
LEMMA AnswersAreNamed == RequestInv => C!AnswersNameTheirCall
<1> SUFFICES ASSUME RequestInv, request # NoRequest, NEW c \in {"gemini", "agy"}, NEW k \in DOMAIN request[c].contents
             PROVE  LET p == request[c].contents[k].parts[1]
                        m == told[p.from]
                        calls == C!CallsBefore(p.from - 1, m.id)
                    IN  p.kind = "response" /\ m.name = "" /\ m.id # "" =>
                          p.name = IF calls = {} THEN m.id
                                   ELSE told[C!LatestOf(calls)[1]].calls[C!LatestOf(calls)[2]].name
  BY Zenon DEF C!AnswersNameTheirCall, C!Sent
<1>1. request[c].contents \in Seq(SoundContents(told))
  <2>1. SoundRequest(told, request)
    BY DEF RequestInv
  <2>2. CASE c = "gemini"
    BY <2>1, <2>2 DEF SoundRequest
  <2>3. CASE c = "agy"
    BY <2>1, <2>3 DEF SoundRequest
  <2> QED
    BY <2>2, <2>3
<1>2. PICK x \in SoundContents(told) : x = request[c].contents[k]
  BY <1>1
<1>3. PICK p \in PlainRows \cup SoundAnswers(told) : p = x.parts[1]
  BY DEF SoundContents
<1>4. p.kind = "response" => p \in SoundAnswers(told)
  BY DEF PlainRows
<1> SUFFICES ASSUME p.kind = "response", told[p.from].name = "", told[p.from].id # ""
             PROVE  LET calls == C!CallsBefore(p.from - 1, told[p.from].id)
                    IN  p.name = IF calls = {} THEN told[p.from].id
                                 ELSE told[C!LatestOf(calls)[1]].calls[C!LatestOf(calls)[2]].name
  BY <1>2, <1>3, Zenon
<1>5. p.name = NamedAs(told, p.from)
  BY <1>4, Zenon DEF SoundAnswers
<1>6. PICK calls : calls = C!CallsBefore(p.from - 1, told[p.from].id)
  BY Zenon
<1>7. CallsIn(told, p.from - 1, told[p.from].id) = calls
  BY <1>6, Zenon DEF CallsIn, C!CallsBefore
<1>8. p.name = IF calls = {} THEN told[p.from].id
               ELSE told[C!LatestOf(calls)[1]].calls[C!LatestOf(calls)[2]].name
  BY <1>5, <1>7, Zenon DEF NamedAs, NameIn
<1> QED
  BY <1>6, <1>8, Zenon

(* Thoughts and a budget for them go together, however they are asked for.    *)
LEMMA ThoughtsAreBudgeted == RequestInv => C!ThoughtsHaveABudget
<1> SUFFICES ASSUME RequestInv, options.include = "unset" PROVE C!Thinking.thoughts <=> C!Thinking.budget # 0
  BY DEF C!ThoughtsHaveABudget
<1>1. options.effort = "absent" \/ options.effort \in DOMAIN C!Efforts
  BY TranslationAssumption DEF TranslationWellFormed, RequestInv
<1>2. CASE options.budget # "absent"
  <2>1. C!Thinking = [budget |-> options.tokens, thoughts |-> C!Include(options.tokens)]
    BY <1>2 DEF C!Thinking
  <2>2. C!Include(options.tokens) = (options.tokens # 0)
    BY DEF C!Include
  <2> QED
    BY <2>1, <2>2, Zenon
<1>3. CASE options.budget = "absent" /\ options.effort # "absent"
  <2>1. C!Thinking = [budget |-> C!Efforts[options.effort], thoughts |-> options.effort # "none"]
    BY <1>3 DEF C!Thinking
  <2>2. options.effort \in {"none", "low", "medium", "high", "auto"}
    BY <1>1, <1>3 DEF C!Efforts
  <2>3. (options.effort # "none") <=> C!Efforts[options.effort] # 0
    BY <2>2 DEF C!Efforts
  <2>4. C!Thinking.budget = C!Efforts[options.effort] /\ (C!Thinking.thoughts <=> options.effort # "none")
    BY <2>1, Zenon
  <2> QED
    BY <2>3, <2>4, Zenon
<1>4. CASE options.budget = "absent" /\ options.effort = "absent"
  <2>1. C!Thinking \in {[budget |-> 8192, thoughts |-> TRUE], [budget |-> 0, thoughts |-> FALSE]}
    BY <1>4 DEF C!Thinking
  <2> QED
    BY <2>1
<1> QED
  BY <1>2, <1>3, <1>4

(* What was to be shown of a request.                                         *)
LEMMA RequestInvIsFaithful ==
  RequestInv => /\ C!KiroHearsEverything /\ C!KiroTakesTurns
                /\ C!AnswersNameTheirCall /\ C!ThoughtsHaveABudget
BY KiroIsFaithful, AnswersAreNamed, ThoughtsAreBudgeted

-----------------------------------------------------------------------------
(* The two parts: a rewritten answer, and what a provider is told.            *)

(* What is claimed of the chunks of a stream that has ended.                  *)
Ended(out_) ==
  \A i \in T!Indexes :
    LET s == T!Having(out_, "index", i) IN
      \A k \in DOMAIN s :
        /\ s[k].role => k = 1
        /\ (k = 1 /\ s[k].delta.kind # "none") => s[k].role
        /\ (s[k].finish # "") <=> (k = Len(s))
        /\ \A l \in DOMAIN s :
             (k # l /\ s[k].delta.kind = "call" /\ s[l].delta.kind = "call")
               => s[k].delta.n # s[l].delta.n

(* Until the stream has ended the transformer has told what has come; then    *)
(* the client has been told the answer.                                       *)
AnswerInv ==
  /\ dialect \in {"gemini", "kiro"} /\ over \in BOOLEAN
  /\ ~ over => IF dialect = "gemini" THEN GeminiTold ELSE KiroTold
  /\ over => T!StreamTellsTheAnswer /\ T!ChunksAreWellFormed

(* Nothing has come.                                                          *)
LEMMA AnswerInit ==
  ASSUME T!Init
  PROVE  AnswerInv
<1>1. dialect \in {"gemini", "kiro"} /\ over = FALSE
  BY DEF T!Init
<1>2. CASE dialect = "gemini"
  <2>1. GeminiTold
    BY <1>2, GeminiBegins
  <2> QED
    BY <1>1, <1>2, <2>1 DEF AnswerInv
<1>3. CASE dialect = "kiro"
  <2>1. KiroTold
    BY <1>3, KiroBegins
  <2> QED
    BY <1>1, <1>3, <2>1 DEF AnswerInv
<1> QED
  BY <1>1, <1>2, <1>3

(* While other parts move, the answer stays.                                  *)
LEMMA AnswerStays ==
  ASSUME AnswerInv, UNCHANGED answerVars
  PROVE  AnswerInv'
<1>1. /\ dialect' = dialect /\ input' = input /\ halves' = halves /\ st' = st
      /\ chunks' = chunks /\ over' = over
  BY DEF answerVars
<1>2. GeminiTold => GeminiTold'
  BY <1>1 DEF GeminiTold
<1>3. KiroTold => KiroTold'
  BY <1>1 DEF KiroTold
<1>4. T!StreamTellsTheAnswer => T!StreamTellsTheAnswer'
  BY <1>1 DEF T!StreamTellsTheAnswer, T!ChunksOf, T!Deltas, T!Choice, T!GeminiChoice, T!KiroChoice,
              T!PartsOf, T!CandidatesOf, T!LastReason
<1>5. T!ChunksAreWellFormed => T!ChunksAreWellFormed'
  <2>1. T!ChunksAreWellFormed = (over => Ended(chunks))
    BY Zenon DEF T!ChunksAreWellFormed, T!ChunksOf, Ended
  <2>2. T!ChunksAreWellFormed' = (over' => Ended(chunks'))
    BY Zenon DEF T!ChunksAreWellFormed, T!ChunksOf, Ended
  <2> QED
    BY <1>1, <2>1, <2>2, Zenon
<1> QED
  BY <1>1, <1>2, <1>3, <1>4, <1>5 DEF AnswerInv

(* Every event and frame is told as it comes, and the last step tells what is *)
(* left.                                                                      *)
LEMMA AnswerNext ==
  ASSUME AnswerInv, T!Next
  PROVE  AnswerInv'
<1>1. ~ over /\ dialect' = dialect
  BY DEF T!Next, T!TransformEvent, T!SendFrame, T!SendRest, T!TransformChunk, T!Finish
<1>2. dialect \in {"gemini", "kiro"} /\ IF dialect = "gemini" THEN GeminiTold ELSE KiroTold
  BY <1>1 DEF AnswerInv
<1>3. CASE T!TransformEvent
  <2>1. GeminiTold /\ dialect = "gemini" /\ over' = over
    BY <1>2, <1>3 DEF T!TransformEvent
  <2>2. GeminiTold'
    BY <1>3, <2>1, GeminiGoesOn
  <2> QED
    BY <1>1, <2>1, <2>2 DEF AnswerInv
<1>4. CASE T!SendFrame \/ T!SendRest
  <2>1. KiroTold /\ dialect = "kiro" /\ over' = over
    BY <1>2, <1>4 DEF T!SendFrame, T!SendRest
  <2>2. KiroFrames \subseteq FrameRows
    BY TranslationAssumption DEF TranslationWellFormed, FrameRows
  <2>3. KiroTold'
    BY <1>4, <2>1, <2>2, KiroGoesOn
  <2> QED
    BY <1>1, <2>1, <2>3 DEF AnswerInv
<1>5. CASE T!TransformChunk
  <2>1. KiroTold /\ dialect = "kiro" /\ over' = over
    BY <1>2, <1>5 DEF T!TransformChunk
  <2>2. KiroTold'
    BY <1>5, <2>1, KiroHears
  <2> QED
    BY <1>1, <2>1, <2>2 DEF AnswerInv
<1>6. CASE T!Finish
  <2>1. over' = TRUE
    BY <1>6 DEF T!Finish
  <2>2. T!StreamTellsTheAnswer' /\ T!ChunksAreWellFormed'
    BY <1>2, <1>6, GeminiEnds, KiroEnds
  <2> QED
    BY <1>1, <1>2, <2>1, <2>2 DEF AnswerInv
<1> QED
  BY <1>3, <1>4, <1>5, <1>6 DEF T!Next

(* Before the end nothing is claimed of the chunks.                           *)
LEMMA AnswerInvIsFaithful == AnswerInv => T!StreamTellsTheAnswer /\ T!ChunksAreWellFormed
<1>1. ~ over => T!StreamTellsTheAnswer /\ T!ChunksAreWellFormed
  BY Zenon DEF T!StreamTellsTheAnswer, T!ChunksAreWellFormed
<1> QED
  BY <1>1 DEF AnswerInv
=============================================================================
