--------------------------- MODULE ConsoleProofs ---------------------------
(* Proofs about the console.  Each part has an inductive invariant: that of    *)
(* the users says what a handler that has read a row still knows of it when   *)
(* its next statement runs, and ties the counters to what they count; those   *)
(* of the notices, the upkeep of accounts, the catalogue and the limits come  *)
(* after it.  The part that runs keeps its own, so the console keeps them     *)
(* all, and its type, OnceOnly, CareIsSafe, CatalogueIsUsable, LimitsHold and *)
(* DisabledStays follow.                                                      *)
EXTENDS Console, FiniteSetTheorems, WellFoundedInduction, TLAPS

-----------------------------------------------------------------------------
(* The users: codes, tokens and the setup each happen once.                   *)
Emailed == {"setup", "load", "open", "retire", "insert", "consume", "create", "verify", "redeem",
            "key", "user"}
Secrets  == [live : SUBSET Nat, made : Nat, spent : Nat]
Subjects == M!Kinds \cup M!Audiences \cup M!KeyStatuses \cup {"any"}
HandlerRows == [stage : Emailed \cup {"idle"}, email : Emails \cup {NoEmail}, kind : Subjects,
                id : Nat, row : M!UserRows, code : Codes \cup {NoCode}]

(* Only what the setup made of nobody is an owner by the setup.               *)
SetupOwner(e) == user[e].type = "platform_owner" /\ user[e].by = "setup"

MemberTypes ==
  /\ user \in [Emails -> M!UserRows]
  /\ wallet \in [Emails -> Nat \cup {-1}]
  /\ session \in [Emails -> [M!Audiences -> Nat]]
  /\ secret \in [Emails -> [M!Kinds -> Secrets]]
  /\ key \in [Emails -> M!KeyStatuses \cup {"none"}]
  /\ code \in [Codes -> M!CodeRows]
  /\ handler \in [Handlers -> HandlerRows]

(* What a handler has seen still holds at its next statement.                 *)
Known(t) ==
  /\ t.stage # "idle" => t.email \in Emails
  /\ t.stage = "open" => t.kind \in M!Audiences /\ M!Exists(t.email)
  /\ t.stage \in {"retire", "insert"} => t.kind \in M!Kinds
  /\ t.stage = "redeem" => t.code \in Codes /\ M!Exists(t.email) /\ wallet[t.email] # -1
  /\ t.stage = "user" => t.row.type \in M!Types /\ M!Exists(t.email)
  /\ t.stage = "setup" => t.row.type = "platform_owner"
  /\ t.stage \in {"consume", "create"} => t.row.type = "personal_user"

HandlersKnow == \A h \in Handlers : Known(handler[h])

(* Sessions and wallets are those of users.                                   *)
UsersOnly ==
  \A e \in Emails : ~M!Exists(e) => /\ wallet[e] = -1
                                   /\ \A a \in M!Audiences : session[e][a] = 0

CodesExact ==
  \A c \in Codes : /\ code[c].count = Cardinality(code[c].claims)
                   /\ code[c].count <= code[c].max
                   /\ code[c].status = "none" => code[c].claims = {}

ClaimedBy(e) == {c \in Codes : e \in code[c].claims}

CreditsExact ==
  \A e \in Emails : IF wallet[e] = -1 THEN ClaimedBy(e) = {}
                    ELSE wallet[e] = Cardinality(ClaimedBy(e))

SecretExact(s, k) == /\ s.live \subseteq 1 .. s.made
                     /\ k # "registration" => s.spent + Cardinality(s.live) <= s.made

SecretsExact == \A e \in Emails, k \in M!Kinds : SecretExact(secret[e][k], k)

OneSetup == \A e, f \in Emails : SetupOwner(e) /\ SetupOwner(f) => e = f

(* A behaviour begins with rows of the types and idle handlers.               *)
LEMMA MemberInitTypes == M!Init => MemberTypes /\ HandlersKnow
<1> SUFFICES ASSUME M!Init PROVE MemberTypes /\ HandlersKnow
  OBVIOUS
<1>1. PICK w \in Worlds :
        /\ user = w.user /\ code = w.code
        /\ wallet = [e \in Emails |-> IF w.user[e].type = "personal_user" THEN 0 ELSE -1]
        /\ session = [e \in Emails |-> [a \in M!Audiences |->
                        IF w.user[e].type # "none" /\ a = M!Workspace(w.user[e].type) THEN 1 ELSE 0]]
        /\ secret = [e \in Emails |-> [k \in M!Kinds |-> [live |-> {}, made |-> 0, spent |-> 0]]]
        /\ key = [e \in Emails |-> "none"] /\ handler = [h \in Handlers |-> M!Idle]
  BY DEF M!Init
<1>2. /\ user \in [Emails -> M!UserRows] /\ code \in [Codes -> M!CodeRows]
  BY <1>1, MemberAssumption
<1>3. M!NoUser \in M!UserRows
  BY DEF M!NoUser, M!UserRows, M!Types, M!Statuses, M!Makers
<1>4. M!Idle \in HandlerRows
  BY <1>3 DEF M!Idle, HandlerRows, Subjects, Emailed
<1>5. handler \in [Handlers -> HandlerRows] /\ \A h \in Handlers : handler[h].stage = "idle"
  BY <1>1, <1>4 DEF M!Idle
<1>6. /\ wallet \in [Emails -> Nat \cup {-1}]
      /\ session \in [Emails -> [M!Audiences -> Nat]]
      /\ key \in [Emails -> M!KeyStatuses \cup {"none"}]
  BY <1>1
<1>7. secret \in [Emails -> [M!Kinds -> Secrets]]
  BY <1>1 DEF Secrets
<1> QED BY <1>2, <1>5, <1>6, <1>7 DEF MemberTypes, HandlersKnow, Known

(* Nothing is claimed, credited, made or spent when it begins.                *)
LEMMA MemberInitExact ==
  M!Init => UsersOnly /\ CodesExact /\ CreditsExact /\ SecretsExact /\ OneSetup
<1> SUFFICES ASSUME M!Init
             PROVE  UsersOnly /\ CodesExact /\ CreditsExact /\ SecretsExact /\ OneSetup
  OBVIOUS
<1>1. PICK w \in Worlds :
        /\ user = w.user /\ code = w.code
        /\ wallet = [e \in Emails |-> IF w.user[e].type = "personal_user" THEN 0 ELSE -1]
        /\ session = [e \in Emails |-> [a \in M!Audiences |->
                        IF w.user[e].type # "none" /\ a = M!Workspace(w.user[e].type) THEN 1 ELSE 0]]
        /\ secret = [e \in Emails |-> [k \in M!Kinds |-> [live |-> {}, made |-> 0, spent |-> 0]]]
        /\ key = [e \in Emails |-> "none"] /\ handler = [h \in Handlers |-> M!Idle]
  BY DEF M!Init
<1>2. \A c \in Codes : code[c].claims = {} /\ code[c].count = 0 /\ code[c].max \in 1 .. MaxClaims
  BY <1>1, MemberAssumption DEF M!CodeRows
<1>c. Cardinality({}) = 0 BY FS_EmptySet
<1>3. UsersOnly
  BY <1>1, MemberAssumption DEF UsersOnly, M!Exists, M!Workspace
<1>4. CodesExact
  <2>1. ASSUME NEW c \in Codes PROVE Cardinality(code[c].claims) = 0
    <3>1. code[c].claims = {} BY <1>2
    <3> QED BY <3>1, <1>c, Zenon
  <2> QED BY <1>2, <2>1, MemberAssumption DEF CodesExact
<1>5. CreditsExact
  <2>1. \A e \in Emails : ClaimedBy(e) = {}
    BY <1>2 DEF ClaimedBy
  <2>2. \A e \in Emails : wallet[e] \in {0, -1}
    BY <1>1
  <2> QED BY <2>1, <2>2, <1>c DEF CreditsExact
<1>6. SecretsExact
  <2>1. \A e \in Emails, k \in M!Kinds : /\ secret[e][k].live = {}
                                          /\ secret[e][k].made = 0 /\ secret[e][k].spent = 0
    BY <1>1
  <2>2. ASSUME NEW e \in Emails, NEW k \in M!Kinds PROVE Cardinality(secret[e][k].live) = 0
    <3>1. secret[e][k].live = {} BY <2>1
    <3> QED BY <3>1, <1>c, Zenon
  <2> QED BY <2>1, <2>2 DEF SecretsExact, SecretExact
<1>7. OneSetup
  BY <1>1, MemberAssumption DEF OneSetup, SetupOwner
<1> QED BY <1>3, <1>4, <1>5, <1>6, <1>7

-----------------------------------------------------------------------------
(* Users *)
LEMMA RowIsUser ==
  ASSUME NEW type \in M!Types, NEW p \in Passwords, NEW by \in M!Makers
  PROVE  /\ M!Row(type, p, by) \in M!UserRows
         /\ M!Row(type, p, by).type = type /\ M!Row(type, p, by).by = by
BY DEF M!Row, M!NoUser, M!UserRows, M!Statuses, M!Types, M!Makers

(* What a step may do to the users: none of them goes, and only CreateOwner    *)
(* makes one an owner by the setup.                                           *)
UsersMove ==
  /\ user' \in [Emails -> M!UserRows]
  /\ \A e \in Emails : M!Exists(e) => M!Exists(e)'
  /\ \A e \in Emails : SetupOwner(e)' =>
       SetupOwner(e) \/ \E h \in Handlers : M!CreateOwner(h) /\ handler[h].email = e

(* An INSERT of a user whose email nobody has (insertUser).                   *)
LEMMA InsertMoves ==
  ASSUME MemberTypes, NEW e \in Emails, NEW row \in M!UserRows, row.type # "none", M!Insert(e, row)
  PROVE  /\ user' \in [Emails -> M!UserRows]
         /\ \A x \in Emails : M!Exists(x) => M!Exists(x)'
         /\ ~M!Exists(e) /\ user'[e] = row
         /\ \A x \in Emails : x # e => user'[x] = user[x]
BY DEF MemberTypes, M!Insert, M!Exists

(* An UPDATE of one column that is neither the type nor who made the row.     *)
LEMMA OneColumn ==
  ASSUME MemberTypes, NEW e,
         \/ user' = [user EXCEPT ![e].verified = TRUE]
         \/ \E p \in Passwords : user' = [user EXCEPT ![e].password = p]
  PROVE  UsersMove
<1>1. ASSUME NEW row \in M!UserRows, e \in Emails, user' = [user EXCEPT ![e] = row],
             row.type = user[e].type, row.by = user[e].by
      PROVE  UsersMove
  BY <1>1 DEF UsersMove, MemberTypes, M!Exists, SetupOwner
<1>2. CASE e \notin Emails
  <2>1. user' = user
    BY <1>2 DEF MemberTypes
  <2> QED BY <2>1 DEF UsersMove, MemberTypes, M!Exists, SetupOwner
<1>3. CASE e \in Emails /\ user' = [user EXCEPT ![e].verified = TRUE]
  <2> DEFINE row == [user[e] EXCEPT !.verified = TRUE]
  <2>1. user[e] \in M!UserRows
    BY <1>3 DEF MemberTypes
  <2>2. row \in M!UserRows /\ row.type = user[e].type /\ row.by = user[e].by
    BY <2>1 DEF M!UserRows
  <2>3. user' = [user EXCEPT ![e] = row]
    BY <1>3
  <2> HIDE DEF row
  <2> QED BY <1>1, <1>3, <2>2, <2>3
<1>4. ASSUME e \in Emails, NEW p \in Passwords, user' = [user EXCEPT ![e].password = p]
      PROVE  UsersMove
  <2> DEFINE row == [user[e] EXCEPT !.password = p]
  <2>1. user[e] \in M!UserRows
    BY <1>4 DEF MemberTypes
  <2>2. row \in M!UserRows /\ row.type = user[e].type /\ row.by = user[e].by
    BY <2>1 DEF M!UserRows
  <2>3. user' = [user EXCEPT ![e] = row]
    BY <1>4
  <2> HIDE DEF row
  <2> QED BY <1>1, <1>4, <2>2, <2>3
<1> QED BY <1>2, <1>3, <1>4

(* No statement takes a user away, and only setupCreateOwner makes an owner   *)
(* by the setup.                                                              *)
LEMMA UsersMoveOn == MemberTypes /\ HandlersKnow /\ M!Next => UsersMove
<1> SUFFICES ASSUME MemberTypes, HandlersKnow, M!Next PROVE UsersMove
  OBVIOUS
<1>0. ASSUME UNCHANGED user PROVE UsersMove
  BY <1>0 DEF UsersMove, MemberTypes, M!Exists, SetupOwner
<1>1. ASSUME NEW h \in Handlers, M!Asked(h) PROVE UsersMove
  <2>1. UNCHANGED user
    BY <1>1, Zenon DEF M!Asked, M!CheckSetup, M!Register, M!Login, M!RequestCode, M!RequestReset, M!AdminReset,
                M!RequestVerification, M!Ask, M!ConfirmEmail, M!ReadKey, M!ReadUser, M!EnsureWallet
  <2> QED BY <1>0, <2>1
<1>2. ASSUME NEW h \in Handlers, M!Work(h) PROVE UsersMove
  <2>1. CASE M!CreateOwner(h)
    <3>1. /\ handler[h].email \in Emails /\ handler[h].row \in M!UserRows
          /\ handler[h].row.type = "platform_owner"
          /\ M!Insert(handler[h].email, handler[h].row)
      BY <2>1 DEF M!CreateOwner, M!In, HandlersKnow, Known, MemberTypes, HandlerRows
    <3> QED BY <2>1, <3>1, InsertMoves DEF UsersMove, SetupOwner
  <2>2. CASE M!CreateUser(h)
    <3>1. /\ handler[h].email \in Emails /\ handler[h].row \in M!UserRows
          /\ handler[h].row.type = "personal_user"
          /\ M!Insert(handler[h].email, handler[h].row)
      BY <2>2 DEF M!CreateUser, M!In, HandlersKnow, Known, MemberTypes, HandlerRows
    <3> QED BY <3>1, InsertMoves DEF UsersMove, SetupOwner
  <2>3. CASE M!MarkVerified(h)
    <3>1. user' = [user EXCEPT ![handler[h].email].verified = TRUE]
      BY <2>3 DEF M!MarkVerified
    <3> QED BY <3>1, OneColumn
  <2>4. CASE M!PatchUser(h)
    <3>0. PICK e \in Emails : e = handler[h].email
      BY <2>4, Zenon DEF M!PatchUser, M!In, HandlersKnow, Known
    <3>1. handler[h].row.type \in M!Types /\ handler[h].row.status \in M!Statuses
      BY <2>4, Zenon DEF M!PatchUser, M!In, HandlersKnow, Known, MemberTypes, HandlerRows, M!UserRows
    <3>2. PICK type \in M!Types, status \in M!Statuses :
            user' = [user EXCEPT ![e].type = type, ![e].status = status,
                       ![e].by = IF type = "platform_owner" /\ user[e].type # type THEN "admin" ELSE @]
      BY <2>4, <3>0, <3>1, Zenon DEF M!PatchUser
    <3>3. PICK by \in M!Makers :
            by = IF type = "platform_owner" /\ user[e].type # type THEN "admin" ELSE user[e].by
      BY DEF MemberTypes, M!UserRows, M!Makers
    <3>4. user' = [user EXCEPT ![e].type = type, ![e].status = status, ![e].by = by]
      BY <3>2, <3>3 DEF MemberTypes
    <3>7. /\ user'[e].type = type /\ user'[e].by = by
          /\ \A x \in Emails : x # e => user'[x] = user[x]
      BY <3>4 DEF MemberTypes, M!UserRows
    <3>5. user' \in [Emails -> M!UserRows]
      <4>1. user[e] \in M!UserRows BY DEF MemberTypes
      <4>2. [user[e] EXCEPT !.type = type, !.status = status, !.by = by] \in M!UserRows
        BY <4>1 DEF M!UserRows
      <4> QED BY <3>4, <4>2 DEF MemberTypes
    <3>6. SetupOwner(e)' => SetupOwner(e)
      BY <3>3, <3>7 DEF SetupOwner
    <3> QED BY <3>5, <3>6, <3>7 DEF UsersMove, M!Exists, SetupOwner, M!Types
  <2>5. CASE ~(M!CreateOwner(h) \/ M!CreateUser(h) \/ M!MarkVerified(h) \/ M!PatchUser(h))
    <3>1. UNCHANGED user
      BY <1>2, <2>5 DEF M!Work, M!Load, M!OpenSession, M!Retire, M!Issue, M!ConsumeCode, M!Redeem,
                        M!PatchKey, M!Drop
    <3> QED BY <1>0, <3>1
  <2> QED BY <2>1, <2>2, <2>3, <2>4, <2>5
<1>3. ASSUME M!AtOnce PROVE UsersMove
  <2>1. ASSUME NEW e \in Emails, NEW p \in Passwords, M!ConfirmReset(e, p) PROVE UsersMove
    <3>1. user' = [user EXCEPT ![e].password = p]
      BY <2>1 DEF M!ConfirmReset
    <3> QED BY <3>1, OneColumn
  <2>2. ASSUME NEW e \in Emails, NEW t \in M!Types, NEW s \in M!Statuses, M!AdminCreateUser(e, t, s)
        PROVE  UsersMove
    <3> DEFINE row == [M!Row(t, 1, "admin") EXCEPT !.status = s]
    <3>1. row \in M!UserRows /\ row.type = t /\ row.by = "admin" /\ t # "none"
      BY RowIsUser, MemberAssumption DEF M!UserRows, M!Makers, M!Types
    <3>2. M!Insert(e, row) BY <2>2 DEF M!AdminCreateUser
    <3> HIDE DEF row
    <3> QED BY <3>1, <3>2, InsertMoves DEF UsersMove, SetupOwner
  <2>3. ASSUME NEW e \in Emails, NEW t \in M!Types, M!Seed(e, t) PROVE UsersMove
    <3>1. /\ M!Row(t, 1, "seed") \in M!UserRows /\ M!Row(t, 1, "seed").type = t
          /\ M!Row(t, 1, "seed").by = "seed" /\ t # "none"
      BY RowIsUser, MemberAssumption DEF M!Makers, M!Types
    <3>2. M!Insert(e, M!Row(t, 1, "seed")) BY <2>3 DEF M!Seed
    <3> QED BY <3>1, <3>2, InsertMoves DEF UsersMove, SetupOwner
  <2>4. ASSUME NEW e \in Emails,
               \/ M!CreateKey(e) \/ M!DeleteKey(e)
               \/ \E a \in M!Audiences : M!Logout(e, a)
               \/ \E k \in M!Kinds : M!Expire(e, k)
        PROVE  UsersMove
    BY <1>0, <2>4 DEF M!CreateKey, M!DeleteKey, M!Logout, M!Expire
  <2>5. ASSUME NEW c \in Codes,
               M!PatchRedeemCode(c) \/ \E m \in 1 .. MaxClaims : M!CreateRedeemCode(c, m)
        PROVE  UsersMove
    BY <1>0, <2>5, Zenon DEF M!PatchRedeemCode, M!CreateRedeemCode
  <2> QED BY <1>3, <2>1, <2>2, <2>3, <2>4, <2>5 DEF M!AtOnce
<1> QED BY <1>1, <1>2, <1>3 DEF M!Next

-----------------------------------------------------------------------------
(* Codes, claims and what they credit *)

(* Every step but Redeem leaves the claims as they are.                       *)
CodesStay ==
  /\ code' \in [Codes -> M!CodeRows]
  /\ \A c \in Codes : /\ code'[c].count = code[c].count /\ code'[c].claims = code[c].claims
                      /\ code'[c].count <= code'[c].max
                      /\ code'[c].status = "none" => code[c].status = "none"

(* A code changes by an administrator, who leaves its claims, or by a claim.  *)
LEMMA CodesMoveOn ==
  ASSUME MemberTypes, CodesExact, M!Next
  PROVE  CodesStay \/ \E h \in Handlers : M!Redeem(h)
<1>0. ASSUME UNCHANGED code PROVE CodesStay
  BY <1>0 DEF CodesStay, MemberTypes, CodesExact
<1>1. ASSUME NEW h \in Handlers, M!Asked(h) PROVE CodesStay
  <2>1. UNCHANGED code
    BY <1>1, Zenon DEF M!Asked, M!CheckSetup, M!Register, M!Login, M!RequestCode, M!RequestReset, M!AdminReset,
                M!RequestVerification, M!Ask, M!ConfirmEmail, M!ReadKey, M!ReadUser, M!EnsureWallet
  <2> QED BY <1>0, <2>1
<1>2. ASSUME NEW h \in Handlers, M!Work(h), ~M!Redeem(h) PROVE CodesStay
  <2>1. UNCHANGED code
    BY <1>2, Zenon DEF M!Work, M!CreateOwner, M!Load, M!OpenSession, M!Retire, M!Issue, M!ConsumeCode,
                M!CreateUser, M!MarkVerified, M!PatchKey, M!PatchUser, M!Drop
  <2> QED BY <1>0, <2>1
<1>3. ASSUME M!AtOnce PROVE CodesStay
  <2>1. ASSUME NEW c \in Codes, M!PatchRedeemCode(c) PROVE CodesStay
    <3>1. /\ code[c] \in M!CodeRows /\ code[c].count <= code[c].max
          /\ code[c].status # "none"
      BY <2>1 DEF MemberTypes, CodesExact, M!PatchRedeemCode
    <3>2. ASSUME NEW s \in {"active", "disabled", "expired"}, code' = [code EXCEPT ![c].status = s]
          PROVE  CodesStay
      BY <3>1, <3>2 DEF CodesStay, MemberTypes, CodesExact, M!CodeRows
    <3>3. ASSUME NEW m \in 1 .. MaxClaims, m >= code[c].count, code' = [code EXCEPT ![c].max = m]
          PROVE  CodesStay
      BY <3>1, <3>3 DEF CodesStay, MemberTypes, CodesExact, M!CodeRows
    <3>4. ASSUME NEW b \in BOOLEAN, code' = [code EXCEPT ![c].past = b]
          PROVE  CodesStay
      BY <3>1, <3>4 DEF CodesStay, MemberTypes, CodesExact, M!CodeRows
    <3> QED BY <2>1, <3>2, <3>3, <3>4 DEF M!PatchRedeemCode
  <2>2. ASSUME NEW c \in Codes, NEW m \in 1 .. MaxClaims, M!CreateRedeemCode(c, m) PROVE CodesStay
    <3> DEFINE row == [M!NoCodeRow EXCEPT !.status = "active", !.max = m]
    <3>1. code[c].claims = {} /\ code[c].count = Cardinality(code[c].claims)
      BY <2>2 DEF CodesExact, M!CreateRedeemCode
    <3>2. code[c].count = 0
      BY <3>1, FS_EmptySet, Zenon
    <3>3. row.count = 0 /\ row.claims = {} /\ row.max = m /\ row.status = "active"
      BY DEF M!NoCodeRow
    <3>5. row \in M!CodeRows
      <4>1. 0 \in 0 .. MaxClaims BY MemberAssumption
      <4> QED BY <4>1 DEF M!NoCodeRow, M!CodeRows
    <3>4. code' = [code EXCEPT ![c] = row]
      BY <2>2 DEF M!CreateRedeemCode
    <3> HIDE DEF row
    <3>6. code' \in [Codes -> M!CodeRows] /\ code'[c] = row
          /\ \A x \in Codes : x # c => code'[x] = code[x]
      BY <3>4, <3>5 DEF MemberTypes
    <3>7. /\ code'[c].count = code[c].count /\ code'[c].claims = code[c].claims
          /\ code'[c].count <= code'[c].max /\ code'[c].status # "none"
      BY <3>1, <3>2, <3>3, <3>6, MemberAssumption
    <3>8. ASSUME NEW x \in Codes, x # c
          PROVE  /\ code'[x] = code[x] /\ code'[x].count <= code'[x].max
      BY <3>6, <3>8 DEF CodesExact
    <3> QED BY <3>6, <3>7, <3>8 DEF CodesStay
  <2>3. ASSUME NEW e \in Emails,
               \/ M!CreateKey(e) \/ M!DeleteKey(e)
               \/ \E a \in M!Audiences : M!Logout(e, a)
               \/ \E k \in M!Kinds : M!Expire(e, k)
               \/ \E p \in Passwords : M!ConfirmReset(e, p)
               \/ \E t \in M!Types, s \in M!Statuses : M!AdminCreateUser(e, t, s)
               \/ \E t \in M!Types : M!Seed(e, t)
        PROVE  CodesStay
    BY <1>0, <2>3 DEF M!CreateKey, M!DeleteKey, M!Logout, M!Expire, M!ConfirmReset,
                      M!AdminCreateUser, M!Seed
  <2> QED BY <1>3, <2>1, <2>2, <2>3 DEF M!AtOnce
<1> QED BY <1>1, <1>2, <1>3 DEF M!Next

(* One claim and one credit, of a code that has one left.                     *)
LEMMA RedeemMoves ==
  ASSUME MemberTypes, HandlersKnow, CodesExact, NEW h \in Handlers, M!Redeem(h)
  PROVE  \E e \in Emails, c \in Codes :
           /\ e \notin code[c].claims /\ M!Exists(e) /\ wallet[e] # -1
           /\ code[c].count < code[c].max /\ code[c].status = "active"
           /\ code' \in [Codes -> M!CodeRows]
           /\ code'[c].count = code[c].count + 1 /\ code'[c].claims = code[c].claims \cup {e}
           /\ code'[c].max = code[c].max /\ code'[c].status = code[c].status
           /\ \A x \in Codes : x # c => code'[x] = code[x]
           /\ wallet' = [wallet EXCEPT ![e] = @ + 1]
<1>1. PICK e \in Emails, c \in Codes :
        /\ e = handler[h].email /\ c = handler[h].code /\ M!Exists(e) /\ wallet[e] # -1
  BY DEF M!Redeem, M!In, HandlersKnow, Known
<1>2. /\ M!Redeemable(c, e) /\ code' = M!Claimed(c, e)
      /\ wallet' = [wallet EXCEPT ![e] = @ + 1]
  BY <1>1 DEF M!Redeem
<1>3. code[c] \in M!CodeRows /\ code[c].count + 1 \in 0 .. MaxClaims
  BY <1>2, MemberAssumption DEF MemberTypes, M!Redeemable, M!CodeRows
<1>4. /\ code' \in [Codes -> M!CodeRows]
      /\ code'[c].count = code[c].count + 1 /\ code'[c].claims = code[c].claims \cup {e}
      /\ code'[c].max = code[c].max /\ code'[c].status = code[c].status
      /\ \A x \in Codes : x # c => code'[x] = code[x]
  <2> DEFINE row == [code[c] EXCEPT !.count = @ + 1, !.claims = @ \cup {e}]
  <2>1. row \in M!CodeRows
    BY <1>3 DEF M!CodeRows
  <2>2. /\ row.count = code[c].count + 1 /\ row.claims = code[c].claims \cup {e}
        /\ row.max = code[c].max /\ row.status = code[c].status
    BY <1>3 DEF M!CodeRows
  <2>3. code' = [code EXCEPT ![c] = row]
    BY <1>2 DEF M!Claimed
  <2> HIDE DEF row
  <2> QED BY <2>1, <2>2, <2>3 DEF MemberTypes
<1> QED BY <1>1, <1>2, <1>4 DEF M!Redeemable

(* The counter of a code is the number of its claims and never passes its     *)
(* limit (portalRedeem).                                                      *)
LEMMA CodesExactNext == MemberTypes /\ HandlersKnow /\ CodesExact /\ M!Next => CodesExact'
<1> SUFFICES ASSUME MemberTypes, HandlersKnow, CodesExact, M!Next PROVE CodesExact'
  OBVIOUS
<1>1. CASE CodesStay
  BY <1>1 DEF CodesStay, CodesExact
<1>2. ASSUME NEW h \in Handlers, M!Redeem(h) PROVE CodesExact'
  <2>1. PICK e \in Emails, c \in Codes :
           /\ e \notin code[c].claims
           /\ code[c].count < code[c].max /\ code[c].status = "active"
           /\ code'[c].count = code[c].count + 1 /\ code'[c].claims = code[c].claims \cup {e}
           /\ code'[c].max = code[c].max /\ code'[c].status = code[c].status
           /\ \A x \in Codes : x # c => code'[x] = code[x]
    BY <1>2, RedeemMoves
  <2>2. IsFiniteSet(code[c].claims)
    BY MemberAssumption, FS_Subset DEF MemberTypes, M!CodeRows
  <2>3. Cardinality(code'[c].claims) = Cardinality(code[c].claims) + 1
    <3>1. Cardinality(code[c].claims \cup {e})
            = IF e \in code[c].claims THEN Cardinality(code[c].claims) ELSE Cardinality(code[c].claims) + 1
      BY <2>2, FS_AddElement, Zenon
    <3> QED BY <2>1, <3>1, Zenon
  <2>4. code[c].count \in Nat /\ code[c].max \in Nat
    BY MemberAssumption DEF MemberTypes, M!CodeRows
  <2>5. ASSUME NEW x \in Codes
        PROVE  /\ code'[x].count = Cardinality(code'[x].claims)
               /\ code'[x].count <= code'[x].max
               /\ code'[x].status = "none" => code'[x].claims = {}
    <3>1. CASE x = c
      <4>1. code'[c].count = Cardinality(code'[c].claims)
        BY <2>1, <2>3 DEF CodesExact
      <4>2. code'[c].count <= code'[c].max /\ code'[c].status # "none"
        BY <2>1, <2>4
      <4> QED BY <3>1, <4>1, <4>2
    <3>2. CASE x # c
      BY <2>1, <3>2 DEF CodesExact
    <3> QED BY <3>1, <3>2
  <2> QED BY <2>5 DEF CodesExact
<1> QED BY <1>1, <1>2, CodesMoveOn

(* The wallets: a row is made with nothing on it, a claim credits one.        *)
WalletsMove ==
  \/ UNCHANGED wallet
  \/ \E e \in Emails : wallet[e] = -1 /\ wallet' = [wallet EXCEPT ![e] = 0] /\ M!Exists(e)'

(* A wallet changes by a credit for a claim, or is made empty.                *)
LEMMA WalletsMoveOn ==
  ASSUME MemberTypes, HandlersKnow, UsersOnly, M!Next
  PROVE  WalletsMove \/ \E h \in Handlers : M!Redeem(h)
<1>0. ASSUME NEW e \in Emails, NEW row \in M!UserRows, row.type # "none", M!Insert(e, row)
      PROVE  WalletsMove
  <2>1. wallet[e] = -1 /\ M!Exists(e)'
    BY <1>0 DEF UsersOnly, M!Insert, M!Exists, MemberTypes
  <2> QED BY <1>0, <2>1 DEF M!Insert, WalletsMove, MemberTypes
<1>1. ASSUME NEW h \in Handlers, M!Asked(h) PROVE WalletsMove
  <2>1. ASSUME NEW e \in Emails, NEW c \in Codes, M!EnsureWallet(h, e, c) PROVE WalletsMove
    <3>1. M!Exists(e)' /\ wallet' = [wallet EXCEPT ![e] = IF @ = -1 THEN 0 ELSE @]
      BY <2>1 DEF M!EnsureWallet, M!InPortal, M!Has, UsersOnly, M!Exists, M!Audiences, MemberTypes
    <3> QED BY <3>1 DEF WalletsMove, MemberTypes
  <2>2. CASE ~\E e \in Emails, c \in Codes : M!EnsureWallet(h, e, c)
    BY <1>1, <2>2, Zenon DEF WalletsMove, M!Asked, M!CheckSetup, M!Register, M!Login, M!RequestCode, M!RequestReset,
        M!AdminReset, M!RequestVerification, M!Ask, M!ConfirmEmail, M!ReadKey, M!ReadUser
  <2> QED BY <2>1, <2>2
<1>2. ASSUME NEW h \in Handlers, M!Work(h), ~M!Redeem(h) PROVE WalletsMove
  <2>1. ASSUME M!CreateOwner(h) \/ M!CreateUser(h) PROVE WalletsMove
    <3>1. /\ handler[h].email \in Emails /\ handler[h].row \in M!UserRows
          /\ handler[h].row.type # "none" /\ M!Insert(handler[h].email, handler[h].row)
      BY <2>1 DEF M!CreateOwner, M!CreateUser, M!In, HandlersKnow, Known, MemberTypes, HandlerRows
    <3> QED BY <1>0, <3>1
  <2>2. CASE ~(M!CreateOwner(h) \/ M!CreateUser(h))
    BY <1>2, <2>2, Zenon DEF WalletsMove, M!Work, M!Load, M!OpenSession, M!Retire, M!Issue, M!ConsumeCode,
                M!MarkVerified, M!PatchKey, M!PatchUser, M!Drop
  <2> QED BY <2>1, <2>2
<1>3. ASSUME M!AtOnce PROVE WalletsMove
  <2>1. ASSUME NEW e \in Emails, NEW t \in M!Types, NEW s \in M!Statuses, M!AdminCreateUser(e, t, s)
        PROVE  WalletsMove
    <3> DEFINE row == [M!Row(t, 1, "admin") EXCEPT !.status = s]
    <3>1. row \in M!UserRows /\ row.type # "none"
      BY RowIsUser, MemberAssumption DEF M!UserRows, M!Makers, M!Types
    <3>2. M!Insert(e, row) BY <2>1 DEF M!AdminCreateUser
    <3> HIDE DEF row
    <3> QED BY <1>0, <3>1, <3>2
  <2>2. ASSUME NEW e \in Emails, NEW t \in M!Types, M!Seed(e, t) PROVE WalletsMove
    <3>1. M!Row(t, 1, "seed") \in M!UserRows /\ M!Row(t, 1, "seed").type # "none"
      BY RowIsUser, MemberAssumption DEF M!Makers, M!Types
    <3>2. M!Insert(e, M!Row(t, 1, "seed")) BY <2>2 DEF M!Seed
    <3> QED BY <1>0, <3>1, <3>2
  <2>3. ASSUME NEW e \in Emails,
               \/ M!CreateKey(e) \/ M!DeleteKey(e)
               \/ \E a \in M!Audiences : M!Logout(e, a)
               \/ \E k \in M!Kinds : M!Expire(e, k)
               \/ \E p \in Passwords : M!ConfirmReset(e, p)
        PROVE  WalletsMove
    BY <2>3 DEF WalletsMove, M!CreateKey, M!DeleteKey, M!Logout, M!Expire, M!ConfirmReset
  <2>4. ASSUME NEW c \in Codes,
               M!PatchRedeemCode(c) \/ \E m \in 1 .. MaxClaims : M!CreateRedeemCode(c, m)
        PROVE  WalletsMove
    BY <2>4, Zenon DEF WalletsMove, M!PatchRedeemCode, M!CreateRedeemCode
  <2> QED BY <1>3, <2>1, <2>2, <2>3, <2>4 DEF M!AtOnce
<1> QED BY <1>1, <1>2, <1>3 DEF M!Next

(* What a user's wallet holds are the claims, whether a step leaves the       *)
(* claims alone or makes one (portalRedeem).                                  *)
LEMMA CreditsExactNext ==
  MemberTypes /\ HandlersKnow /\ UsersOnly /\ CodesExact /\ CreditsExact /\ M!Next => CreditsExact'
<1> SUFFICES ASSUME MemberTypes, HandlersKnow, UsersOnly, CodesExact, CreditsExact, M!Next
             PROVE  CreditsExact'
  OBVIOUS
<1>1. ASSUME CodesStay, WalletsMove PROVE CreditsExact'
  <2>1. \A e \in Emails : ClaimedBy(e)' = ClaimedBy(e)
    BY <1>1 DEF CodesStay, ClaimedBy
  <2>2. CASE UNCHANGED wallet
    BY <2>1, <2>2 DEF CreditsExact
  <2>3. ASSUME NEW e \in Emails, wallet[e] = -1, wallet' = [wallet EXCEPT ![e] = 0]
        PROVE  CreditsExact'
    <3>1. ClaimedBy(e)' = {}
      BY <2>1, <2>3 DEF CreditsExact
    <3>2. Cardinality(ClaimedBy(e)') = 0
      BY <3>1, FS_EmptySet, Zenon
    <3>3. wallet'[e] = 0 /\ \A x \in Emails : x # e => wallet'[x] = wallet[x]
      BY <2>3 DEF MemberTypes
    <3>4. ASSUME NEW x \in Emails
          PROVE  IF wallet'[x] = -1 THEN ClaimedBy(x)' = {} ELSE wallet'[x] = Cardinality(ClaimedBy(x)')
      <4>1. CASE x = e
        BY <3>2, <3>3, <4>1
      <4>2. CASE x # e
        BY <2>1, <3>3, <4>2 DEF CreditsExact
      <4> QED BY <4>1, <4>2
    <3> QED BY <3>4 DEF CreditsExact
  <2> QED BY <1>1, <2>2, <2>3 DEF WalletsMove
<1>2. ASSUME NEW h \in Handlers, M!Redeem(h) PROVE CreditsExact'
  <2>1. PICK e \in Emails, c \in Codes :
          /\ e \notin code[c].claims /\ wallet[e] # -1
          /\ code'[c].claims = code[c].claims \cup {e}
          /\ \A x \in Codes : x # c => code'[x] = code[x]
          /\ wallet' = [wallet EXCEPT ![e] = @ + 1]
    BY <1>2, RedeemMoves
  <2>2. \A x \in Emails : x # e => ClaimedBy(x)' = ClaimedBy(x)
    BY <2>1 DEF ClaimedBy
  <2>3. ClaimedBy(e)' = ClaimedBy(e) \cup {c} /\ c \notin ClaimedBy(e)
    BY <2>1 DEF ClaimedBy
  <2>4. IsFiniteSet(ClaimedBy(e))
    BY MemberAssumption, FS_Subset DEF ClaimedBy
  <2>5. Cardinality(ClaimedBy(e)') = Cardinality(ClaimedBy(e)) + 1
    BY <2>3, <2>4, FS_AddElement
  <2>6. wallet'[e] = wallet[e] + 1 /\ \A x \in Emails : x # e => wallet'[x] = wallet[x]
    BY <2>1 DEF MemberTypes
  <2>7. wallet'[e] # -1 /\ wallet'[e] = Cardinality(ClaimedBy(e)')
    BY <2>1, <2>5, <2>6 DEF CreditsExact, MemberTypes
  <2>8. ASSUME NEW x \in Emails
        PROVE  IF wallet'[x] = -1 THEN ClaimedBy(x)' = {} ELSE wallet'[x] = Cardinality(ClaimedBy(x)')
    <3>1. CASE x = e
      BY <2>7, <3>1
    <3>2. CASE x # e
      BY <2>2, <2>6, <3>2 DEF CreditsExact
    <3> QED BY <3>1, <3>2
  <2> QED BY <2>8 DEF CreditsExact
<1> QED BY <1>1, <1>2, CodesMoveOn, WalletsMoveOn

-----------------------------------------------------------------------------
(* Secrets: the codes and tokens that are mailed *)

(* What a step does to the secrets of one user and kind: nothing, one is used  *)
(* up or runs out, all are retired, or one more is made.                      *)
SecretMoves(s, t, k) ==
  \/ t = s
  \/ \E id \in s.live : t.live = s.live \ {id} /\ t.made = s.made /\ t.spent \in {s.spent, s.spent + 1}
  \/ k = "registration" /\ t.live \subseteq s.live /\ t.made = s.made /\ t.spent = s.spent + 1
  \/ t.live = {} /\ t.made = s.made /\ t.spent = s.spent
  \/ /\ t.live \in {s.live \cup {s.made + 1}, {s.made + 1}}
     /\ t.made = s.made + 1 /\ t.spent = s.spent

(* Making, retiring or using a token keeps its counters exact.                *)
LEMMA SecretStaysExact ==
  ASSUME NEW k \in M!Kinds, NEW s \in Secrets, NEW t \in Secrets, SecretExact(s, k), SecretMoves(s, t, k)
  PROVE  SecretExact(t, k)
<1>1. s.made \in Nat /\ s.spent \in Nat /\ t.made \in Nat /\ t.spent \in Nat /\ s.live \subseteq 1 .. s.made
  BY DEF Secrets, SecretExact
<1>2. IsFiniteSet(s.live)
  <2>1. IsFiniteSet(1 .. s.made)
    <3>1. 1 \in Int /\ s.made \in Int BY <1>1
    <3> QED BY <3>1, FS_Interval
  <2> QED BY <1>1, <2>1, FS_Subset
<1>3. Cardinality(s.live) \in Nat
  BY <1>2, FS_CardinalityType
<1>4. CASE t = s
  BY <1>4
<1>5. ASSUME NEW id \in s.live, t.live = s.live \ {id}, t.made = s.made, t.spent \in {s.spent, s.spent + 1}
      PROVE  SecretExact(t, k)
  <2>1. Cardinality(t.live) = Cardinality(s.live) - 1
    BY <1>2, <1>5, FS_RemoveElement
  <2>2. t.live \subseteq 1 .. t.made
    BY <1>1, <1>5
  <2> QED BY <1>1, <1>3, <1>5, <2>1, <2>2 DEF SecretExact
<1>6. CASE k = "registration" /\ t.live \subseteq s.live /\ t.made = s.made /\ t.spent = s.spent + 1
  BY <1>1, <1>6 DEF SecretExact
<1>7. CASE t.live = {} /\ t.made = s.made /\ t.spent = s.spent
  <2>1. Cardinality(t.live) = 0
    BY <1>7, FS_EmptySet, Zenon
  <2> QED BY <1>1, <1>3, <1>7, <2>1 DEF SecretExact
<1>8. CASE t.live = s.live \cup {s.made + 1} /\ t.made = s.made + 1 /\ t.spent = s.spent
  <2>1. s.made + 1 \notin s.live
    BY <1>1
  <2>2. Cardinality(t.live) = Cardinality(s.live) + 1
    <3>1. Cardinality(s.live \cup {s.made + 1})
            = IF s.made + 1 \in s.live THEN Cardinality(s.live) ELSE Cardinality(s.live) + 1
      BY <1>2, FS_AddElement, Zenon
    <3> QED BY <1>8, <2>1, <3>1, Zenon
  <2>3. t.live \subseteq 1 .. t.made
    BY <1>1, <1>8
  <2> QED BY <1>1, <1>3, <1>8, <2>2, <2>3 DEF SecretExact
<1>9. CASE t.live = {s.made + 1} /\ t.made = s.made + 1 /\ t.spent = s.spent
  <2>1. Cardinality(t.live) = 1
    BY <1>9, FS_Singleton, Zenon
  <2>2. t.live \subseteq 1 .. t.made
    BY <1>1, <1>9
  <2> QED BY <1>1, <1>3, <1>9, <2>1, <2>2 DEF SecretExact
<1> QED BY <1>4, <1>5, <1>6, <1>7, <1>8, <1>9 DEF SecretMoves

SecretsMove ==
  /\ secret' \in [Emails -> [M!Kinds -> Secrets]]
  /\ \A e \in Emails, k \in M!Kinds : SecretMoves(secret[e][k], secret'[e][k], k)

(* One row is written.                                                        *)
LEMMA OneSecretMoves ==
  ASSUME MemberTypes, NEW e \in Emails, NEW k \in M!Kinds, NEW t \in Secrets,
         secret' = [secret EXCEPT ![e][k] = t], SecretMoves(secret[e][k], t, k)
  PROVE  SecretsMove
<1>1. secret' \in [Emails -> [M!Kinds -> Secrets]]
  BY DEF MemberTypes
<1>2. secret'[e][k] = t
  BY DEF MemberTypes
<1>3. \A x \in Emails, y \in M!Kinds : x # e \/ y # k => secret'[x][y] = secret[x][y]
  BY DEF MemberTypes
<1>4. \A x \in Emails, y \in M!Kinds : SecretMoves(secret[x][y], secret'[x][y], y)
  <2> SUFFICES ASSUME NEW x \in Emails, NEW y \in M!Kinds
               PROVE  SecretMoves(secret[x][y], secret'[x][y], y)
    OBVIOUS
  <2>1. CASE x = e /\ y = k
    BY <1>2, <2>1
  <2>2. CASE x # e \/ y # k
    BY <1>3, <2>2 DEF SecretMoves
  <2> QED BY <2>1, <2>2
<1> QED BY <1>1, <1>4 DEF SecretsMove

(* The statements about tokens each write one row.                            *)
LEMMA SecretRowsMove ==
  ASSUME NEW s \in Secrets, NEW k \in M!Kinds
  PROVE  /\ M!Retired(s) \in Secrets /\ SecretMoves(s, M!Retired(s), k)
         /\ M!Issued(s) \in Secrets /\ SecretMoves(s, M!Issued(s), k)
         /\ M!Issued(M!Retired(s)) \in Secrets /\ SecretMoves(s, M!Issued(M!Retired(s)), k)
         /\ \A id \in Nat : M!Used(s, id) \in Secrets
         /\ \A id \in s.live : SecretMoves(s, M!Used(s, id), k)
         /\ \A id \in Nat : SecretMoves(s, M!Used(s, id), "registration")
<1>1. s.live \in SUBSET Nat /\ s.made \in Nat /\ s.spent \in Nat /\ s.made + 1 \in Nat /\ s.spent + 1 \in Nat
  BY DEF Secrets
<1>2. /\ M!Retired(s) \in Secrets /\ M!Retired(s).live = {}
      /\ M!Retired(s).made = s.made /\ M!Retired(s).spent = s.spent
  BY DEF Secrets, M!Retired
<1>3. ASSUME NEW r \in Secrets
      PROVE  /\ M!Issued(r) \in Secrets /\ M!Issued(r).live = r.live \cup {r.made + 1}
             /\ M!Issued(r).made = r.made + 1 /\ M!Issued(r).spent = r.spent
  <2>1. r.live \cup {r.made + 1} \in SUBSET Nat /\ r.made + 1 \in Nat
    BY DEF Secrets
  <2> QED BY <2>1 DEF Secrets, M!Issued
<1>4. ASSUME NEW id \in Nat
      PROVE  /\ M!Used(s, id) \in Secrets /\ M!Used(s, id).live = s.live \ {id}
             /\ M!Used(s, id).made = s.made /\ M!Used(s, id).spent = s.spent + 1
  BY <1>1 DEF Secrets, M!Used
<1>5. SecretMoves(s, M!Retired(s), k)
  BY <1>2 DEF SecretMoves
<1>6. SecretMoves(s, M!Issued(s), k)
  BY <1>3 DEF SecretMoves
<1>7. M!Issued(M!Retired(s)) \in Secrets /\ SecretMoves(s, M!Issued(M!Retired(s)), k)
  BY <1>2, <1>3 DEF SecretMoves
<1>8. \A id \in s.live : SecretMoves(s, M!Used(s, id), k)
  BY <1>1, <1>4 DEF SecretMoves
<1>9. \A id \in Nat : SecretMoves(s, M!Used(s, id), "registration")
  BY <1>4 DEF SecretMoves
<1> QED BY <1>2, <1>3, <1>4, <1>5, <1>6, <1>7, <1>8, <1>9

(* Every step moves tokens in one of these ways.                              *)
LEMMA SecretsMoveOn ==
  ASSUME MemberTypes, HandlersKnow, M!Next
  PROVE  SecretsMove
<1>0. ASSUME UNCHANGED secret PROVE SecretsMove
  BY <1>0 DEF SecretsMove, SecretMoves, MemberTypes
<1>s. \A e \in Emails, k \in M!Kinds : secret[e][k] \in Secrets
  BY DEF MemberTypes
<1>k. "registration" \in M!Kinds /\ "password_reset" \in M!Kinds /\ "email_verification" \in M!Kinds
  BY DEF M!Kinds
<1>1. ASSUME NEW h \in Handlers, M!Asked(h) PROVE SecretsMove
  <2>1. ASSUME NEW e \in Emails, M!ConfirmEmail(h, e) PROVE SecretsMove
    <3>1. PICK id \in secret[e]["email_verification"].live :
            secret' = [secret EXCEPT ![e]["email_verification"] = M!Used(@, id)]
      BY <2>1 DEF M!ConfirmEmail
    <3>2. id \in Nat
      BY <1>s, <1>k, <3>1 DEF Secrets
    <3>3. secret' = [secret EXCEPT ![e]["email_verification"] = M!Used(secret[e]["email_verification"], id)]
      BY <1>k, <3>1 DEF MemberTypes
    <3> DEFINE s == secret[e]["email_verification"]
    <3>4. M!Used(s, id) \in Secrets /\ SecretMoves(s, M!Used(s, id), "email_verification")
      BY <1>s, <1>k, <3>1, <3>2, SecretRowsMove
    <3> QED BY <1>k, <3>3, <3>4, OneSecretMoves
  <2>2. CASE ~\E e \in Emails : M!ConfirmEmail(h, e)
    <3>1. UNCHANGED secret
      BY <1>1, <2>2, Zenon DEF M!Asked, M!CheckSetup, M!Register, M!Login, M!RequestCode, M!RequestReset,
          M!AdminReset, M!RequestVerification, M!Ask, M!ReadKey, M!ReadUser, M!EnsureWallet
    <3> QED BY <1>0, <3>1
  <2> QED BY <2>1, <2>2
<1>2. ASSUME NEW h \in Handlers, M!Work(h) PROVE SecretsMove
  <2>1. ASSUME M!Retire(h) \/ M!Issue(h) PROVE SecretsMove
    <3>1. PICK e \in Emails, k \in M!Kinds : e = handler[h].email /\ k = handler[h].kind
      BY <2>1 DEF M!Retire, M!Issue, M!In, HandlersKnow, Known
    <3>2. \/ secret' = [secret EXCEPT ![e][k] = M!Retired(secret[e][k])]
          \/ secret' = [secret EXCEPT ![e][k] = M!Issued(secret[e][k])]
      BY <2>1, <3>1 DEF M!Retire, M!Issue, MemberTypes
    <3> QED BY <1>s, <3>2, SecretRowsMove, OneSecretMoves
  <2>2. CASE M!ConsumeCode(h)
    <3>1. PICK e \in Emails, id \in Nat : e = handler[h].email /\ id = handler[h].id
      BY <2>2 DEF M!ConsumeCode, M!In, HandlersKnow, Known, MemberTypes, HandlerRows
    <3>2. secret' = [secret EXCEPT ![e]["registration"] = M!Used(secret[e]["registration"], id)]
      BY <1>k, <2>2, <3>1 DEF M!ConsumeCode, MemberTypes
    <3> QED BY <1>s, <1>k, <3>2, SecretRowsMove, OneSecretMoves
  <2>3. CASE M!CreateUser(h)
    <3>1. PICK e \in Emails : e = handler[h].email
      BY <2>3 DEF M!CreateUser, M!In, HandlersKnow, Known
    <3>2. secret' = [secret EXCEPT ![e]["email_verification"] =
                       M!Issued(M!Retired(secret[e]["email_verification"]))]
      BY <1>k, <2>3, <3>1 DEF M!CreateUser, MemberTypes
    <3> QED BY <1>s, <1>k, <3>2, SecretRowsMove, OneSecretMoves
  <2>4. CASE ~(M!Retire(h) \/ M!Issue(h) \/ M!ConsumeCode(h) \/ M!CreateUser(h))
    <3>1. UNCHANGED secret
      BY <1>2, <2>4, Zenon DEF M!Work, M!CreateOwner, M!Load, M!OpenSession, M!MarkVerified, M!Redeem,
                        M!PatchKey, M!PatchUser, M!Drop
    <3> QED BY <1>0, <3>1
  <2> QED BY <2>1, <2>2, <2>3, <2>4
<1>3. ASSUME M!AtOnce PROVE SecretsMove
  <2>1. ASSUME NEW e \in Emails, NEW k \in M!Kinds, M!Expire(e, k) PROVE SecretsMove
    <3> DEFINE t(id) == [secret[e][k] EXCEPT !.live = @ \ {id}]
    <3>1. PICK id \in secret[e][k].live : secret' = [secret EXCEPT ![e][k] = t(id)]
      BY <2>1 DEF M!Expire, MemberTypes
    <3>2. t(id) \in Secrets /\ SecretMoves(secret[e][k], t(id), k)
      BY <1>s, <3>1 DEF Secrets, SecretMoves
    <3> HIDE DEF t
    <3> QED BY <3>1, <3>2, OneSecretMoves
  <2>2. ASSUME NEW e \in Emails, NEW p \in Passwords, M!ConfirmReset(e, p) PROVE SecretsMove
    <3>1. PICK id \in secret[e]["password_reset"].live :
            secret' = [secret EXCEPT ![e]["password_reset"] = M!Used(@, id)]
      BY <2>2 DEF M!ConfirmReset
    <3>2. id \in Nat
      BY <1>s, <1>k, <3>1 DEF Secrets
    <3>3. secret' = [secret EXCEPT ![e]["password_reset"] = M!Used(secret[e]["password_reset"], id)]
      BY <1>k, <3>1 DEF MemberTypes
    <3> DEFINE s == secret[e]["password_reset"]
    <3>4. M!Used(s, id) \in Secrets /\ SecretMoves(s, M!Used(s, id), "password_reset")
      BY <1>s, <1>k, <3>1, <3>2, SecretRowsMove
    <3> QED BY <1>k, <3>3, <3>4, OneSecretMoves
  <2>3. ASSUME NEW e \in Emails,
               \/ M!CreateKey(e) \/ M!DeleteKey(e)
               \/ \E a \in M!Audiences : M!Logout(e, a)
               \/ \E t \in M!Types, s \in M!Statuses : M!AdminCreateUser(e, t, s)
               \/ \E t \in M!Types : M!Seed(e, t)
        PROVE  SecretsMove
    BY <1>0, <2>3 DEF M!CreateKey, M!DeleteKey, M!Logout, M!AdminCreateUser, M!Seed
  <2>4. ASSUME NEW c \in Codes,
               M!PatchRedeemCode(c) \/ \E m \in 1 .. MaxClaims : M!CreateRedeemCode(c, m)
        PROVE  SecretsMove
    BY <1>0, <2>4, Zenon DEF M!PatchRedeemCode, M!CreateRedeemCode
  <2> QED BY <1>3, <2>1, <2>2, <2>3, <2>4 DEF M!AtOnce
<1> QED BY <1>1, <1>2, <1>3 DEF M!Next

(* The tokens that live and those that were used are among those that were    *)
(* made, and none is both.                                                    *)
LEMMA SecretsExactNext == MemberTypes /\ HandlersKnow /\ SecretsExact /\ M!Next => SecretsExact'
<1> SUFFICES ASSUME MemberTypes, HandlersKnow, SecretsExact, M!Next PROVE SecretsExact'
  OBVIOUS
<1>1. SecretsMove
  BY SecretsMoveOn
<1>2. ASSUME NEW e \in Emails, NEW k \in M!Kinds PROVE SecretExact(secret'[e][k], k)
  <2>1. secret[e][k] \in Secrets /\ secret'[e][k] \in Secrets
    BY <1>1 DEF MemberTypes, SecretsMove
  <2> QED BY <1>1, <2>1, SecretStaysExact DEF SecretsMove, SecretsExact
<1> QED BY <1>2 DEF SecretsExact

-----------------------------------------------------------------------------
(* Sessions, keys and wallets *)

(* A session is opened for a user who exists, or was there before.            *)
LEMMA SessionsMoveOn ==
  ASSUME MemberTypes, HandlersKnow, M!Next
  PROVE  /\ session' \in [Emails -> [M!Audiences -> Nat]]
         /\ \A e \in Emails, a \in M!Audiences :
              session'[e][a] \in {0, session[e][a]} \/ M!Exists(e) \/ session[e][a] > 0
<1> DEFINE Goal == /\ session' \in [Emails -> [M!Audiences -> Nat]]
                   /\ \A e \in Emails, a \in M!Audiences :
                        session'[e][a] \in {0, session[e][a]} \/ M!Exists(e) \/ session[e][a] > 0
<1>0. ASSUME UNCHANGED session PROVE Goal
  BY <1>0 DEF MemberTypes
<1>1. ASSUME NEW h \in Handlers, M!Asked(h) PROVE Goal
  <2>1. UNCHANGED session
    BY <1>1, Zenon DEF M!Asked, M!CheckSetup, M!Register, M!Login, M!RequestCode, M!RequestReset, M!AdminReset,
                M!RequestVerification, M!Ask, M!ConfirmEmail, M!ReadKey, M!ReadUser, M!EnsureWallet
  <2> QED BY <1>0, <2>1
<1>2. ASSUME NEW h \in Handlers, M!Work(h) PROVE Goal
  <2>1. CASE M!OpenSession(h)
    <3>1. PICK e \in Emails, a \in M!Audiences :
            e = handler[h].email /\ a = handler[h].kind /\ M!Exists(e)
      BY <2>1 DEF M!OpenSession, M!In, HandlersKnow, Known
    <3>2. session' = [session EXCEPT ![e][a] = session[e][a] + 1]
      BY <2>1, <3>1 DEF M!OpenSession, MemberTypes
    <3> QED BY <3>1, <3>2 DEF MemberTypes
  <2>2. CASE ~M!OpenSession(h)
    <3>1. UNCHANGED session
      BY <1>2, <2>2, Zenon DEF M!Work, M!CreateOwner, M!Load, M!Retire, M!Issue, M!ConsumeCode, M!CreateUser,
                        M!MarkVerified, M!Redeem, M!PatchKey, M!PatchUser, M!Drop
    <3> QED BY <1>0, <3>1
  <2> QED BY <2>1, <2>2
<1>3. ASSUME M!AtOnce PROVE Goal
  <2>1. ASSUME NEW e \in Emails, NEW a \in M!Audiences, M!Logout(e, a) PROVE Goal
    <3>1. session[e][a] > 0 /\ session' = [session EXCEPT ![e][a] = session[e][a] - 1]
      BY <2>1 DEF M!Logout, MemberTypes
    <3>2. session[e][a] - 1 \in Nat
      BY <3>1 DEF MemberTypes
    <3> QED BY <3>1, <3>2 DEF MemberTypes
  <2>2. ASSUME NEW e \in Emails, NEW p \in Passwords, M!ConfirmReset(e, p) PROVE Goal
    <3>1. session' = [session EXCEPT ![e] = [a \in M!Audiences |-> 0]]
      BY <2>2 DEF M!ConfirmReset
    <3> QED BY <3>1 DEF MemberTypes
  <2>3. ASSUME NEW e \in Emails,
               \/ M!CreateKey(e) \/ M!DeleteKey(e)
               \/ \E k \in M!Kinds : M!Expire(e, k)
               \/ \E t \in M!Types, s \in M!Statuses : M!AdminCreateUser(e, t, s)
               \/ \E t \in M!Types : M!Seed(e, t)
        PROVE  Goal
    BY <1>0, <2>3 DEF M!CreateKey, M!DeleteKey, M!Expire, M!AdminCreateUser, M!Seed
  <2>4. ASSUME NEW c \in Codes,
               M!PatchRedeemCode(c) \/ \E m \in 1 .. MaxClaims : M!CreateRedeemCode(c, m)
        PROVE  Goal
    BY <1>0, <2>4, Zenon DEF M!PatchRedeemCode, M!CreateRedeemCode
  <2> QED BY <1>3, <2>1, <2>2, <2>3, <2>4 DEF M!AtOnce
<1> QED BY <1>1, <1>2, <1>3 DEF M!Next

(* A key has a status of its own, or there is none.                           *)
LEMMA KeysStayTyped ==
  ASSUME MemberTypes, M!Next
  PROVE  key' \in [Emails -> M!KeyStatuses \cup {"none"}]
<1> DEFINE Goal == key' \in [Emails -> M!KeyStatuses \cup {"none"}]
<1>0. ASSUME UNCHANGED key PROVE Goal
  BY <1>0 DEF MemberTypes
<1>1. ASSUME NEW h \in Handlers, M!Asked(h) PROVE Goal
  BY <1>0, <1>1, Zenon DEF M!Asked, M!CheckSetup, M!Register, M!Login, M!RequestCode, M!RequestReset,
       M!AdminReset, M!RequestVerification, M!Ask, M!ConfirmEmail, M!ReadKey, M!ReadUser, M!EnsureWallet
<1>2. ASSUME NEW h \in Handlers, M!Work(h) PROVE Goal
  <2>1. CASE M!PatchKey(h)
    BY <2>1 DEF M!PatchKey, MemberTypes
  <2>2. CASE ~M!PatchKey(h)
    BY <1>0, <1>2, <2>2, Zenon DEF M!Work, M!CreateOwner, M!Load, M!OpenSession, M!Retire, M!Issue,
         M!ConsumeCode, M!CreateUser, M!MarkVerified, M!Redeem, M!PatchUser, M!Drop
  <2> QED BY <2>1, <2>2
<1>3. ASSUME M!AtOnce PROVE Goal
  <2>1. ASSUME NEW e \in Emails, M!CreateKey(e) \/ M!DeleteKey(e) PROVE Goal
    BY <2>1 DEF M!CreateKey, M!DeleteKey, MemberTypes, M!KeyStatuses
  <2>2. ASSUME NEW e \in Emails,
               \/ \E a \in M!Audiences : M!Logout(e, a)
               \/ \E p \in Passwords : M!ConfirmReset(e, p)
               \/ \E k \in M!Kinds : M!Expire(e, k)
               \/ \E t \in M!Types, s \in M!Statuses : M!AdminCreateUser(e, t, s)
               \/ \E t \in M!Types : M!Seed(e, t)
        PROVE  Goal
    BY <1>0, <2>2 DEF M!Logout, M!ConfirmReset, M!Expire, M!AdminCreateUser, M!Seed
  <2>3. ASSUME NEW c \in Codes,
               M!PatchRedeemCode(c) \/ \E m \in 1 .. MaxClaims : M!CreateRedeemCode(c, m)
        PROVE  Goal
    BY <1>0, <2>3, Zenon DEF M!PatchRedeemCode, M!CreateRedeemCode
  <2> QED BY <1>3, <2>1, <2>2, <2>3 DEF M!AtOnce
<1> QED BY <1>1, <1>2, <1>3 DEF M!Next

(* A row of wallets is never deleted, and is made for a user who exists.      *)
LEMMA WalletsStay ==
  ASSUME MemberTypes, HandlersKnow, UsersOnly, CodesExact, M!Next
  PROVE  /\ wallet' \in [Emails -> Nat \cup {-1}]
         /\ \A e \in Emails : wallet[e] # -1 => wallet'[e] # -1
         /\ \A e \in Emails : wallet'[e] # wallet[e] => M!Exists(e) \/ M!Exists(e)'
<1>1. CASE UNCHANGED wallet
  BY <1>1 DEF MemberTypes
<1>2. ASSUME NEW e \in Emails, wallet[e] = -1, wallet' = [wallet EXCEPT ![e] = 0], M!Exists(e)'
      PROVE  /\ wallet' \in [Emails -> Nat \cup {-1}]
             /\ \A x \in Emails : wallet[x] # -1 => wallet'[x] # -1
             /\ \A x \in Emails : wallet'[x] # wallet[x] => M!Exists(x) \/ M!Exists(x)'
  <2>1. wallet'[e] = 0 /\ \A x \in Emails : x # e => wallet'[x] = wallet[x]
    BY <1>2 DEF MemberTypes
  <2> QED BY <1>2, <2>1 DEF MemberTypes
<1>3. ASSUME NEW h \in Handlers, M!Redeem(h)
      PROVE  /\ wallet' \in [Emails -> Nat \cup {-1}]
             /\ \A x \in Emails : wallet[x] # -1 => wallet'[x] # -1
             /\ \A x \in Emails : wallet'[x] # wallet[x] => M!Exists(x) \/ M!Exists(x)'
  <2>1. PICK e \in Emails : /\ wallet[e] # -1 /\ M!Exists(e)
                            /\ wallet' = [wallet EXCEPT ![e] = @ + 1]
    BY <1>3, RedeemMoves
  <2>2. wallet[e] \in Nat /\ wallet'[e] = wallet[e] + 1 /\ \A x \in Emails : x # e => wallet'[x] = wallet[x]
    BY <2>1 DEF MemberTypes
  <2> QED BY <2>1, <2>2 DEF MemberTypes
<1> QED BY <1>1, <1>2, <1>3, WalletsMoveOn DEF WalletsMove

(* No session and no wallet is opened for nobody.                             *)
LEMMA UsersOnlyNext ==
  MemberTypes /\ HandlersKnow /\ UsersOnly /\ CodesExact /\ M!Next => UsersOnly'
<1> SUFFICES ASSUME MemberTypes, HandlersKnow, UsersOnly, CodesExact, M!Next PROVE UsersOnly'
  OBVIOUS
<1>1. \A e \in Emails : M!Exists(e) => M!Exists(e)'
  BY UsersMoveOn DEF UsersMove
<1>2. ASSUME NEW e \in Emails, ~M!Exists(e)'
      PROVE  wallet'[e] = -1 /\ \A a \in M!Audiences : session'[e][a] = 0
  <2>1. ~M!Exists(e) /\ wallet[e] = -1 /\ \A a \in M!Audiences : session[e][a] = 0
    BY <1>1, <1>2 DEF UsersOnly
  <2>2. wallet'[e] = -1
    BY <1>2, <2>1, WalletsStay
  <2>3. \A a \in M!Audiences : session'[e][a] = 0
    BY <2>1, SessionsMoveOn
  <2> QED BY <2>2, <2>3
<1> QED BY <1>2 DEF UsersOnly

-----------------------------------------------------------------------------
(* Handlers *)

HandlersMove == handler' \in [Handlers -> HandlerRows] /\ HandlersKnow'

(* What the others do between two statements of a handler takes nothing back  *)
(* of what it has seen, and what it makes of its own state it has just seen.  *)
LEMMA OneHandlerMoves ==
  ASSUME MemberTypes, HandlersKnow,
         \A e \in Emails : M!Exists(e) => M!Exists(e)',
         \A e \in Emails : wallet[e] # -1 => wallet'[e] # -1,
         NEW h \in Handlers, NEW t \in HandlerRows, handler' = [handler EXCEPT ![h] = t], Known(t)'
  PROVE  HandlersMove
<1>1. handler' \in [Handlers -> HandlerRows] /\ handler'[h] = t
  BY DEF MemberTypes
<1>2. ASSUME NEW x \in Handlers PROVE Known(handler[x])'
  <2>1. CASE x = h
    BY <1>1, <2>1 DEF Known
  <2>2. CASE x # h
    <3>1. handler'[x] = handler[x] /\ Known(handler[x])
      BY <2>2 DEF MemberTypes, HandlersKnow
    <3> QED BY <3>1 DEF Known, M!Exists
  <2> QED BY <2>1, <2>2
<1> QED BY <1>1, <1>2 DEF HandlersMove, HandlersKnow

(* What a handler has seen of the tables is so when it acts on it, whatever   *)
(* the others do between.                                                     *)
LEMMA HandlersMoveOn ==
  ASSUME MemberTypes, HandlersKnow, UsersOnly, CodesExact, M!Next
  PROVE  HandlersMove
<1>s. /\ \A e \in Emails : M!Exists(e) => M!Exists(e)'
      /\ \A e \in Emails : wallet[e] # -1 => wallet'[e] # -1
  BY UsersMoveOn, WalletsStay DEF UsersMove
<1>n. M!NoUser \in M!UserRows
  BY DEF M!NoUser, M!UserRows, M!Types, M!Statuses, M!Makers
<1>i. M!Idle \in HandlerRows /\ M!Idle.stage = "idle"
  BY <1>n DEF M!Idle, HandlerRows, Subjects, Emailed
<1>0. ASSUME UNCHANGED handler PROVE HandlersMove
  <2>1. ASSUME NEW x \in Handlers PROVE Known(handler[x])'
    BY <1>s, <1>0 DEF HandlersKnow, Known, M!Exists
  <2> QED BY <1>0, <2>1 DEF HandlersMove, HandlersKnow, MemberTypes
<1>1. ASSUME NEW h \in Handlers, M!Asked(h) PROVE HandlersMove
  <2> DEFINE Started(t) == /\ t \in HandlerRows /\ Known(t)' /\ handler' = [handler EXCEPT ![h] = t]
  <2>1. PICK e \in Emails :
          \/ \E p \in Passwords : M!CheckSetup(h, e, p) \/ M!Register(h, e, p)
          \/ \E p \in Passwords, w \in {"any"} \cup M!Audiences : M!Login(h, e, p, w)
          \/ M!RequestCode(h, e) \/ M!RequestReset(h, e) \/ M!AdminReset(h, e) \/ M!RequestVerification(h, e)
          \/ M!ConfirmEmail(h, e) \/ M!ReadKey(h, e) \/ M!ReadUser(h, e)
          \/ \E c \in Codes : M!EnsureWallet(h, e, c)
    BY <1>1 DEF M!Asked
  <2>2. ASSUME NEW p \in Passwords, M!CheckSetup(h, e, p) PROVE \E t : Started(t)
    <3> DEFINE r == M!Row("platform_owner", p, "setup")
    <3> DEFINE t == [M!Idle EXCEPT !.stage = "setup", !.email = e, !.row = r]
    <3>1. r \in M!UserRows /\ r.type = "platform_owner"
      BY RowIsUser DEF M!Types, M!Makers
    <3>2. handler' = [handler EXCEPT ![h] = t]
      BY <2>2 DEF M!CheckSetup, M!Begin, M!Go
    <3> HIDE DEF r
    <3>3. t \in HandlerRows /\ t.stage = "setup" /\ t.email = e /\ t.row = r
      BY <1>i, <3>1 DEF HandlerRows, M!Idle, Emailed
    <3> HIDE DEF t
    <3>4. Known(t)'
      BY <3>1, <3>3 DEF Known
    <3> QED BY <3>2, <3>3, <3>4
  <2>3. ASSUME NEW p \in Passwords, M!Register(h, e, p) PROVE \E t : Started(t)
    <3> DEFINE r == M!Row("personal_user", p, "register")
    <3>1. r \in M!UserRows /\ r.type = "personal_user"
      BY RowIsUser DEF M!Types, M!Makers
    <3> HIDE DEF r
    <3>2. CASE ~verify
      <4> DEFINE t == [[M!Idle EXCEPT !.email = e, !.row = r] EXCEPT !.stage = "create"]
      <4>1. handler' = [handler EXCEPT ![h] = t]
        BY <2>3, <3>2, Zenon DEF M!Register, M!Begin, M!Go, r
      <4>2. t \in HandlerRows /\ t.stage = "create" /\ t.email = e /\ t.row = r
        BY <1>i, <3>1 DEF HandlerRows, M!Idle, Emailed
      <4> HIDE DEF t
      <4>3. Known(t)'
        BY <3>1, <4>2 DEF Known
      <4> QED BY <4>1, <4>2, <4>3
    <3>3. CASE verify
      <4> DEFINE t(id) == [[M!Idle EXCEPT !.email = e, !.row = r] EXCEPT !.stage = "consume", !.id = id]
      <4>1. PICK id \in secret[e]["registration"].live : handler' = [handler EXCEPT ![h] = t(id)]
        BY <2>3, <3>3, Zenon DEF M!Register, M!Begin, M!Go, r
      <4>2. id \in Nat
        BY DEF MemberTypes, M!Kinds, Secrets
      <4>3. t(id) \in HandlerRows /\ t(id).stage = "consume" /\ t(id).email = e /\ t(id).row = r
        BY <1>i, <3>1, <4>2 DEF HandlerRows, M!Idle, Emailed
      <4>4. PICK u : u = t(id)
        OBVIOUS
      <4> HIDE DEF t
      <4>5. Known(u)'
        BY <3>1, <4>3, <4>4 DEF Known
      <4> QED BY <4>1, <4>3, <4>4, <4>5
    <3> QED BY <3>2, <3>3
  <2>4. ASSUME NEW p \in Passwords, NEW w \in {"any"} \cup M!Audiences, M!Login(h, e, p, w)
        PROVE  \E t : Started(t)
    <3> DEFINE t == [M!Idle EXCEPT !.stage = "load", !.email = e, !.kind = w, !.row.password = p]
    <3>1. [M!NoUser EXCEPT !.password = p] \in M!UserRows
      BY <1>n DEF M!UserRows, M!NoUser
    <3>2. t \in HandlerRows /\ t.stage = "load" /\ t.email = e
      BY <1>i, <3>1 DEF HandlerRows, M!Idle, Emailed, Subjects
    <3>3. handler' = [handler EXCEPT ![h] = t]
      BY <2>4 DEF M!Login, M!Begin, M!Go
    <3> HIDE DEF t
    <3>4. Known(t)'
      BY <3>2 DEF Known
    <3> QED BY <3>2, <3>3, <3>4
  <2>5. ASSUME M!RequestCode(h, e) \/ M!RequestReset(h, e) \/ M!AdminReset(h, e) \/ M!RequestVerification(h, e)
        PROVE  \E t : Started(t)
    <3>1. PICK kind \in M!Kinds : M!Ask(h, e, kind)
      BY <2>5 DEF M!RequestCode, M!RequestReset, M!AdminReset, M!RequestVerification, M!Kinds
    <3> DEFINE t == [M!Idle EXCEPT !.stage = "retire", !.email = e, !.kind = kind]
    <3>2. t \in HandlerRows /\ t.stage = "retire" /\ t.email = e /\ t.kind = kind
      BY <1>i DEF HandlerRows, M!Idle, Emailed, Subjects
    <3>3. handler' = [handler EXCEPT ![h] = t]
      BY <3>1 DEF M!Ask, M!Begin, M!Go
    <3> HIDE DEF t
    <3>4. Known(t)'
      BY <3>2 DEF Known
    <3> QED BY <3>2, <3>3, <3>4
  <2>6. ASSUME M!ConfirmEmail(h, e) PROVE \E t : Started(t)
    <3> DEFINE t == [M!Idle EXCEPT !.stage = "verify", !.email = e]
    <3>1. t \in HandlerRows /\ t.stage = "verify" /\ t.email = e
      BY <1>i DEF HandlerRows, M!Idle, Emailed
    <3>2. handler' = [handler EXCEPT ![h] = t]
      BY <2>6 DEF M!ConfirmEmail, M!Begin, M!Go
    <3> HIDE DEF t
    <3>3. Known(t)'
      BY <3>1 DEF Known
    <3> QED BY <3>1, <3>2, <3>3
  <2>7. ASSUME M!ReadKey(h, e) PROVE \E t : Started(t)
    <3>1. PICK kind \in M!KeyStatuses : kind = key[e]
      BY <2>7 DEF M!ReadKey, MemberTypes
    <3> DEFINE t == [M!Idle EXCEPT !.stage = "key", !.email = e, !.kind = kind]
    <3>2. t \in HandlerRows /\ t.stage = "key" /\ t.email = e
      BY <1>i DEF HandlerRows, M!Idle, Emailed, Subjects
    <3>3. handler' = [handler EXCEPT ![h] = t]
      BY <2>7, <3>1 DEF M!ReadKey, M!Begin, M!Go
    <3> HIDE DEF t
    <3>4. Known(t)'
      BY <3>2 DEF Known
    <3> QED BY <3>2, <3>3, <3>4
  <2>8. ASSUME M!ReadUser(h, e) PROVE \E t : Started(t)
    <3>1. PICK r \in M!UserRows : r = user[e]
      BY DEF MemberTypes
    <3> DEFINE t == [M!Idle EXCEPT !.stage = "user", !.email = e, !.row = r]
    <3>2. t \in HandlerRows /\ t.stage = "user" /\ t.email = e /\ t.row = r
      BY <1>i DEF HandlerRows, M!Idle, Emailed
    <3>3. handler' = [handler EXCEPT ![h] = t]
      BY <2>8, <3>1 DEF M!ReadUser, M!Begin, M!Go
    <3>5. M!Exists(e)' /\ r.type \in M!Types
      BY <1>s, <2>8, <3>1 DEF M!ReadUser, M!Exists, M!UserRows
    <3> HIDE DEF t
    <3>4. Known(t)'
      BY <3>2, <3>5 DEF Known, M!Exists
    <3> QED BY <3>2, <3>3, <3>4
  <2>9. ASSUME NEW c \in Codes, M!EnsureWallet(h, e, c) PROVE \E t : Started(t)
    <3> DEFINE t == [M!Idle EXCEPT !.stage = "redeem", !.email = e, !.code = c]
    <3>1. t \in HandlerRows /\ t.stage = "redeem" /\ t.email = e /\ t.code = c
      BY <1>i DEF HandlerRows, M!Idle, Emailed
    <3>2. handler' = [handler EXCEPT ![h] = t]
      BY <2>9 DEF M!EnsureWallet, M!Begin, M!Go
    <3>3. wallet'[e] # -1 /\ M!Exists(e)
      BY <2>9 DEF M!EnsureWallet, M!InPortal, M!Has, UsersOnly, M!Exists, M!Audiences, MemberTypes
    <3>4. M!Exists(e)'
      BY <1>s, <3>3
    <3> HIDE DEF t
    <3>5. Known(t)'
      BY <3>1, <3>3, <3>4 DEF Known, M!Exists
    <3> QED BY <3>1, <3>2, <3>5
  <2>10. PICK t : Started(t)
    BY <2>1, <2>2, <2>3, <2>4, <2>5, <2>6, <2>7, <2>8, <2>9
  <2> QED BY <1>s, <2>10, OneHandlerMoves
<1>2. ASSUME NEW h \in Handlers, M!Work(h) PROVE HandlersMove
  <2>t. PICK t \in HandlerRows : t = handler[h] /\ Known(t)
    BY DEF MemberTypes, HandlersKnow
  <2>1. ASSUME handler' = [handler EXCEPT ![h] = M!Idle] PROVE HandlersMove
    <3>1. PICK i \in HandlerRows : i = M!Idle /\ i.stage = "idle"
      BY <1>i
    <3>2. Known(i)'
      BY <3>1 DEF Known
    <3> QED BY <1>s, <2>1, <3>1, <3>2, OneHandlerMoves
  <2>2. ASSUME NEW stage \in Emailed, NEW kind \in Subjects,
               handler' = [handler EXCEPT ![h] = [t EXCEPT !.stage = stage, !.kind = kind]],
               Known([t EXCEPT !.stage = stage, !.kind = kind])'
        PROVE  HandlersMove
    <3> DEFINE n == [t EXCEPT !.stage = stage, !.kind = kind]
    <3>1. n \in HandlerRows BY DEF HandlerRows
    <3>2. handler' = [handler EXCEPT ![h] = n] /\ Known(n)' BY <2>2
    <3> HIDE DEF n
    <3> QED BY <1>s, <3>1, <3>2, OneHandlerMoves
  <2>3. CASE M!CreateOwner(h)
    BY <2>3, <2>2, <2>t, Zenon DEF M!CreateOwner, M!In, M!Go, Known, HandlerRows, Emailed, Subjects, M!Audiences
  <2>4. CASE M!CreateUser(h)
    BY <2>4, <2>2, <2>t, Zenon DEF M!CreateUser, M!In, M!Go, Known, HandlerRows, Emailed, Subjects, M!Audiences
  <2>5. CASE M!Load(h)
    <3>1. CASE handler' = [handler EXCEPT ![h] = M!Idle]
      BY <2>1, <3>1
    <3>2. CASE handler' # [handler EXCEPT ![h] = M!Idle]
      <4>1. M!Exists(t.email)
            /\ handler' = [handler EXCEPT ![h] = [t EXCEPT !.stage = "open", !.kind = M!Workspace(user[t.email].type)]]
        BY <2>5, <2>t, <3>2 DEF M!Load, M!Go
      <4>2. PICK kind \in M!Audiences : kind = M!Workspace(user[t.email].type)
        BY DEF M!Workspace, M!Audiences
      <4>3. t.email \in Emails
        BY <2>5, <2>t DEF M!Load, M!In, Known
      <4>4. Known([t EXCEPT !.stage = "open", !.kind = kind])'
        BY <1>s, <4>1, <4>3 DEF Known, HandlerRows
      <4> QED BY <2>2, <4>1, <4>2, <4>4, Zenon DEF Emailed, Subjects
    <3> QED BY <3>1, <3>2
  <2>6. CASE M!Retire(h)
    <3>1. handler' = [handler EXCEPT ![h] = [t EXCEPT !.stage = "insert"]]
          /\ t.email \in Emails /\ t.kind \in M!Kinds
      BY <2>6, <2>t DEF M!Retire, M!In, M!Then, M!Go, Known
    <3>2. [t EXCEPT !.stage = "insert"] = [t EXCEPT !.stage = "insert", !.kind = t.kind]
      BY DEF HandlerRows
    <3>3. Known([t EXCEPT !.stage = "insert", !.kind = t.kind])'
      BY <3>1 DEF Known, HandlerRows
    <3> QED BY <2>2, <3>1, <3>2, <3>3, Zenon DEF Emailed, Subjects
  <2>7. CASE M!ConsumeCode(h)
    <3>1. handler' = [handler EXCEPT ![h] = [t EXCEPT !.stage = "create"]]
          /\ t.email \in Emails /\ t.row.type = "personal_user" /\ t.kind \in Subjects
      BY <2>7, <2>t DEF M!ConsumeCode, M!In, M!Then, M!Go, Known, HandlerRows
    <3>2. [t EXCEPT !.stage = "create"] = [t EXCEPT !.stage = "create", !.kind = t.kind]
      BY DEF HandlerRows
    <3>3. Known([t EXCEPT !.stage = "create", !.kind = t.kind])'
      BY <3>1 DEF Known, HandlerRows
    <3> QED BY <2>2, <3>1, <3>2, <3>3, Zenon DEF Emailed
  <2>8. CASE M!OpenSession(h) \/ M!Issue(h) \/ M!MarkVerified(h) \/ M!Redeem(h) \/ M!PatchKey(h)
             \/ M!PatchUser(h) \/ M!Drop(h)
    BY <2>1, <2>8, Zenon DEF M!OpenSession, M!Issue, M!MarkVerified, M!Redeem, M!PatchKey, M!PatchUser,
                      M!Drop, M!Go
  <2> QED BY <1>2, <2>3, <2>4, <2>5, <2>6, <2>7, <2>8 DEF M!Work
<1>3. ASSUME M!AtOnce PROVE HandlersMove
  BY <1>0, <1>3, Zenon DEF M!AtOnce, M!CreateKey, M!DeleteKey, M!Logout, M!Expire, M!ConfirmReset,
       M!AdminCreateUser, M!Seed, M!PatchRedeemCode, M!CreateRedeemCode
<1> QED BY <1>1, <1>2, <1>3 DEF M!Next

-----------------------------------------------------------------------------
(* The setup *)

(* CreateOwner looks again, and finds nobody.                                 *)
LEMMA OneSetupNext == MemberTypes /\ HandlersKnow /\ OneSetup /\ M!Next => OneSetup'
<1> SUFFICES ASSUME MemberTypes, HandlersKnow, OneSetup, M!Next PROVE OneSetup'
  OBVIOUS
<1>1. UsersMove
  BY UsersMoveOn
<1>2. ASSUME NEW h \in Handlers, M!CreateOwner(h) PROVE OneSetup'
  <2>1. \A e \in Emails : ~SetupOwner(e)
    BY <1>2 DEF M!CreateOwner, M!Owners, SetupOwner
  <2>2. \A e \in Emails : e # handler[h].email => user'[e] = user[e]
    BY <1>2 DEF M!CreateOwner, M!Insert, MemberTypes
  <2> QED BY <2>1, <2>2 DEF OneSetup, SetupOwner
<1>3. CASE ~\E h \in Handlers : M!CreateOwner(h)
  <2>1. \A e \in Emails : SetupOwner(e)' => SetupOwner(e)
    BY <1>1, <1>3 DEF UsersMove
  <2> QED BY <2>1 DEF OneSetup
<1> QED BY <1>2, <1>3

-----------------------------------------------------------------------------
(* The inductive invariant of the users                                       *)
MemberInv == /\ MemberTypes /\ HandlersKnow /\ UsersOnly /\ CodesExact /\ CreditsExact
             /\ SecretsExact /\ OneSetup

(* The invariant holds of the tables that a behaviour begins with.            *)
LEMMA MemberInvInit == M!Init => MemberInv
BY MemberInitTypes, MemberInitExact DEF MemberInv

(* Every statement of every handler keeps the invariant.                      *)
LEMMA MemberInvNext == MemberInv /\ [M!Next]_memberVars => MemberInv'
<1> SUFFICES ASSUME MemberInv, [M!Next]_memberVars PROVE MemberInv'
  OBVIOUS
<1>1. CASE M!Next
  <2>1. MemberTypes /\ HandlersKnow /\ UsersOnly /\ CodesExact /\ CreditsExact /\ SecretsExact /\ OneSetup
    BY DEF MemberInv
  <2>2. handler' \in [Handlers -> HandlerRows] /\ HandlersKnow'
    BY <1>1, <2>1, HandlersMoveOn DEF HandlersMove
  <2>3. user' \in [Emails -> M!UserRows]
    BY <1>1, <2>1, UsersMoveOn DEF UsersMove
  <2>4. code' \in [Codes -> M!CodeRows]
    BY <1>1, <2>1, CodesMoveOn, RedeemMoves DEF CodesStay
  <2>5. MemberTypes'
    BY <1>1, <2>1, <2>2, <2>3, <2>4, WalletsStay, SessionsMoveOn, KeysStayTyped, SecretsMoveOn
      DEF MemberTypes, SecretsMove
  <2> QED BY <1>1, <2>1, <2>2, <2>5, UsersOnlyNext, CodesExactNext, CreditsExactNext, SecretsExactNext,
             OneSetupNext DEF MemberInv
<1>2. CASE UNCHANGED memberVars
  BY <1>2 DEF memberVars, MemberInv, MemberTypes, HandlersKnow, Known, UsersOnly, CodesExact, CreditsExact,
              ClaimedBy, SecretsExact, SecretExact, OneSetup, SetupOwner, M!Exists
<1> QED BY <1>1, <1>2

(* Members extends FiniteSets: its instance has a Cardinality of its own, and  *)
(* it is the same.                                                            *)
LEMMA SameCardinality == \A S : M!Cardinality(S) = Cardinality(S)
BY DEF M!Cardinality, Cardinality

(* The invariant is stronger than OnceEach, which is about codes, tokens and  *)
(* the setup.                                                                 *)
LEMMA MemberInvIsOnce == MemberInv => M!OnceEach
<1> SUFFICES ASSUME MemberInv PROVE M!OnceEach
  OBVIOUS
<1>1. \A c \in Codes : code[c].count = Cardinality(code[c].claims) /\ code[c].count <= code[c].max
  BY DEF MemberInv, CodesExact
<1>2. ASSUME NEW e \in Emails
      PROVE  /\ wallet[e] # -1 => wallet[e] = Cardinality({c \in Codes : e \in code[c].claims})
             /\ \A k \in M!Kinds \ {"registration"} :
                  secret[e][k].spent + Cardinality(secret[e][k].live) <= secret[e][k].made
  BY DEF MemberInv, CreditsExact, ClaimedBy, SecretsExact, SecretExact
<1>4. Cardinality({e \in M!Owners : user[e].by = "setup"}) <= 1
  <2> DEFINE S == {e \in M!Owners : user[e].by = "setup"}
  <2>1. CASE S = {}
    <3>1. Cardinality(S) = 0 BY <2>1, FS_EmptySet, Zenon
    <3> QED BY <3>1
  <2>2. ASSUME NEW e \in S PROVE Cardinality(S) <= 1
    <3>1. S = {e}
      BY DEF MemberInv, OneSetup, SetupOwner, M!Owners
    <3>2. Cardinality(S) = 1
      BY <3>1, FS_Singleton, Zenon
    <3> QED BY <3>2
  <2> QED BY <2>1, <2>2
<1> QED BY <1>1, <1>2, <1>4, SameCardinality, Zenon DEF M!OnceEach

-----------------------------------------------------------------------------
(* Notices: their types.                                                      *)
Outcomes == {"none", "pending", "sent", "failed", "suppressed"}
EventRows == [status : Outcomes, due : BOOLEAN, attempts : 0 .. MaxAttempts + 1]
Dispatches == [stage : {"idle", "claimed", "sending"}, event : Events \cup {NoEvent},
               attempts : 0 .. MaxAttempts + 1, todo : SUBSET Webhooks,
               ok : SUBSET Webhooks, bad : SUBSET Webhooks]
ChannelRows == Edits \cup {N!Sealed(x) : x \in Edits} \cup {N!NoChannel}

NoticeTypes ==
  /\ event \in [Events -> EventRows]
  /\ channel \in [Webhooks -> ChannelRows]
  /\ dispatch \in [Dispatchers -> Dispatches]
  /\ \A d \in Dispatchers : dispatch[d].stage = "idle" \/ dispatch[d].event \in Events
  /\ heard \in [Events -> [Webhooks -> 0 .. 2]]
  /\ slow \in BOOLEAN /\ crashes \in Nat /\ edits \in Nat /\ crashes + edits <= MaxTroubles

(* Events begin unwritten, channels unset and dispatchers idle, each of its   *)
(* type.                                                                      *)
LEMMA NoticeInitTypes == N!Init => NoticeTypes
BY NoticeAssumption DEF N!Init, NoticeTypes, N!Idle, Outcomes, EventRows, Dispatches, ChannelRows

(* Every step keeps the types; attempts stop at their limit.                  *)
LEMMA NoticeNextTypes == NoticeTypes /\ N!Next => NoticeTypes'
<1> SUFFICES ASSUME NoticeTypes, N!Next PROVE NoticeTypes'
  OBVIOUS
<1> USE NoticeAssumption
<1>1. ASSUME NEW e \in Events, N!Emit(e) PROVE NoticeTypes'
  BY <1>1 DEF NoticeTypes, N!Emit, EventRows, Outcomes
<1>2. ASSUME NEW e \in Events, N!ComesDue(e) PROVE NoticeTypes'
  BY <1>2 DEF NoticeTypes, N!ComesDue, EventRows
<1>3. ASSUME NEW e \in Events, N!RetryEvent(e) PROVE NoticeTypes'
  BY <1>3 DEF NoticeTypes, N!RetryEvent, N!Order, EventRows, Outcomes
<1>4. ASSUME NEW e \in Events, NEW d \in Dispatchers, N!Claim(d, e) PROVE NoticeTypes'
  <2>1. N!More(event[e].attempts) \in 0 .. MaxAttempts + 1
    BY DEF NoticeTypes, N!More, EventRows
  <2>2. N!Leased(e) \in EventRows
    BY <2>1 DEF NoticeTypes, N!Leased, EventRows
  <2> DEFINE row == [N!Idle EXCEPT !.stage = "claimed", !.event = e, !.attempts = N!Leased(e).attempts]
  <2>3. N!Leased(e).attempts \in 0 .. MaxAttempts + 1
    BY <2>2 DEF EventRows
  <2>4. row \in Dispatches /\ row.event = e
    BY <2>3 DEF N!Idle, Dispatches
  <2>5. dispatch' = [dispatch EXCEPT ![d] = row]
    BY <1>4 DEF N!Claim
  <2> HIDE DEF row
  <2> QED BY <1>4, <2>2, <2>4, <2>5 DEF NoticeTypes, N!Claim
<1>5. ASSUME NEW d \in Dispatchers, N!Dispatch(d) PROVE NoticeTypes'
  <2>1. N!ChannelsFor(dispatch[d].event) \in SUBSET Webhooks
    BY DEF N!ChannelsFor
  <2>2. dispatch[d].event \in Events
    BY <1>5 DEF NoticeTypes, N!Dispatch
  <2>3. CASE N!ChannelsFor(dispatch[d].event) = {}
    <3>1. event' \in [Events -> EventRows]
      BY <1>5, <2>2, <2>3 DEF NoticeTypes, N!Dispatch, EventRows, Outcomes
    <3>2. dispatch' = [dispatch EXCEPT ![d] = N!Idle] /\ UNCHANGED <<channel, heard, slow, crashes, edits>>
      BY <1>5, <2>3 DEF N!Dispatch
    <3> QED BY <3>1, <3>2 DEF NoticeTypes, N!Idle, Dispatches
  <2>4. CASE N!ChannelsFor(dispatch[d].event) # {}
    <3>1. dispatch' = [dispatch EXCEPT ![d].stage = "sending", ![d].todo = N!ChannelsFor(dispatch[d].event)]
      BY <1>5, <2>4 DEF N!Dispatch
    <3>2. /\ dispatch' \in [Dispatchers -> Dispatches]
          /\ \A f \in Dispatchers : dispatch'[f].event = dispatch[f].event
          /\ \A f \in Dispatchers : f # d => dispatch'[f] = dispatch[f]
      <4>1. dispatch[d] \in Dispatches
        BY DEF NoticeTypes
      <4>2. [dispatch[d] EXCEPT !.stage = "sending", !.todo = N!ChannelsFor(dispatch[d].event)] \in Dispatches
        BY <2>1, <4>1 DEF Dispatches
      <4>3. [dispatch[d] EXCEPT !.stage = "sending", !.todo = N!ChannelsFor(dispatch[d].event)].event = dispatch[d].event
        BY <4>1 DEF Dispatches
      <4> QED BY <3>1, <4>2, <4>3 DEF NoticeTypes
    <3>3. UNCHANGED <<event, channel, heard, slow, crashes, edits>>
      BY <1>5, <2>4 DEF N!Dispatch
    <3> QED BY <2>2, <3>2, <3>3 DEF NoticeTypes
  <2> QED BY <2>3, <2>4
<1>6. ASSUME NEW d \in Dispatchers, N!Send(d) PROVE NoticeTypes'
  <2>1. PICK c \in Webhooks :
          /\ \/ heard' = heard
             \/ heard' = [heard EXCEPT ![dispatch[d].event][c] = IF @ = 2 THEN 2 ELSE @ + 1]
          /\ \/ dispatch' = [dispatch EXCEPT ![d].todo = @ \ {c}, ![d].ok = @ \cup {c}]
             \/ dispatch' = [dispatch EXCEPT ![d].todo = @ \ {c}, ![d].bad = @ \cup {c}]
    BY <1>6 DEF NoticeTypes, N!Send, Dispatches
  <2>2. dispatch[d].event \in Events
    BY <1>6 DEF NoticeTypes, N!Send
  <2>3. heard' \in [Events -> [Webhooks -> 0 .. 2]]
    <3>1. (IF heard[dispatch[d].event][c] = 2 THEN 2 ELSE heard[dispatch[d].event][c] + 1) \in 0 .. 2
      BY <2>2 DEF NoticeTypes
    <3> QED BY <2>1, <2>2, <3>1 DEF NoticeTypes
  <2>4. UNCHANGED <<event, channel, slow, crashes, edits>>
    BY <1>6 DEF N!Send
  <2>5. dispatch' \in [Dispatchers -> Dispatches]
    <3> DEFINE heeded == [dispatch[d] EXCEPT !.todo = @ \ {c}, !.ok = @ \cup {c}]
               failed == [dispatch[d] EXCEPT !.todo = @ \ {c}, !.bad = @ \cup {c}]
    <3>1. heeded \in Dispatches /\ failed \in Dispatches
      <4>1. dispatch[d] \in Dispatches
        BY DEF NoticeTypes
      <4>2. heeded \in Dispatches
        BY <4>1 DEF Dispatches
      <4>3. failed \in Dispatches
        BY <4>1 DEF Dispatches
      <4> QED BY <4>2, <4>3
    <3>2. dispatch' = [dispatch EXCEPT ![d] = heeded] \/ dispatch' = [dispatch EXCEPT ![d] = failed]
      BY <2>1
    <3> HIDE DEF heeded, failed
    <3> QED BY <3>1, <3>2 DEF NoticeTypes
  <2>6. dispatch'[d].stage = dispatch[d].stage /\ dispatch'[d].event = dispatch[d].event
    BY <2>1 DEF NoticeTypes, Dispatches
  <2>7. \A f \in Dispatchers : f # d => dispatch'[f] = dispatch[f]
    BY <2>1 DEF NoticeTypes
  <2> QED BY <2>3, <2>4, <2>5, <2>6, <2>7 DEF NoticeTypes
<1>7. ASSUME NEW d \in Dispatchers, N!Finish(d) PROVE NoticeTypes'
  <2>1. N!Outcome(d) \in Outcomes
    BY DEF N!Outcome, Outcomes
  <2>2. dispatch[d].event \in Events
    BY <1>7 DEF NoticeTypes, N!Finish
  <2>3. event' \in [Events -> EventRows]
    <3> DEFINE e == dispatch[d].event
               due == (N!Outcome(d) = "sent") /\ event[e].due
               row == [event[e] EXCEPT !.status = N!Outcome(d), !.due = due]
    <3>1. row \in EventRows
      <4>1. event[e] \in EventRows /\ due \in BOOLEAN
        BY <2>2 DEF NoticeTypes
      <4> HIDE DEF due
      <4> QED BY <2>1, <4>1 DEF EventRows
    <3>2. event' = [event EXCEPT ![e] = row]
      BY <1>7, <2>2 DEF N!Finish, NoticeTypes
    <3> HIDE DEF row
    <3> QED BY <3>1, <3>2, <2>2 DEF NoticeTypes
  <2>4. dispatch' = [dispatch EXCEPT ![d] = N!Idle] /\ UNCHANGED <<channel, heard, slow, crashes, edits>>
    BY <1>7 DEF N!Finish
  <2> QED BY <2>3, <2>4 DEF NoticeTypes, N!Idle, Dispatches
<1>8. ASSUME NEW d \in Dispatchers, N!Crash(d) PROVE NoticeTypes'
  BY <1>8 DEF NoticeTypes, N!Crash, N!Idle, Dispatches
<1>9. ASSUME NEW c \in Webhooks, NEW edit \in Edits, N!UpsertChannel(c, edit) PROVE NoticeTypes'
  BY <1>9 DEF NoticeTypes, N!UpsertChannel, N!Order, ChannelRows
<1> QED BY <1>1, <1>2, <1>3, <1>4, <1>5, <1>6, <1>7, <1>8, <1>9 DEF N!Next, N!Work

(* Nothing outlived a claim, crashed or was sent again by hand.               *)
Calm == ~slow /\ crashes = 0 /\ edits = 0

(* The event that a dispatch has claimed.                                     *)
On(d) == dispatch[d].event

(* Then at most one dispatch has an event; who hears of it is in its list or   *)
(* had it by the dispatch that settled it.                                    *)
Alone ==
  /\ \A d \in Dispatchers : /\ dispatch[d].stage = "idle" => On(d) = NoEvent
                            /\ dispatch[d].stage = "claimed" => dispatch[d].ok = {}
                            /\ dispatch[d].todo \cap dispatch[d].ok = {}
  /\ \A d, f \in Dispatchers : On(d) = On(f) => d = f \/ On(d) = NoEvent
  /\ \A d \in Dispatchers : On(d) \in Events =>
       /\ event[On(d)].status = "pending" /\ ~event[On(d)].due
       /\ \A c \in Webhooks \ dispatch[d].ok : heard[On(d)][c] = 0
  /\ \A e \in Events, c \in Webhooks :
       /\ heard[e][c] <= 1
       /\ heard[e][c] > 0 /\ (\A d \in Dispatchers : On(d) # e) => event[e].status = "sent"

(* Nobody has heard of anything when it begins.                               *)
LEMMA NoticeInitAlone == N!Init => Alone
BY NoticeAssumption DEF N!Init, Alone, N!Idle, On

(* While it is calm, a claim is of an event that nobody else has, and an      *)
(* event that was heard of is not claimed again.                              *)
LEMMA NoticeNextAlone ==
  NoticeTypes /\ (Calm => Alone) /\ N!Next => (Calm' => Alone')
<1> SUFFICES ASSUME NoticeTypes, Calm => Alone, N!Next, Calm' PROVE Alone'
  OBVIOUS
<1> USE NoticeAssumption
<1>1. ASSUME NEW e \in Events, N!Emit(e) PROVE Alone'
  <2>1. Alone BY <1>1 DEF Calm, N!Emit
  <2>2. \A d \in Dispatchers : On(d) # e
    BY <1>1, <2>1 DEF Alone, N!Emit
  <2>3. \A c \in Webhooks : ~(heard[e][c] > 0)
    BY <1>1, <2>1, <2>2 DEF Alone, N!Emit
  <2>4. \A x \in Events : x # e => event'[x] = event[x]
    BY <1>1 DEF N!Emit, NoticeTypes
  <2> QED BY <1>1, <2>1, <2>2, <2>3, <2>4 DEF Alone, N!Emit, On
<1>2. ASSUME NEW e \in Events, N!ComesDue(e) PROVE Alone'
  <2>1. Alone BY <1>2 DEF Calm, N!ComesDue
  <2>2. \A d \in Dispatchers : On(d) # e
    BY <1>2 DEF Calm, N!ComesDue, On
  <2>3. \A x \in Events : x # e => event'[x] = event[x]
    BY <1>2 DEF N!ComesDue, NoticeTypes
  <2>4. event'[e].status = event[e].status
    BY <1>2 DEF N!ComesDue, NoticeTypes, EventRows
  <2> QED BY <1>2, <2>1, <2>2, <2>3, <2>4 DEF Alone, N!ComesDue, On
<1>3. ASSUME NEW e \in Events, N!RetryEvent(e) PROVE Alone'
  BY <1>3 DEF Calm, N!RetryEvent, N!Order, NoticeTypes
<1>4. ASSUME NEW e \in Events, NEW d \in Dispatchers, N!Claim(d, e) PROVE Alone'
  <2>1. Alone BY <1>4 DEF Calm, N!Claim
  <2>2. event[e].status = "pending" /\ event[e].due
    BY <1>4 DEF N!Claim, N!Claimable
  <2>3. \A f \in Dispatchers : On(f) # e
    BY <2>1, <2>2 DEF Alone
  <2>4. \A c \in Webhooks : heard[e][c] = 0
    <3> TAKE c \in Webhooks
    <3>1. heard[e][c] \in 0 .. 2 BY DEF NoticeTypes
    <3>2. ~(heard[e][c] > 0) BY <2>1, <2>2, <2>3 DEF Alone
    <3> QED BY <3>1, <3>2
  <2>5. /\ event'[e].status = "pending" /\ ~event'[e].due
        /\ \A x \in Events : x # e => event'[x] = event[x]
    BY <1>4, <2>2 DEF N!Claim, N!Leased, NoticeTypes, EventRows
  <2>6. /\ dispatch'[d].event = e /\ dispatch'[d].ok = {} /\ dispatch'[d].stage = "claimed"
        /\ dispatch'[d].todo = {}
        /\ \A f \in Dispatchers : f # d => dispatch'[f] = dispatch[f]
    BY <1>4 DEF N!Claim, N!Idle, NoticeTypes
  <2> QED BY <1>4, <2>1, <2>3, <2>4, <2>5, <2>6 DEF Alone, N!Claim, On
<1>5. ASSUME NEW d \in Dispatchers, N!Dispatch(d) PROVE Alone'
  <2>1. Alone BY <1>5 DEF Calm, N!Dispatch
  <2>2. On(d) \in Events /\ dispatch[d].ok = {}
    BY <1>5, <2>1 DEF NoticeTypes, N!Dispatch, Alone, On
  <2>3. \A f \in Dispatchers : f # d => dispatch'[f] = dispatch[f] /\ On(f) # On(d)
    BY <1>5, <2>1, <2>2 DEF N!Dispatch, NoticeTypes, Alone
  <2>4. CASE N!ChannelsFor(On(d)) = {}
    <3>1. dispatch'[d] = N!Idle
      BY <1>5, <2>4 DEF N!Dispatch, NoticeTypes, On
    <3>2. /\ event' = [event EXCEPT ![On(d)].status = "suppressed"]
          /\ \A x \in Events : x # On(d) => event'[x] = event[x]
      BY <1>5, <2>4 DEF N!Dispatch, NoticeTypes, On
    <3>3. \A c \in Webhooks : heard[On(d)][c] = 0
      BY <2>1, <2>2 DEF Alone
    <3> QED BY <1>5, <2>1, <2>2, <2>3, <3>1, <3>2, <3>3 DEF Alone, N!Dispatch, On, N!Idle
  <2>5. CASE N!ChannelsFor(On(d)) # {}
    <3>1. /\ dispatch'[d].event = On(d) /\ dispatch'[d].ok = {} /\ dispatch'[d].stage = "sending"
          /\ UNCHANGED <<event, heard>>
      BY <1>5, <2>2, <2>5 DEF N!Dispatch, NoticeTypes, Dispatches, On
    <3> QED BY <2>1, <2>2, <2>3, <3>1 DEF Alone, On
  <2> QED BY <2>4, <2>5
<1>6. ASSUME NEW d \in Dispatchers, N!Send(d) PROVE Alone'
  <2>1. Alone BY <1>6 DEF Calm, N!Send
  <2>2. On(d) \in Events /\ dispatch[d].stage = "sending"
    BY <1>6 DEF NoticeTypes, N!Send, On
  <2>3. \A f \in Dispatchers : f # d => dispatch'[f] = dispatch[f] /\ On(f) # On(d)
    BY <1>6, <2>1, <2>2 DEF N!Send, NoticeTypes, Alone
  <2>4. PICK c \in dispatch[d].todo :
          \/ /\ heard' = [heard EXCEPT ![On(d)][c] = IF @ = 2 THEN 2 ELSE @ + 1]
             /\ dispatch' = [dispatch EXCEPT ![d].todo = @ \ {c}, ![d].ok = @ \cup {c}]
          \/ /\ dispatch' = [dispatch EXCEPT ![d].todo = @ \ {c}, ![d].bad = @ \cup {c}]
             /\ UNCHANGED heard
    BY <1>6 DEF N!Send, On
  <2>5. c \in Webhooks /\ c \notin dispatch[d].ok
    BY <2>1, <2>4 DEF Alone, NoticeTypes, Dispatches
  <2>6. heard[On(d)][c] = 0
    BY <2>1, <2>2, <2>5 DEF Alone
  <2>7. UNCHANGED event BY <1>6 DEF N!Send
  <2>8. CASE /\ heard' = [heard EXCEPT ![On(d)][c] = IF @ = 2 THEN 2 ELSE @ + 1]
             /\ dispatch' = [dispatch EXCEPT ![d].todo = @ \ {c}, ![d].ok = @ \cup {c}]
    <3>1. /\ dispatch'[d].event = On(d) /\ dispatch'[d].stage = "sending"
          /\ dispatch'[d].ok = dispatch[d].ok \cup {c} /\ dispatch'[d].todo = dispatch[d].todo \ {c}
      BY <2>2, <2>8 DEF NoticeTypes, Dispatches, On
    <3>2. /\ heard'[On(d)][c] = 1
          /\ \A x \in Events, y \in Webhooks : x # On(d) \/ y # c => heard'[x][y] = heard[x][y]
      BY <2>2, <2>5, <2>6, <2>8 DEF NoticeTypes
    <3> QED BY <2>1, <2>2, <2>3, <2>5, <2>7, <3>1, <3>2 DEF Alone, On
  <2>9. CASE /\ dispatch' = [dispatch EXCEPT ![d].todo = @ \ {c}, ![d].bad = @ \cup {c}]
             /\ UNCHANGED heard
    <3>1. /\ dispatch'[d].event = On(d) /\ dispatch'[d].stage = "sending"
          /\ dispatch'[d].ok = dispatch[d].ok /\ dispatch'[d].todo = dispatch[d].todo \ {c}
          /\ UNCHANGED heard
      BY <2>2, <2>9 DEF NoticeTypes, Dispatches, On
    <3> QED BY <2>1, <2>2, <2>3, <2>7, <3>1 DEF Alone, On
  <2> QED BY <2>4, <2>8, <2>9
<1>7. ASSUME NEW d \in Dispatchers, N!Finish(d) PROVE Alone'
  <2>1. Alone BY <1>7 DEF Calm, N!Finish
  <2>2. On(d) \in Events /\ dispatch[d].stage = "sending"
    BY <1>7 DEF NoticeTypes, N!Finish, On
  <2>3. \A f \in Dispatchers : f # d => dispatch'[f] = dispatch[f] /\ On(f) # On(d)
    BY <1>7, <2>1, <2>2 DEF N!Finish, NoticeTypes, Alone
  <2>4. dispatch'[d] = N!Idle /\ UNCHANGED heard
    BY <1>7 DEF N!Finish, NoticeTypes
  <2>5. /\ event'[On(d)].status = N!Outcome(d)
        /\ \A x \in Events : x # On(d) => event'[x] = event[x]
    BY <1>7, <2>2 DEF N!Finish, NoticeTypes, EventRows, On
  <2>6. ASSUME NEW c \in Webhooks, heard[On(d)][c] > 0 PROVE event'[On(d)].status = "sent"
    BY <2>1, <2>2, <2>5, <2>6 DEF Alone, N!Outcome
  <2> QED BY <2>1, <2>2, <2>3, <2>4, <2>5, <2>6 DEF Alone, On, N!Idle
<1>8. ASSUME NEW d \in Dispatchers, N!Crash(d) PROVE Alone'
  BY <1>8 DEF Calm, N!Crash, NoticeTypes
<1>9. ASSUME NEW c \in Webhooks, NEW edit \in Edits, N!UpsertChannel(c, edit) PROVE Alone'
  BY <1>9 DEF Calm, N!UpsertChannel, N!Order, NoticeTypes
<1> QED BY <1>1, <1>2, <1>3, <1>4, <1>5, <1>6, <1>7, <1>8, <1>9 DEF N!Next, N!Work

(* That is what CalmIsExactlyOnce says.                                       *)
LEMMA AloneIsOnce == NoticeTypes /\ (Calm => Alone) => N!CalmIsExactlyOnce
BY DEF Alone, N!CalmIsExactlyOnce, Calm, On

(* The inductive invariant of the notices.                                    *)
NoticeInv == NoticeTypes /\ (Calm => Alone)

(* Every step of the notices keeps their invariant.                           *)
LEMMA NoticeInvNext == NoticeInv /\ [N!Next]_noticeVars => NoticeInv'
<1> SUFFICES ASSUME NoticeInv, [N!Next]_noticeVars PROVE NoticeInv'
  OBVIOUS
<1>1. CASE N!Next
  BY <1>1, NoticeNextTypes, NoticeNextAlone DEF NoticeInv
<1>2. CASE UNCHANGED noticeVars
  BY <1>2 DEF noticeVars, NoticeInv, NoticeTypes, Calm, Alone, On
<1> QED BY <1>1, <1>2

-----------------------------------------------------------------------------
(* The upkeep of the accounts: the rows of its tables and the variables of its *)
(* workers, who are the timers and the administrators' requests.              *)
Workforce == CareWorkers \cup CareAdmins
AccountRows == [status : {"active", "cooldown", "exhausted", "disabled"}, cooling : BOOLEAN,
                circuit : {"closed", "open", "half_open"}]
QuotaRows == [snapshot : {"none", "failed", "unsupported"} \cup Levels, window : {"none"} \cup Levels]
JobRows == [status : {"none", "pending", "running", "success", "failed"}, due : BOOLEAN,
            ids : SUBSET Accounts]
TaskRows == [stage : A!Stages, due : SUBSET Jobs, job : Jobs \cup {NoJob}, ids : SUBSET Accounts,
             todo : SUBSET (Accounts \cup A!Verdicts), ok : Nat, bad : Nat]

CareTypes == /\ account \in [Accounts -> AccountRows]
             /\ quota \in [Accounts -> QuotaRows]
             /\ job \in [Jobs -> JobRows]
             /\ task \in [Workforce -> TaskRows]

(* Who has a job has it alone, and the job says so.                           *)
OneRuns == \A p \in Workforce : task[p].job # NoJob =>
             /\ job[task[p].job].status = "running"
             /\ \A q \in Workforce : task[q].job = task[p].job => q = p

(* A verdict to isolate is about an account that is broken.                   *)
Fair(v) == v.decision = "isolate" => v.status # "active" \/ v.circuit # "closed" \/ ~v.channel

FairLists == \A p \in Workforce : \A v \in task[p].todo \cap A!Verdicts : Fair(v)

(* The score of an account that has a channel, is active and whose circuit is *)
(* closed is 41 at least: 35 * 85 + 20 * 35 + 20 * 20 in a hundred.           *)
LEMMA HealthyScore ==
  ASSUME CareTypes, NEW a \in Accounts, NEW m \in Samples, m.channel,
         account[a].status = "active", account[a].circuit = "closed"
  PROVE  A!Decision(A!Quality(a, m)) # "isolate"
<1>1. A!Availability(a, m) \in 85 .. 100
  BY DEF A!Availability, A!StatusCost, A!CircuitCost, A!Clamp
<1>2. A!Latency(m) \in 35 .. 95
  BY CareAssumption DEF A!Latency
<1>3. A!QuotaScore(a) \in 20 .. 90
  <2>1. quota[a] \in QuotaRows
    BY DEF CareTypes
  <2>2. \A l \in Levels \cup {"none"} : A!LevelScore(l) \in 20 .. 90
    BY CareAssumption DEF A!LevelScore
  <2> QED BY <2>1, <2>2 DEF A!QuotaScore, QuotaRows
<1>4. \A n \in Int : A!Clamp(n) \in 0 .. 100
  BY DEF A!Clamp
<1>5. A!Errors(m) \in 0 .. 100
  <2>1. ASSUME NEW i \in Nat, NEW w \in Nat, w > 0 PROVE A!Share(i, w) \in Int
    BY <2>1 DEF A!Share
  <2> DEFINE tests == IF m.badTests > 0 THEN A!Share(m.badTests, m.tests) ELSE 0
             calls == IF m.failures = 0 THEN 0
                      ELSE IF m.successes + m.failures >= 5 THEN A!Share(m.failures, m.successes + m.failures)
                      ELSE A!Smaller(5 * m.failures, 25)
             circuit == A!Smaller(5 * m.circuitFailures, 20)
             error == IF m.runtimeError THEN 10 ELSE 0
             last == IF m.testError THEN 8 ELSE 0
  <2>2. m.badTests \in Nat /\ m.tests \in Nat /\ m.failures \in Nat /\ m.successes \in Nat
        /\ m.circuitFailures \in Nat /\ (m.badTests > 0 => m.tests > 0)
    BY CareAssumption
  <2>3. tests \in Int
    BY <2>1, <2>2
  <2>4. calls \in Int
    BY <2>1, <2>2 DEF A!Smaller
  <2>5. circuit \in Int
    BY <2>2 DEF A!Smaller
  <2>6. error \in Int /\ last \in Int
    OBVIOUS
  <2>7. A!Errors(m) = A!Clamp(100 - tests - calls - circuit - error - last)
    BY DEF A!Errors
  <2> HIDE DEF tests, calls, circuit, error, last
  <2> QED BY <1>4, <2>3, <2>4, <2>5, <2>6, <2>7
<1>6. A!Quality(a, m) \in Int /\ A!Quality(a, m) >= 41
  <2>1. PICK v \in 85 .. 100, l \in 35 .. 95, q \in 20 .. 90, e \in 0 .. 100 :
          v = A!Availability(a, m) /\ l = A!Latency(m) /\ q = A!QuotaScore(a) /\ e = A!Errors(m)
    BY <1>1, <1>2, <1>3, <1>5, Zenon
  <2> DEFINE total == 35 * v + 20 * l + 20 * q + 25 * e + 50
  <2>2. A!Quality(a, m) = A!Clamp(total \div 100)
    BY <2>1 DEF A!Quality
  <2>3. total \in Int /\ total >= 4125
    OBVIOUS
  <2> HIDE DEF total
  <2> QED BY <2>2, <2>3 DEF A!Clamp
<1> QED BY <1>6 DEF A!Decision

(* What a timer or an administrator lists to isolate is broken when it is     *)
(* listed.                                                                    *)
LEMMA ListsAreFair ==
  ASSUME CareTypes, NEW todo \in A!QualityLists
  PROVE  todo \subseteq A!Verdicts /\ \A v \in todo : Fair(v)
<1>1. PICK m \in [Accounts -> Samples] :
        todo = {[id |-> a, status |-> account[a].status, circuit |-> account[a].circuit,
                 channel |-> m[a].channel, decision |-> A!Decision(A!Quality(a, m[a]))] : a \in Accounts}
  BY DEF A!QualityLists
<1>2. ASSUME NEW a \in Accounts
      PROVE  LET v == [id |-> a, status |-> account[a].status, circuit |-> account[a].circuit,
                       channel |-> m[a].channel, decision |-> A!Decision(A!Quality(a, m[a]))]
             IN  v \in A!Verdicts /\ Fair(v)
  <2>1. m[a] \in Samples /\ m[a].channel \in BOOLEAN /\ account[a] \in AccountRows
    BY CareAssumption DEF CareTypes
  <2>2. A!Decision(A!Quality(a, m[a])) \in {"isolate", "watch", "allow"}
    BY DEF A!Decision
  <2>3. account[a].status = "active" /\ account[a].circuit = "closed" /\ m[a].channel
          => A!Decision(A!Quality(a, m[a])) # "isolate"
    BY <2>1, HealthyScore
  <2> QED BY <2>1, <2>2, <2>3 DEF A!Verdicts, Fair, AccountRows
<1> QED BY <1>1, <1>2

(* What a step may do to a worker or an administrator: its list is a new one   *)
(* of the quality check, or has nothing new but accounts; a job is new to it   *)
(* only when it claims it.                                                    *)
TaskMoves(p, t) ==
  /\ t \in TaskRows /\ task' = [task EXCEPT ![p] = t]
  /\ t.todo \subseteq task[p].todo \cup Accounts \/ t.todo \in A!QualityLists
  /\ t.job \in {NoJob, task[p].job} \/ \E j \in Jobs : A!ClaimJob(p, j) /\ t.job = j

TasksMove == UNCHANGED task \/ \E p \in Workforce, t \in TaskRows : TaskMoves(p, t)

(* A worker that enters a stage has a fresh list, and no job yet.             *)
LEMMA EnterMoves ==
  ASSUME CareTypes, NEW p \in Workforce, NEW stage \in A!Stages, NEW due \in SUBSET Jobs,
         NEW todo, todo \in SUBSET Accounts \/ todo \in A!QualityLists, A!Enter(p, stage, due, todo)
  PROVE  TasksMove
<1>1. todo \subseteq Accounts \cup A!Verdicts
  BY ListsAreFair
<1> DEFINE t == [A!Idle EXCEPT !.stage = stage, !.due = due, !.todo = todo]
<1>2. t \in TaskRows /\ t.todo = todo /\ t.job = NoJob
  BY <1>1 DEF A!Idle, TaskRows, A!Stages
<1>3. task' = [task EXCEPT ![p] = t]
  BY DEF A!Enter
<1> HIDE DEF t
<1> QED BY <1>2, <1>3 DEF TasksMove, TaskMoves

(* Every step moves the workers in one of these ways.                         *)
LEMMA TasksMoveOn ==
  ASSUME CareTypes, A!Next
  PROVE  TasksMove
<1>t. \A p \in Workforce : task[p] \in TaskRows
  BY DEF CareTypes
<1>w. Workforce = CareWorkers \cup CareAdmins
  BY DEF Workforce
<1>i. A!Idle \in TaskRows /\ A!Idle.todo = {} /\ A!Idle.job = NoJob
  BY DEF A!Idle, TaskRows, A!Stages
<1>0. ASSUME NEW p \in Workforce, task' = [task EXCEPT ![p] = A!Idle] PROVE TasksMove
  BY <1>0, <1>i DEF TasksMove, TaskMoves
<1>1. ASSUME NEW p \in CareWorkers, A!Tick(p) PROVE TasksMove
  <2>1. (IF wakeups THEN A!DueJobs ELSE {}) \in SUBSET Jobs /\ A!QuotaList \in SUBSET Accounts /\ A!HealthList \in SUBSET Accounts
    BY DEF A!DueJobs, A!QuotaList, A!HealthList
  <2>2. p \in Workforce BY <1>w
  <2>3. CASE \E todo \in {{}, A!QuotaList} : A!Enter(p, "quota", {}, todo)
    BY <2>1, <2>2, <2>3, EnterMoves DEF A!Stages
  <2>4. CASE A!Enter(p, "wakeup", IF wakeups THEN A!DueJobs ELSE {}, {})
    BY <2>1, <2>2, <2>4, EnterMoves DEF A!Stages
  <2>5. CASE \E todo \in A!QualityLists \cup {{}} : A!Enter(p, "quality", {}, todo)
    BY <2>2, <2>5, EnterMoves DEF A!Stages
  <2>6. CASE \E todo \in {{}, A!HealthList} : A!Enter(p, "health", {}, todo)
    BY <2>1, <2>2, <2>6, EnterMoves DEF A!Stages
  <2>7. CASE task' = [task EXCEPT ![p] = A!Idle]
    BY <1>0, <2>2, <2>7
  <2> QED BY <1>1, <2>3, <2>4, <2>5, <2>6, <2>7 DEF A!Tick
<1>2. ASSUME NEW p \in CareAdmins, A!Answer(p) \/ A!StartByHand(p) \/ A!PutPlatformConfig(p)
      PROVE  TasksMove
  <2>1. p \in Workforce BY <1>w
  <2>2. CASE A!Answer(p)
    BY <1>0, <2>1, <2>2 DEF A!Answer
  <2>3. CASE A!StartByHand(p)
    <3>1. ASSUME NEW j \in Jobs, A!Enter(p, "wakeup", {j}, {}) PROVE TasksMove
      BY <2>1, <3>1, EnterMoves DEF A!Stages
    <3>2. ASSUME A!RefreshByHand(p) PROVE TasksMove
      <4>1. PICK ids \in SUBSET Accounts :
              A!Enter(p, "quota", {}, IF ids = {} THEN {a \in Accounts : account[a].status = "active"} ELSE ids)
        BY <3>2 DEF A!RefreshByHand
      <4>2. (IF ids = {} THEN {a \in Accounts : account[a].status = "active"} ELSE ids) \in SUBSET Accounts
        OBVIOUS
      <4> QED BY <2>1, <4>1, <4>2, EnterMoves DEF A!Stages
    <3>3. ASSUME NEW todo \in A!QualityLists, A!Enter(p, "quality", {}, todo) PROVE TasksMove
      BY <2>1, <3>3, EnterMoves DEF A!Stages
    <3> QED BY <2>3, <3>1, <3>2, <3>3 DEF A!StartByHand
  <2>4. CASE A!PutPlatformConfig(p)
    BY <2>4 DEF A!PutPlatformConfig, TasksMove
  <2> QED BY <1>2, <2>2, <2>3, <2>4
<1>3. ASSUME NEW p \in CareAdmins, NEW j \in Jobs, A!CreateJob(p, j) PROVE TasksMove
  <2>1. p \in Workforce BY <1>w
  <2>2. A!Enter(p, "wakeup", {j}, {}) \/ UNCHANGED task
    BY <1>3 DEF A!CreateJob
  <2> QED BY <2>1, <2>2, EnterMoves DEF A!Stages, TasksMove
<1>4. ASSUME NEW p \in CareAdmins, NEW a \in Accounts, A!SetAccount(p, a) PROVE TasksMove
  BY <1>4 DEF A!SetAccount, TasksMove
<1>5. ASSUME NEW p \in Workforce, A!Step(p) PROVE TasksMove
  <2>0. ASSUME NEW x \in Accounts \cup A!Verdicts
        PROVE  /\ A!Without(p, x) \in TaskRows /\ A!Without(p, x).job = task[p].job
               /\ A!Without(p, x).todo = task[p].todo \ {x}
    BY <1>t DEF A!Without, TaskRows
  <2>1. ASSUME NEW x \in Accounts \cup A!Verdicts, task' = [task EXCEPT ![p] = A!Without(p, x)]
        PROVE  TasksMove
    BY <2>0, <2>1 DEF TasksMove, TaskMoves
  <2>2. ASSUME NEW a \in Accounts, A!RefreshQuota(p, a) PROVE TasksMove
    BY <2>1, <2>2 DEF A!RefreshQuota
  <2>3. ASSUME NEW a \in Accounts, A!WakeAccount(p, a) PROVE TasksMove
    <3>1. PICK healthy \in BOOLEAN :
            task' = [task EXCEPT ![p] = [A!Without(p, a) EXCEPT !.ok = IF healthy THEN @ + 1 ELSE @,
                                                                 !.bad = IF healthy THEN @ ELSE @ + 1]]
      BY <2>3, Zenon DEF A!WakeAccount, A!Healthy
    <3> DEFINE w == A!Without(p, a)
               t == [w EXCEPT !.ok = IF healthy THEN @ + 1 ELSE @, !.bad = IF healthy THEN @ ELSE @ + 1]
    <3>2. w \in TaskRows /\ w.job = task[p].job /\ w.todo = task[p].todo \ {a}
      BY <2>0
    <3>3. task' = [task EXCEPT ![p] = t]
      BY <3>1
    <3> HIDE DEF w
    <3>4. t \in TaskRows /\ t.job = w.job /\ t.todo = w.todo
      <4>1. (IF healthy THEN w.ok + 1 ELSE w.ok) \in Nat /\ (IF healthy THEN w.bad ELSE w.bad + 1) \in Nat
        BY <3>2 DEF TaskRows
      <4> QED BY <3>2, <4>1 DEF TaskRows
    <3> HIDE DEF t
    <3> QED BY <3>2, <3>3, <3>4 DEF TasksMove, TaskMoves
  <2>4. ASSUME NEW a \in Accounts, A!CheckHealth(p, a) PROVE TasksMove
    <3>1. CASE task' = [task EXCEPT ![p].todo = {}]
      <4>1. [task[p] EXCEPT !.todo = {}] \in TaskRows /\ [task[p] EXCEPT !.todo = {}].job = task[p].job
            /\ [task[p] EXCEPT !.todo = {}].todo = {}
        BY <1>t DEF TaskRows
      <4>2. task' = [task EXCEPT ![p] = [task[p] EXCEPT !.todo = {}]]
        BY <3>1
      <4> QED BY <4>1, <4>2 DEF TasksMove, TaskMoves
    <3> QED BY <2>1, <2>4, <3>1 DEF A!CheckHealth
  <2>5. ASSUME NEW j \in Jobs, A!ClaimJob(p, j) PROVE TasksMove
    <3> DEFINE ids == IF job[j].ids = {} THEN A!WakeList ELSE job[j].ids
               t == [task[p] EXCEPT !.due = @ \ {j}, !.job = j, !.ids = ids, !.todo = ids, !.ok = 0, !.bad = 0]
    <3>1. ids \in SUBSET Accounts
      BY DEF CareTypes, JobRows, A!WakeList
    <3>2. task' = [task EXCEPT ![p] = t]
      BY <2>5 DEF A!ClaimJob, CareTypes
    <3> HIDE DEF ids
    <3>3. t \in TaskRows /\ t.todo = ids /\ t.job = j
      BY <1>t, <3>1 DEF TaskRows
    <3> HIDE DEF t
    <3> QED BY <2>5, <3>1, <3>2, <3>3 DEF TasksMove, TaskMoves
  <2>6. ASSUME NEW j \in Jobs, A!NotRetryable(p, j) PROVE TasksMove
    <3> DEFINE t == [task[p] EXCEPT !.due = @ \ {j}]
    <3>1. t \in TaskRows /\ t.job = task[p].job /\ t.todo = task[p].todo
      BY <1>t DEF TaskRows
    <3>2. task' = [task EXCEPT ![p] = t]
      BY <2>6 DEF A!NotRetryable
    <3> HIDE DEF t
    <3> QED BY <3>1, <3>2 DEF TasksMove, TaskMoves
  <2>7. ASSUME NEW j \in Jobs, A!FinishJob(p, j) PROVE TasksMove
    <3> DEFINE t == [task[p] EXCEPT !.job = NoJob, !.ids = {}]
    <3>1. t \in TaskRows /\ t.job = NoJob /\ t.todo = task[p].todo
      BY <1>t DEF TaskRows
    <3>2. task' = [task EXCEPT ![p] = t]
      BY <2>7 DEF A!FinishJob
    <3> HIDE DEF t
    <3> QED BY <3>1, <3>2 DEF TasksMove, TaskMoves
  <2>8. ASSUME NEW v \in task[p].todo \cap A!Verdicts, A!Judge(p, v) PROVE TasksMove
    BY <2>1, <2>8 DEF A!Judge
  <2> QED BY <1>5, <2>2, <2>3, <2>4, <2>5, <2>6, <2>7, <2>8 DEF A!Step
<1>6. ASSUME NEW p \in Workforce, A!ContextEnds(p) PROVE TasksMove
  BY <1>0, <1>6 DEF A!ContextEnds
<1>7. ASSUME NEW j \in Jobs, A!ComesDue(j) PROVE TasksMove
  BY <1>7 DEF A!ComesDue, TasksMove
<1> QED BY <1>w, <1>1, <1>2, <1>3, <1>4, <1>5, <1>6, <1>7 DEF A!Next

(* Accounts, quotas and jobs keep their types.                                *)
LEMMA RowsStayTyped ==
  ASSUME CareTypes, A!Next
  PROVE  account' \in [Accounts -> AccountRows] /\ quota' \in [Accounts -> QuotaRows] /\ job' \in [Jobs -> JobRows]
<1> DEFINE Goal == /\ account' \in [Accounts -> AccountRows]
                   /\ quota' \in [Accounts -> QuotaRows]
                   /\ job' \in [Jobs -> JobRows]
<1>a. ASSUME NEW a \in Accounts
      PROVE  /\ A!Restored \in AccountRows /\ A!Cooled(a) \in AccountRows /\ A!Isolated(a) \in AccountRows
             /\ \A healthy \in BOOLEAN : A!Checked(a, healthy) \in AccountRows
  <2>1. account[a] \in AccountRows
    BY DEF CareTypes
  <2>2. A!Restored \in AccountRows /\ A!Isolated(a) \in AccountRows
    BY DEF A!Restored, A!Isolated, AccountRows
  <2>3. A!Cooled(a) \in AccountRows
    <3>1. (IF account[a].status = "active" THEN "cooldown" ELSE account[a].status)
            \in {"active", "cooldown", "exhausted", "disabled"}
      BY <2>1 DEF AccountRows
    <3> QED BY <2>1, <3>1 DEF A!Cooled, AccountRows
  <2>4. ASSUME NEW healthy \in BOOLEAN PROVE A!Checked(a, healthy) \in AccountRows
    <3>1. (IF account[a].status = "cooldown" THEN "active" ELSE account[a].status)
            \in {"active", "cooldown", "exhausted", "disabled"}
      BY <2>1 DEF AccountRows
    <3> QED BY <2>2, <2>3, <3>1 DEF A!Checked, A!Restored, AccountRows
  <2> QED BY <2>2, <2>3, <2>4
<1>0. ASSUME UNCHANGED <<account, quota, job>> PROVE Goal
  BY <1>0 DEF CareTypes
<1>1. ASSUME NEW a \in Accounts, NEW r \in AccountRows, account' = [account EXCEPT ![a] = r],
             UNCHANGED <<quota, job>>
      PROVE  Goal
  BY <1>1 DEF CareTypes
<1>2. ASSUME NEW j \in Jobs, NEW r \in JobRows, job' = [job EXCEPT ![j] = r], UNCHANGED <<account, quota>>
      PROVE  Goal
  BY <1>2 DEF CareTypes
<1>3. ASSUME NEW p \in Workforce, A!Step(p) PROVE Goal
  <2>1. ASSUME NEW a \in Accounts, A!RefreshQuota(p, a) PROVE Goal
    <3>1. PICK r \in A!Discovered : quota' = [quota EXCEPT ![a] = A!Persisted(a, r)]
      BY <2>1 DEF A!RefreshQuota
    <3>2. quota[a] \in QuotaRows
      BY DEF CareTypes
    <3>3. A!Persisted(a, r) \in QuotaRows
      BY <3>2 DEF A!Persisted, A!Discovered, QuotaRows
    <3> QED BY <2>1, <3>1, <3>3 DEF A!RefreshQuota, CareTypes
  <2>2. ASSUME NEW a \in Accounts, A!WakeAccount(p, a) PROVE Goal
    <3>1. UNCHANGED <<quota, job>> /\ \/ UNCHANGED account
                                      \/ account' = [account EXCEPT ![a] = A!Restored]
                                      \/ account' = [account EXCEPT ![a] = A!Cooled(a)]
      BY <2>2 DEF A!WakeAccount
    <3> QED BY <1>0, <1>1, <1>a, <3>1
  <2>3. ASSUME NEW a \in Accounts, A!CheckHealth(p, a) PROVE Goal
    <3>1. /\ UNCHANGED <<quota, job>>
          /\ \/ UNCHANGED account
             \/ \E healthy \in BOOLEAN : account' = [account EXCEPT ![a] = A!Checked(a, healthy)]
      BY <2>3, Zenon DEF A!CheckHealth, A!Healthy
    <3> QED BY <1>0, <1>1, <1>a, <3>1
  <2>4. ASSUME NEW j \in Jobs, A!ClaimJob(p, j) PROVE Goal
    <3>1. [job[j] EXCEPT !.status = "running"] \in JobRows
      BY DEF CareTypes, JobRows
    <3>2. job' = [job EXCEPT ![j] = [job[j] EXCEPT !.status = "running"]] /\ UNCHANGED <<account, quota>>
      BY <2>4 DEF A!ClaimJob
    <3> QED BY <1>2, <3>1, <3>2
  <2>5. ASSUME NEW j \in Jobs, A!FinishJob(p, j) PROVE Goal
    <3>1. PICK s \in {"failed", "success"}, ids \in SUBSET Accounts :
            job' = [job EXCEPT ![j].status = s, ![j].ids = ids]
      BY <2>5, Zenon DEF A!FinishJob, CareTypes, TaskRows
    <3>2. [job[j] EXCEPT !.status = s, !.ids = ids] \in JobRows
      BY DEF CareTypes, JobRows
    <3>3. job' \in [Jobs -> JobRows]
      BY <3>1, <3>2 DEF CareTypes
    <3> QED BY <2>5, <3>3 DEF A!FinishJob, CareTypes
  <2>6. ASSUME NEW v \in task[p].todo \cap A!Verdicts, A!Judge(p, v) PROVE Goal
    <3>1. v.id \in Accounts
      BY DEF A!Verdicts
    <3>2. UNCHANGED <<quota, job>> /\ (UNCHANGED account \/ account' = [account EXCEPT ![v.id] = A!Isolated(v.id)])
      BY <2>6 DEF A!Judge
    <3> QED BY <1>0, <1>1, <1>a, <3>1, <3>2
  <2>7. ASSUME NEW j \in Jobs, A!NotRetryable(p, j) PROVE Goal
    BY <1>0, <2>7 DEF A!NotRetryable
  <2> QED BY <1>3, <2>1, <2>2, <2>3, <2>4, <2>5, <2>6, <2>7 DEF A!Step
<1>4. ASSUME NEW p \in CareAdmins, NEW j \in Jobs, A!CreateJob(p, j) PROVE Goal
  <2>1. PICK ids \in SUBSET Accounts, due \in BOOLEAN :
          job' = [job EXCEPT ![j] = A!Pending(ids, due)] /\ UNCHANGED <<account, quota>>
    BY <1>4 DEF A!CreateJob, A!WakeList
  <2>2. A!Pending(ids, due) \in JobRows
    BY DEF A!Pending, JobRows
  <2> QED BY <1>2, <2>1, <2>2
<1>5. ASSUME NEW p \in CareAdmins, NEW a \in Accounts, A!SetAccount(p, a) PROVE Goal
  <2>1. account[a] \in AccountRows
    BY DEF CareTypes
  <2>2. (IF account[a].status = "disabled" THEN account[a].status ELSE "cooldown")
          \in {"active", "cooldown", "exhausted", "disabled"}
    BY <2>1 DEF AccountRows
  <2>3. [account[a] EXCEPT !.status = IF @ = "disabled" THEN @ ELSE "cooldown", !.cooling = TRUE] \in AccountRows
    BY <2>1, <2>2 DEF AccountRows
  <2>4. \A s \in {"active", "disabled", "cooldown", "exhausted"} : [account[a] EXCEPT !.status = s] \in AccountRows
    BY <2>1 DEF AccountRows
  <2>5. \E r \in AccountRows : account' = [account EXCEPT ![a] = r]
    BY <1>5, <1>a, <2>3, <2>4 DEF A!SetAccount
  <2> QED BY <1>1, <1>5, <2>5 DEF A!SetAccount
<1>6. ASSUME NEW j \in Jobs, A!ComesDue(j) PROVE Goal
  <2>1. [job[j] EXCEPT !.due = TRUE] \in JobRows
    BY DEF CareTypes, JobRows
  <2>2. job' = [job EXCEPT ![j] = [job[j] EXCEPT !.due = TRUE]] /\ UNCHANGED <<account, quota>>
    BY <1>6 DEF A!ComesDue
  <2> QED BY <1>2, <2>1, <2>2
<1>7. ASSUME \/ \E p \in CareWorkers : A!Tick(p)
             \/ \E p \in CareAdmins : A!Answer(p) \/ A!StartByHand(p) \/ A!PutPlatformConfig(p)
             \/ \E p \in Workforce : A!ContextEnds(p)
      PROVE  Goal
  BY <1>0, <1>7 DEF A!Tick, A!Answer, A!StartByHand, A!PutPlatformConfig, A!ContextEnds
<1> QED BY <1>3, <1>4, <1>5, <1>6, <1>7 DEF A!Next, Workforce

(* A job is claimed only when it is pending, so whoever claims it is alone    *)
(* with it (claimWakeupJob).                                                  *)
LEMMA OneRunsNext == CareTypes /\ OneRuns /\ A!Next => OneRuns'
<1> SUFFICES ASSUME CareTypes, OneRuns, A!Next PROVE OneRuns'
  OBVIOUS
<1>t. task \in [Workforce -> TaskRows] /\ job \in [Jobs -> JobRows] /\ \A p \in Workforce : task[p].job \in Jobs \cup {NoJob}
  BY DEF CareTypes, TaskRows
<1>1. TasksMove
  BY TasksMoveOn
<1>2. ASSUME NEW p \in Workforce, NEW j \in Jobs, A!FinishJob(p, j) PROVE OneRuns'
  <2>1. task[p].job = j /\ j # NoJob
    BY <1>2, CareAssumption DEF A!FinishJob
  <2>2. \A q \in Workforce : q # p => task[q].job # j /\ task'[q] = task[q]
    BY <1>2, <2>1, <1>t DEF A!FinishJob, OneRuns
  <2>3. task'[p].job = NoJob
    BY <1>2, <1>t DEF A!FinishJob, TaskRows
  <2>4. \A i \in Jobs : i # j => job'[i] = job[i]
    BY <1>2, <1>t DEF A!FinishJob
  <2> QED BY <1>t, <2>1, <2>2, <2>3, <2>4 DEF OneRuns
<1>3. ASSUME NEW p \in Workforce, NEW j \in Jobs, A!ClaimJob(p, j) PROVE OneRuns'
  <2>1. job[j].status # "running" /\ task[p].job = NoJob /\ j # NoJob
    BY <1>3, CareAssumption DEF A!ClaimJob, A!Claimable
  <2>2. \A q \in Workforce : task[q].job # j
    BY <2>1 DEF OneRuns
  <2>3. job'[j].status = "running" /\ \A i \in Jobs : i # j => job'[i] = job[i]
    BY <1>3, <1>t DEF A!ClaimJob, JobRows
  <2>4. task'[p].job = j /\ \A q \in Workforce : q # p => task'[q] = task[q]
    BY <1>3, <1>t DEF A!ClaimJob, TaskRows
  <2> QED BY <1>t, <2>2, <2>3, <2>4 DEF OneRuns
<1>4. ASSUME ~\E p \in Workforce, j \in Jobs : A!FinishJob(p, j) \/ A!ClaimJob(p, j)
      PROVE  OneRuns'
  <2>1. \A p \in Workforce : task'[p].job \in {NoJob, task[p].job}
    <3>1. CASE UNCHANGED task
      BY <3>1
    <3>2. ASSUME NEW p \in Workforce, NEW t \in TaskRows, TaskMoves(p, t)
          PROVE  \A q \in Workforce : task'[q].job \in {NoJob, task[q].job}
      BY <1>4, <1>t, <3>2 DEF TaskMoves
    <3> QED BY <1>1, <3>1, <3>2 DEF TasksMove
  <2>2. ASSUME NEW j \in Jobs, job[j].status = "running" PROVE job'[j].status = "running"
    <3>1. ASSUME NEW p \in CareAdmins, NEW i \in Jobs, A!CreateJob(p, i) PROVE job'[j] = job[j]
      BY <1>t, <2>2, <3>1 DEF A!CreateJob
    <3>2. ASSUME NEW i \in Jobs, A!ComesDue(i) PROVE job'[j] = job[j]
      BY <1>t, <2>2, <3>2 DEF A!ComesDue
    <3>3. ASSUME NEW p \in Workforce, A!Step(p) PROVE job'[j] = job[j]
      BY <1>4, <3>3, Zenon DEF A!Step, A!RefreshQuota, A!WakeAccount, A!CheckHealth, A!NotRetryable, A!Judge
    <3>4. ASSUME \/ \E p \in CareWorkers : A!Tick(p)
                 \/ \E p \in CareAdmins : A!Answer(p) \/ A!StartByHand(p) \/ A!PutPlatformConfig(p)
                 \/ \E p \in CareAdmins, a \in Accounts : A!SetAccount(p, a)
                 \/ \E p \in Workforce : A!ContextEnds(p)
          PROVE  job'[j] = job[j]
      BY <3>4, Zenon DEF A!Tick, A!Answer, A!StartByHand, A!PutPlatformConfig, A!SetAccount, A!ContextEnds
    <3> QED BY <2>2, <3>1, <3>2, <3>3, <3>4 DEF A!Next, Workforce
  <2> QED BY <1>t, <2>1, <2>2 DEF OneRuns
<1> QED BY <1>2, <1>3, <1>4

(* A list only loses what was done, until the next is made.                   *)
LEMMA FairListsNext == CareTypes /\ FairLists /\ A!Next => FairLists'
<1> SUFFICES ASSUME CareTypes, FairLists, A!Next PROVE FairLists'
  OBVIOUS
<1>1. CASE UNCHANGED task
  BY <1>1 DEF FairLists
<1>2. ASSUME NEW p \in Workforce, NEW t \in TaskRows, TaskMoves(p, t) PROVE FairLists'
  <2>1. \A v \in t.todo \cap A!Verdicts : Fair(v)
    <3>1. CASE t.todo \subseteq task[p].todo \cup Accounts
      BY <3>1, CareAssumption DEF FairLists
    <3>2. CASE t.todo \in A!QualityLists
      BY <3>2, ListsAreFair
    <3> QED BY <1>2, <3>1, <3>2 DEF TaskMoves
  <2>2. task'[p] = t /\ \A q \in Workforce : q # p => task'[q] = task[q]
    BY <1>2 DEF TaskMoves, CareTypes
  <2> QED BY <2>1, <2>2 DEF FairLists
<1> QED BY <1>1, <1>2, TasksMoveOn DEF TasksMove
(* The inductive invariant of the upkeep.                                     *)
CareInv == CareTypes /\ OneRuns /\ FairLists

(* Workers begin idle, without jobs and without lists.                        *)
LEMMA CareInvInit == A!Init => CareInv
<1> SUFFICES ASSUME A!Init PROVE CareInv
  OBVIOUS
<1>1. A!Idle \in TaskRows /\ A!Idle.todo = {} /\ A!Idle.job = NoJob
  BY DEF A!Idle, TaskRows, A!Stages
<1>2. task \in [Workforce -> TaskRows] /\ \A p \in Workforce : task[p].todo = {} /\ task[p].job = NoJob
  BY <1>1 DEF A!Init, Workforce
<1>3. account \in [Accounts -> AccountRows]
  <2>1. {[status |-> "active", cooling |-> FALSE, circuit |-> "closed"],
         [status |-> "cooldown", cooling |-> TRUE, circuit |-> "open"]} \subseteq AccountRows
    BY DEF AccountRows
  <2> QED BY <2>1 DEF A!Init
<1>4. quota \in [Accounts -> QuotaRows] /\ job \in [Jobs -> JobRows]
  BY DEF A!Init, QuotaRows, JobRows
<1> QED BY <1>2, <1>3, <1>4 DEF CareInv, CareTypes, OneRuns, FairLists

(* Every step of the upkeep keeps its invariant.                              *)
LEMMA CareInvNext == CareInv /\ [A!Next]_careVars => CareInv'
<1> SUFFICES ASSUME CareInv, [A!Next]_careVars PROVE CareInv'
  OBVIOUS
<1>1. CASE A!Next
  <2>1. task' \in [Workforce -> TaskRows]
    BY <1>1, TasksMoveOn DEF CareInv, CareTypes, TasksMove, TaskMoves
  <2>2. CareTypes'
    BY <1>1, <2>1, RowsStayTyped DEF CareInv, CareTypes
  <2> QED BY <1>1, <2>2, OneRunsNext, FairListsNext DEF CareInv
<1>2. CASE UNCHANGED careVars
  BY <1>2 DEF careVars, CareInv, CareTypes, OneRuns, FairLists
<1> QED BY <1>1, <1>2

(* The instance of AccountCare has a Cardinality of its own, and it is the    *)
(* same.                                                                      *)
LEMMA SameCareCardinality == \A S : A!Cardinality(S) = Cardinality(S)
BY DEF A!Cardinality, Cardinality

(* The invariant is stronger than what CareIsSafe says of the upkeep.         *)
LEMMA CareInvIsSafe == CareInv => A!JobsRunOnce /\ A!OnlyBrokenIsIsolated
<1> SUFFICES ASSUME CareInv PROVE A!JobsRunOnce /\ A!OnlyBrokenIsIsolated
  OBVIOUS
<1>1. ASSUME NEW j \in Jobs
      PROVE  /\ Cardinality({p \in Workforce : task[p].job = j}) <= 1
             /\ (\E p \in Workforce : task[p].job = j) => job[j].status = "running"
  <2> DEFINE S == {p \in Workforce : task[p].job = j}
  <2>1. j # NoJob
    BY CareAssumption
  <2>2. ASSUME NEW p \in S PROVE Cardinality(S) <= 1 /\ job[j].status = "running"
    <3>1. S = {p} /\ job[j].status = "running"
      BY <2>1 DEF CareInv, OneRuns
    <3>2. Cardinality(S) = 1
      BY <3>1, FS_Singleton, Zenon
    <3> QED BY <3>1, <3>2
  <2>3. CASE S = {}
    <3>1. Cardinality(S) = 0
      BY <2>3, FS_EmptySet, Zenon
    <3> QED BY <2>3, <3>1
  <2> QED BY <2>2, <2>3
<1>2. A!JobsRunOnce
  BY <1>1, SameCareCardinality, Zenon DEF A!JobsRunOnce, Workforce
<1>3. A!OnlyBrokenIsIsolated
  BY DEF A!OnlyBrokenIsIsolated, CareInv, FairLists, Fair, Workforce
<1> QED BY <1>2, <1>3

(* A step brings a disabled account back only when a wake-up job or an order  *)
(* does.                                                                      *)
LEMMA CareStaysDisabled ==
  ASSUME CareInv, A!Next, NEW a \in Accounts, account[a].status = "disabled", account'[a].status # "disabled"
  PROVE  task' = task \/ \E p \in Workforce : task[p].stage = "wakeup" /\ task'[p] # task[p]
<1>t. CareTypes
  BY DEF CareInv
<1>1. ASSUME NEW p \in CareAdmins, NEW b \in Accounts, A!SetAccount(p, b) PROVE task' = task
  BY <1>1 DEF A!SetAccount
<1>2. ASSUME NEW p \in Workforce, A!Step(p)
      PROVE  task[p].stage = "wakeup" /\ task'[p] # task[p]
  <2>1. ASSUME NEW b \in Accounts, A!WakeAccount(p, b) PROVE task[p].stage = "wakeup" /\ task'[p] # task[p]
    <3>1. task[p].stage = "wakeup" /\ b \in task[p].todo
      BY <2>1 DEF A!WakeAccount
    <3>2. task'[p].todo = task[p].todo \ {b}
      BY <2>1, <1>t DEF A!WakeAccount, A!Without, CareTypes, TaskRows
    <3> QED BY <3>1, <3>2
  <2>2. ASSUME NEW b \in Accounts, A!CheckHealth(p, b) PROVE FALSE
    <3>1. \A healthy \in BOOLEAN : A!Checked(a, healthy).status = "disabled"
      BY <1>t DEF A!Checked, A!Cooled, A!Restored, CareTypes, AccountRows
    <3>2. \/ UNCHANGED account
          \/ \E healthy \in BOOLEAN : account' = [account EXCEPT ![b] = A!Checked(b, healthy)]
      BY <2>2, Zenon DEF A!CheckHealth, A!Healthy
    <3> QED BY <1>t, <3>1, <3>2 DEF CareTypes
  <2>3. ASSUME NEW v \in task[p].todo \cap A!Verdicts, A!Judge(p, v) PROVE FALSE
    BY <1>t, <2>3 DEF A!Judge, A!Isolated, CareTypes
  <2>4. ASSUME \/ \E b \in Accounts : A!RefreshQuota(p, b)
               \/ \E j \in Jobs : A!ClaimJob(p, j) \/ A!NotRetryable(p, j) \/ A!FinishJob(p, j)
        PROVE  FALSE
    BY <2>4, Zenon DEF A!RefreshQuota, A!ClaimJob, A!NotRetryable, A!FinishJob
  <2> QED BY <1>2, <2>1, <2>2, <2>3, <2>4 DEF A!Step
<1>3. ASSUME \/ \E p \in CareWorkers : A!Tick(p)
             \/ \E p \in CareAdmins : A!Answer(p) \/ A!StartByHand(p) \/ A!PutPlatformConfig(p)
             \/ \E p \in CareAdmins, j \in Jobs : A!CreateJob(p, j)
             \/ \E p \in Workforce : A!ContextEnds(p)
             \/ \E j \in Jobs : A!ComesDue(j)
      PROVE  FALSE
  BY <1>3 DEF A!Tick, A!Answer, A!StartByHand, A!PutPlatformConfig, A!CreateJob, A!ContextEnds, A!ComesDue
<1> QED BY <1>1, <1>2, <1>3 DEF A!Next, Workforce

-----------------------------------------------------------------------------
(* The catalogue: its tables and what its requests keep in mind.              *)
Pairs     == Names \X Surfaces
Triples   == Names \X Surfaces \X Names
Reports   == [added : SUBSET Pairs, updated : SUBSET Pairs, missing : SUBSET Pairs, kept : SUBSET Pairs]
SyncRows  == [status : {"none", "pending", "running", "success", "failed"}, channel : Upstreams \cup {"none"},
              report : Reports, calm : BOOLEAN]
Pricing   == {"price", "commit"}
Syncing   == {"start", "discover", "apply"}
WriterRows == [stage : {"idle", "ability", "jobs"} \cup Pricing \cup Syncing, name : Names \cup {NoName},
               order : Bodies \cup {NoName}, rest : SUBSET Upstreams, channel : Upstreams \cup {"none"},
               found : SUBSET (Pairs \cup Triples), report : Reports]

ModelTypes ==
  /\ model \in [Names -> C!ModelRows] /\ price \in [Names -> C!PriceRows]
  /\ offer \in [Upstreams -> C!Offers] /\ ability \in [C!Abilities -> Names \cup {NoName}]
  /\ lock \in [Names -> Writers \cup {Nobody}]
  /\ sync \in [Writers -> SyncRows] /\ writer \in [Writers -> WriterRows]

(* What a writer keeps in mind between two statements.                        *)
Kept(t) == /\ t.stage = "ability" => t.channel \in Upstreams /\ t.found \subseteq Triples
           /\ t.stage = "apply" => t.found \subseteq Pairs

Minded == \A w \in Writers : Kept(writer[w])

(* Who reprices a model has its row, and what it has checked is still so.     *)
Holds(w) == /\ writer[w].name \in Names /\ writer[w].order \in Bodies
            /\ lock[writer[w].name] = w /\ C!Exists(writer[w].name)

PricesHeld ==
  /\ \A n \in Names : C!Usable(price[n])
  /\ \A w \in Writers :
       /\ writer[w].stage \in Pricing => Holds(w)
       /\ writer[w].stage = "commit" /\ C!Prices(writer[w].order)
            => C!Usable(C!Repriced(writer[w].order, price[writer[w].name]))

(* The report of a job tells the abilities of its channel, before it is       *)
(* applied and after.                                                         *)
Serves(ab, c) == {x \in Pairs : ab[<<c, x[1], x[2]>>] # NoName}
Named(ab, c)  == {x \in Pairs : ab[<<c, x[1], x[2]>>] = x[1]}

Before(ab, c, found, r) ==
  /\ found \subseteq Pairs /\ found = r.added \cup r.updated \cup r.kept
  /\ r.missing = Serves(ab, c) \ found

After(ab, c, r) ==
  LET found == r.added \cup r.updated \cup r.kept
  IN  found \subseteq Named(ab, c) /\ Serves(ab, c) = found \cup r.missing /\ found \cap r.missing = {}

JobIsTrue(w) ==
  /\ sync[w].status # "none" => sync[w].channel \in Upstreams /\ offer[sync[w].channel] # "none"
  /\ writer[w].stage \in Syncing => sync[w].channel = writer[w].channel
  /\ writer[w].stage = "start" => sync[w].status = "pending"
  /\ writer[w].stage \in {"discover", "apply"} => sync[w].status = "running"
  /\ writer[w].stage = "apply" /\ sync[w].calm
       => Before(ability, sync[w].channel, writer[w].found, writer[w].report)
  /\ sync[w].status = "success" /\ sync[w].calm => After(ability, sync[w].channel, sync[w].report)

(* The inductive invariant of the catalogue.                                  *)
CatalogueInv == ModelTypes /\ Minded /\ PricesHeld /\ \A w \in Writers : JobIsTrue(w)

(* The catalogue begins as it was stored, without requests, and its prices    *)
(* evaluate.                                                                  *)
LEMMA CatalogueInvInit == C!Init => CatalogueInv
<1> SUFFICES ASSUME C!Init PROVE CatalogueInv
  OBVIOUS
<1>1. PICK s \in Stocks : model = s.model /\ price = s.price /\ offer = s.channel /\ ability = s.ability
  BY DEF C!Init
<1>2. C!Idle \in WriterRows /\ C!Idle.stage = "idle"
  BY DEF C!Idle, C!NoReport, WriterRows, Reports
<1>3. C!Unasked \in SyncRows /\ C!Unasked.status = "none"
  BY DEF C!Unasked, C!NoReport, SyncRows, Reports
<1>4. /\ lock = [n \in Names |-> Nobody] /\ sync = [w \in Writers |-> C!Unasked]
      /\ writer = [w \in Writers |-> C!Idle]
  BY DEF C!Init
<1>5. ModelTypes
  BY <1>1, <1>2, <1>3, <1>4, CatalogueAssumption DEF ModelTypes
<1>6. \A w \in Writers : writer[w].stage = "idle" /\ sync[w].status = "none"
  BY <1>2, <1>3, <1>4
<1>7. \A n \in Names : C!Usable(price[n])
  BY <1>1, CatalogueAssumption
<1> QED BY <1>5, <1>6, <1>7 DEF CatalogueInv, Minded, Kept, PricesHeld, JobIsTrue, Pricing, Syncing

-----------------------------------------------------------------------------
(* Models and channels stay, whatever is done to them.                        *)
ModelsMove == /\ model' \in [Names -> C!ModelRows]
              /\ \A n \in Names : C!Exists(n) => C!Exists(n)'
OffersMove == /\ offer' \in [Upstreams -> C!Offers]
              /\ \A c \in Upstreams : offer[c] # "none" => offer'[c] # "none"

(* What a body leaves of a model that is there is a model.                    *)
LEMMA RowsAreWritten ==
  ASSUME NEW o \in Bodies, NEW m \in C!ModelRows, m.status # "none"
  PROVE  C!Written(o, m) \in C!ModelRows /\ C!Written(o, m).status # "none"
<1>1. C!Given(o.status, m.status) \in {"active", "disabled"}
  BY CatalogueAssumption DEF C!Given, C!Keep, C!ModelRows
<1>2. C!Given(o.visible, m.visible) \in {"public", "hidden"}
  BY CatalogueAssumption DEF C!Given, C!Keep, C!ModelRows
<1>3. C!Listed(o.caps, m.caps) \in SUBSET Surfaces
  BY CatalogueAssumption DEF C!Listed, C!ModelRows
<1> QED BY <1>1, <1>2, <1>3 DEF C!Written, C!ModelRows

(* Every statement about models and channels is one of these moves.           *)
LEMMA ModelsMoveOn ==
  ASSUME CatalogueInv, C!Next
  PROVE  ModelsMove /\ OffersMove
<1>t. model \in [Names -> C!ModelRows] /\ offer \in [Upstreams -> C!Offers]
  BY DEF CatalogueInv, ModelTypes
<1>n. C!NoModel.visible \in {"public", "hidden"}
  BY DEF C!NoModel
<1>d. ASSUME NEW n \in Names, NEW e \in Surfaces, model' = C!Discovered(n, {e}) PROVE ModelsMove
  <2> DEFINE row == IF C!Exists(n) THEN [model[n] EXCEPT !.caps = @ \cup {e}]
                    ELSE [C!NoModel EXCEPT !.status = "active", !.caps = {e}]
  <2>1. row \in C!ModelRows /\ row.status # "none"
    BY <1>t DEF C!ModelRows, C!NoModel, C!Exists
  <2>2. model' = [model EXCEPT ![n] = row]
    BY <1>d DEF C!Discovered
  <2> HIDE DEF row
  <2> QED BY <1>t, <2>1, <2>2 DEF ModelsMove, C!Exists
<1>m. ASSUME NEW m, model' = [n \in Names |-> m[n]],
             \A n \in Names : m[n] = model[n]
               \/ \E cs \in SUBSET Surfaces : m[n] = [C!NoModel EXCEPT !.status = "active", !.caps = cs]
      PROVE  ModelsMove
  <2>1. ASSUME NEW cs \in SUBSET Surfaces
        PROVE  /\ [C!NoModel EXCEPT !.status = "active", !.caps = cs] \in C!ModelRows
               /\ [C!NoModel EXCEPT !.status = "active", !.caps = cs].status # "none"
    BY DEF C!ModelRows, C!NoModel
  <2>2. ASSUME NEW n \in Names
        PROVE  m[n] \in C!ModelRows /\ (model[n].status # "none" => m[n].status # "none")
    <3>1. model[n] \in C!ModelRows
      BY <1>t
    <3> QED BY <1>m, <2>1, <3>1, Zenon
  <2>3. \A n \in Names : model'[n] = m[n]
    BY <1>m, Zenon
  <2>4. model' \in [Names -> C!ModelRows]
    BY <1>m, <2>2, Zenon
  <2> QED BY <2>2, <2>3, <2>4 DEF ModelsMove, C!Exists
<1>0. ASSUME UNCHANGED model PROVE ModelsMove
  BY <1>t, <1>0 DEF ModelsMove, C!Exists
<1>00. ASSUME UNCHANGED offer PROVE OffersMove
  BY <1>t, <1>00 DEF OffersMove
<1>1. ASSUME NEW w \in Writers, C!Work(w) PROVE ModelsMove /\ OffersMove
  <2>1. CASE C!CommitModel(w)
    <3>1. PICK n \in Names, o \in Bodies : n = writer[w].name /\ o = writer[w].order /\ C!Exists(n)
      BY <2>1 DEF C!CommitModel, C!In, CatalogueInv, PricesHeld, Pricing, Holds
    <3>2. model' = [model EXCEPT ![n] = C!Written(o, model[n])] /\ UNCHANGED offer
      BY <2>1, <3>1 DEF C!CommitModel
    <3>3. C!Written(o, model[n]) \in C!ModelRows /\ C!Written(o, model[n]).status # "none"
      BY <1>t, <3>1, RowsAreWritten DEF C!Exists
    <3> QED BY <1>t, <1>00, <3>2, <3>3 DEF ModelsMove, C!Exists
  <2>2. CASE C!ApplySync(w)
    <3> DEFINE found == writer[w].found
    <3>2. found \subseteq Pairs
      BY <2>2, Zenon DEF C!ApplySync, C!In, CatalogueInv, Minded, Kept
    <3> DEFINE caps(n) == {x[2] : x \in {x \in found : x[1] = n}}
               m == [n \in Names |-> IF n \in {x[1] : x \in found} /\ ~C!Exists(n)
                       THEN [C!NoModel EXCEPT !.status = "active", !.caps = caps(n)] ELSE model[n]]
    <3>3. \A n : caps(n) \in SUBSET Surfaces
      BY <3>2 DEF Pairs
    <3>4. model' = m /\ UNCHANGED offer
      BY <2>2, Zenon DEF C!ApplySync
    <3> HIDE DEF caps, found
    <3>5. model' = [n \in Names |-> m[n]]
      BY <3>4, Zenon
    <3>6. \A n \in Names : m[n] = model[n]
            \/ \E cs \in SUBSET Surfaces : m[n] = [C!NoModel EXCEPT !.status = "active", !.caps = cs]
      BY <3>3, Zenon
    <3> HIDE DEF m
    <3> QED BY <1>m, <1>00, <3>4, <3>5, <3>6, Zenon
  <2>3. CASE ~(C!CommitModel(w) \/ C!ApplySync(w))
    <3>1. UNCHANGED <<model, offer>>
      BY <1>1, <2>3, Zenon DEF C!Work, C!ReadPrice, C!PutAbility, C!Drop, C!CreateJob, C!EndJobs, C!StartJob,
                        C!FailJob, C!Discover
    <3> QED BY <1>0, <1>00, <3>1
  <2> QED BY <2>1, <2>2, <2>3
<1>2. ASSUME NEW w \in Writers, C!Asked(w) PROVE ModelsMove /\ OffersMove
  <2>1. ASSUME NEW c \in Upstreams, NEW n \in Names, NEW e \in Surfaces, NEW up \in Names,
               C!EnsureModel(w, c, n, e, up)
        PROVE  ModelsMove /\ OffersMove
    BY <1>d, <1>00, <2>1 DEF C!EnsureModel
  <2>2. ASSUME \/ \E cs \in SUBSET Upstreams : C!RunJobs(w, cs)
               \/ \E n \in Names, o \in Bodies : C!LockModel(w, n, o)
        PROVE  ModelsMove /\ OffersMove
    BY <1>0, <1>00, <2>2, Zenon DEF C!RunJobs, C!LockModel
  <2> QED BY <1>2, <2>1, <2>2 DEF C!Asked
<1>3. ASSUME C!AtOnce PROVE ModelsMove /\ OffersMove
  <2>1. CASE C!SyncFromChannels
    <3> DEFINE caps(n) == {k[3] : k \in {k \in C!Abilities : ability[k] = n}}
    <3>1. \A n : caps(n) \in SUBSET Surfaces
      BY DEF C!Abilities
    <3> DEFINE m == [n \in Names |-> IF n \in C!Missing
                       THEN [C!NoModel EXCEPT !.status = "active", !.caps = caps(n)] ELSE model[n]]
    <3>2. model' = m /\ UNCHANGED offer
      BY <2>1, Zenon DEF C!SyncFromChannels
    <3> HIDE DEF caps
    <3>3. model' = [n \in Names |-> m[n]]
      BY <3>2, Zenon
    <3>4. \A n \in Names : m[n] = model[n]
            \/ \E cs \in SUBSET Surfaces : m[n] = [C!NoModel EXCEPT !.status = "active", !.caps = cs]
      BY <3>1, Zenon
    <3> HIDE DEF m
    <3> QED BY <1>m, <1>00, <3>2, <3>3, <3>4, Zenon
  <2>2. ASSUME NEW n \in Names, NEW o \in Bodies, C!CreateModel(n, o) PROVE ModelsMove /\ OffersMove
    <3> DEFINE new == [status |-> "active", visible |-> "public", caps |-> {}]
    <3>1. new \in C!ModelRows /\ new.status # "none"
      BY DEF C!ModelRows
    <3>2. model' = [model EXCEPT ![n] = C!Written(o, new)] /\ UNCHANGED offer
      BY <2>2 DEF C!CreateModel
    <3> HIDE DEF new
    <3>3. C!Written(o, new) \in C!ModelRows /\ C!Written(o, new).status # "none"
      BY <3>1, RowsAreWritten
    <3> QED BY <1>t, <1>00, <3>2, <3>3 DEF ModelsMove, C!Exists
  <2>3. ASSUME NEW ns \in SUBSET Names, NEW s \in {C!Keep, "active", "disabled"},
               NEW v \in {C!Keep, "public", "hidden"}, C!BatchModels(ns, s, v)
        PROVE  ModelsMove /\ OffersMove
    <3>1. ASSUME NEW n \in Names, C!Exists(n)
          PROVE  LET r == [model[n] EXCEPT !.status = C!Given(s, @), !.visible = C!Given(v, @)]
                 IN  r \in C!ModelRows /\ r.status # "none"
      <4>1. C!Given(s, model[n].status) \in {"active", "disabled"} /\ C!Given(v, model[n].visible) \in {"public", "hidden"}
        BY <1>t, <3>1 DEF C!Given, C!Exists, C!ModelRows
      <4> QED BY <1>t, <4>1 DEF C!ModelRows
    <3> QED BY <1>t, <1>00, <2>3, <3>1, Zenon DEF C!BatchModels, ModelsMove, C!Exists
  <2>4. ASSUME NEW c \in Upstreams, NEW s \in {"active", "disabled", "cooldown"}, C!PatchChannel(c, s)
        PROVE  ModelsMove /\ OffersMove
    BY <1>t, <1>0, <2>4 DEF C!PatchChannel, OffersMove, C!Offers
  <2>5. ASSUME NEW c \in Upstreams, NEW n \in Names, NEW e \in Surfaces, NEW up \in Names,
               C!CreateChannel(c, n, e, up)
        PROVE  ModelsMove /\ OffersMove
    BY <1>t, <1>d, <2>5 DEF C!CreateChannel, OffersMove, C!Offers
  <2> QED BY <1>3, <2>1, <2>2, <2>3, <2>4, <2>5 DEF C!AtOnce
<1> QED BY <1>1, <1>2, <1>3 DEF C!Next

-----------------------------------------------------------------------------
(* Writers: of the stages that say something of the tables, each is entered   *)
(* by one statement.                                                          *)
Quiet == {"idle", "ability", "jobs"}

(* The statements that enter one of the other stages.                         *)
Proceeds(w, t) ==
  \/ t.stage \in Pricing /\ (C!ReadPrice(w) \/ \E n \in Names, o \in Bodies : C!LockModel(w, n, o))
  \/ t.stage \in Syncing /\ (C!CreateJob(w) \/ C!StartJob(w) \/ \E items \in Listings : C!Discover(w, items))

WriterMoves(w, t) == /\ t \in WriterRows /\ Kept(t) /\ writer' = [writer EXCEPT ![w] = t]
                     /\ t.stage \in Quiet \/ Proceeds(w, t)

(* What diffChannelModels reports tells the abilities that it was given.      *)
LEMMA DifferencesAreTyped ==
  ASSUME ModelTypes, NEW c \in Upstreams, NEW found \in SUBSET Pairs
  PROVE  C!Differences(c, found) \in Reports /\ Before(ability, c, found, C!Differences(c, found))
<1> DEFINE has == Serves(ability, c)
           own(x) == ability[<<c, x[1], x[2]>>] = x[1]
           r == [added |-> found \ has, updated |-> {x \in found \cap has : ~own(x)},
                 kept |-> {x \in found \cap has : own(x)}, missing |-> has \ found]
<1>1. C!Differences(c, found) = r
  BY DEF C!Differences, Serves, Pairs
<1>2. has \subseteq Pairs
  BY DEF Serves
<1> HIDE DEF has
<1>3. r \in Reports
  BY <1>2 DEF Reports
<1>4. found = r.added \cup r.updated \cup r.kept
  OBVIOUS
<1> QED BY <1>1, <1>3, <1>4 DEF Before, has

(* What an upstream lists are names and endpoints.                            *)
LEMMA ListingIsPairs ==
  ASSUME NEW items \in Listings
  PROVE  C!Listing(items) \in SUBSET Pairs
<1> SUFFICES ASSUME NEW x \in C!Listing(items) PROVE x \in Pairs
  OBVIOUS
<1>1. PICK i \in items : i.name # NoName /\ x \in {i.name} \X (IF i.endpoints = {} THEN Defaults ELSE i.endpoints)
  BY DEF C!Listing
<1>2. i.name \in Names /\ (IF i.endpoints = {} THEN Defaults ELSE i.endpoints) \subseteq Surfaces
  BY <1>1, CatalogueAssumption
<1> QED BY <1>1, <1>2 DEF Pairs

(* Every step moves one writer, to a quiet stage or by a statement that       *)
(* enters one of the others.                                                  *)
LEMMA WritersMoveOn ==
  ASSUME CatalogueInv, C!Next
  PROVE  UNCHANGED writer \/ \E w \in Writers, t \in WriterRows : WriterMoves(w, t)
<1> DEFINE Goal == UNCHANGED writer \/ \E w \in Writers, t \in WriterRows : WriterMoves(w, t)
<1>i. C!Idle \in WriterRows /\ C!Idle.stage = "idle"
  BY DEF C!Idle, C!NoReport, WriterRows, Reports
<1>t. ModelTypes /\ Minded
  BY DEF CatalogueInv
<1>0. ASSUME NEW w \in Writers, writer' = [writer EXCEPT ![w] = C!Idle] PROVE Goal
  BY <1>0, <1>i DEF WriterMoves, Kept, Quiet
<1>j. ASSUME NEW w \in Writers, NEW rest \in SUBSET Upstreams,
             writer' = [writer EXCEPT ![w] = [C!Idle EXCEPT !.stage = "jobs", !.rest = rest]]
      PROVE  Goal
  <2> DEFINE t == [C!Idle EXCEPT !.stage = "jobs", !.rest = rest]
  <2>1. t \in WriterRows /\ t.stage = "jobs"
    BY <1>i DEF WriterRows, C!Idle
  <2>2. writer' = [writer EXCEPT ![w] = t]
    BY <1>j
  <2> HIDE DEF t
  <2> QED BY <2>1, <2>2 DEF WriterMoves, Kept, Quiet
<1>1. ASSUME NEW w \in Writers, C!Work(w) PROVE Goal
  <2>t. PICK old \in WriterRows : old = writer[w] /\ Kept(old)
    BY <1>t DEF ModelTypes, Minded
  <2>1. CASE C!CommitModel(w) \/ C!PutAbility(w) \/ C!Drop(w) \/ C!EndJobs(w)
    BY <1>0, <2>1 DEF C!CommitModel, C!PutAbility, C!Drop, C!EndJobs, C!Go
  <2>2. CASE C!FailJob(w) \/ C!ApplySync(w)
    <3>1. PICK rest \in SUBSET Upstreams : rest = old.rest
      BY DEF WriterRows
    <3>2. writer' = [writer EXCEPT ![w] = [C!Idle EXCEPT !.stage = "jobs", !.rest = rest]]
      BY <2>2, <2>t, <3>1, Zenon DEF C!FailJob, C!ApplySync, C!Go
    <3> QED BY <1>j, <3>2, Zenon
  <2>3. CASE C!ReadPrice(w)
    <3> DEFINE t == [old EXCEPT !.stage = "commit"]
    <3>1. t \in WriterRows /\ t.stage = "commit"
      BY DEF WriterRows, Pricing
    <3>2. writer' = [writer EXCEPT ![w] = t]
      BY <2>3, <2>t DEF C!ReadPrice, C!Go
    <3> HIDE DEF t
    <3> QED BY <2>3, <3>1, <3>2 DEF WriterMoves, Kept, Proceeds, Pricing, Syncing
  <2>4. CASE C!CreateJob(w)
    <3>1. PICK c \in old.rest :
            writer' = [writer EXCEPT ![w] = [old EXCEPT !.stage = "start", !.channel = c, !.rest = @ \ {c}]]
      BY <2>4, <2>t, Zenon DEF C!CreateJob, C!Go
    <3> DEFINE t == [old EXCEPT !.stage = "start", !.channel = c, !.rest = @ \ {c}]
    <3>2. t \in WriterRows /\ t.stage = "start"
      BY DEF WriterRows, Syncing
    <3>3. writer' = [writer EXCEPT ![w] = t]
      BY <3>1
    <3> HIDE DEF t
    <3> QED BY <2>4, <3>2, <3>3 DEF WriterMoves, Kept, Proceeds, Pricing, Syncing
  <2>5. CASE C!StartJob(w)
    <3> DEFINE t == [old EXCEPT !.stage = "discover"]
    <3>1. t \in WriterRows /\ t.stage = "discover"
      BY DEF WriterRows, Syncing
    <3>2. writer' = [writer EXCEPT ![w] = t]
      BY <2>5, <2>t DEF C!StartJob, C!Go
    <3> HIDE DEF t
    <3> QED BY <2>5, <3>1, <3>2 DEF WriterMoves, Kept, Proceeds, Pricing, Syncing
  <2>6. ASSUME NEW items \in Listings, C!Discover(w, items) PROVE Goal
    <3>1. old.stage = "discover" /\ old.channel \in Upstreams
      <4>1. old.stage = "discover"
        BY <2>6, <2>t DEF C!Discover, C!In
      <4>2. sync[w].status # "none" /\ sync[w].channel = old.channel
        BY <4>1, <2>t DEF CatalogueInv, JobIsTrue, Syncing
      <4> QED BY <4>1, <4>2 DEF CatalogueInv, JobIsTrue
    <3>2. PICK found \in SUBSET Pairs, r \in Reports :
            found = C!Listing(items) /\ r = C!Differences(old.channel, found)
      BY <1>t, <3>1, ListingIsPairs, DifferencesAreTyped
    <3> DEFINE t == [old EXCEPT !.stage = "apply", !.found = found, !.report = r]
    <3>3. t \in WriterRows /\ t.stage = "apply" /\ t.found = found
      BY DEF WriterRows, Syncing
    <3>4. writer' = [writer EXCEPT ![w] = t]
      BY <2>6, <2>t, <3>2 DEF C!Discover, C!Go
    <3> HIDE DEF t
    <3> QED BY <2>6, <3>3, <3>4 DEF WriterMoves, Kept, Proceeds, Pricing, Syncing
  <2> QED BY <1>1, <2>1, <2>2, <2>3, <2>4, <2>5, <2>6 DEF C!Work
<1>2. ASSUME NEW w \in Writers, C!Asked(w) PROVE Goal
  <2>1. ASSUME NEW cs \in SUBSET Upstreams, C!RunJobs(w, cs) PROVE Goal
    <3>1. PICK rest \in SUBSET Upstreams :
            rest = IF cs = {} THEN {c \in Upstreams : offer[c] = "active"} ELSE cs
      OBVIOUS
    <3>2. writer' = [writer EXCEPT ![w] = [C!Idle EXCEPT !.stage = "jobs", !.rest = rest]]
      BY <2>1, <3>1 DEF C!RunJobs, C!Begin, C!Go
    <3> QED BY <1>j, <3>2, Zenon
  <2>2. ASSUME NEW n \in Names, NEW o \in Bodies, C!LockModel(w, n, o) PROVE Goal
    <3> DEFINE t == [C!Idle EXCEPT !.stage = "price", !.name = n, !.order = o]
    <3>1. t \in WriterRows /\ t.stage = "price"
      BY <1>i DEF WriterRows, C!Idle, Pricing
    <3>2. writer' = [writer EXCEPT ![w] = t]
      BY <2>2 DEF C!LockModel, C!Begin, C!Go
    <3> HIDE DEF t
    <3> QED BY <2>2, <3>1, <3>2 DEF WriterMoves, Kept, Proceeds, Pricing, Syncing
  <2>3. ASSUME NEW c \in Upstreams, NEW n \in Names, NEW e \in Surfaces, NEW up \in Names,
               C!EnsureModel(w, c, n, e, up)
        PROVE  Goal
    <3> DEFINE t == [C!Idle EXCEPT !.stage = "ability", !.channel = c, !.name = n, !.found = {<<n, e, up>>}]
    <3>1. {<<n, e, up>>} \in SUBSET Triples
      BY DEF Triples
    <3>2. t \in WriterRows /\ t.stage = "ability" /\ t.channel = c /\ t.found = {<<n, e, up>>}
      BY <1>i, <3>1 DEF WriterRows, C!Idle
    <3>3. writer' = [writer EXCEPT ![w] = t]
      BY <2>3 DEF C!EnsureModel, C!Begin, C!Go
    <3> HIDE DEF t
    <3> QED BY <3>1, <3>2, <3>3 DEF WriterMoves, Kept, Quiet
  <2> QED BY <1>2, <2>1, <2>2, <2>3 DEF C!Asked
<1>3. ASSUME C!AtOnce PROVE Goal
  BY <1>3, Zenon DEF C!AtOnce, C!SyncFromChannels, C!CreateModel, C!BatchModels, C!PatchChannel, C!CreateChannel
<1> QED BY <1>1, <1>2, <1>3 DEF C!Next

-----------------------------------------------------------------------------
(* The row of a model that is repriced is locked from the check to the write. *)

(* Between the check of a price and its write the row is locked, so that what *)
(* was checked is what is written (upsertModel).                              *)
LEMMA PricesHeldNext == CatalogueInv /\ C!Next => PricesHeld'
<1> SUFFICES ASSUME CatalogueInv, C!Next PROVE PricesHeld'
  OBVIOUS
<1>t. /\ price \in [Names -> C!PriceRows] /\ lock \in [Names -> Writers \cup {Nobody}]
      /\ writer \in [Writers -> WriterRows] /\ PricesHeld
  BY DEF CatalogueInv, ModelTypes
<1>m. \A n \in Names : C!Exists(n) => C!Exists(n)'
  BY ModelsMoveOn DEF ModelsMove
<1>p. \A v \in Writers : writer[v].stage = "commit" => writer[v].stage \in Pricing
  BY DEF Pricing
<1> DEFINE Sure(v) == /\ writer[v].stage \in Pricing => Holds(v)
                      /\ writer[v].stage = "commit" /\ C!Prices(writer[v].order)
                           => C!Usable(C!Repriced(writer[v].order, price[writer[v].name]))
<1>s. \A v \in Writers : Sure(v)
  BY <1>t DEF PricesHeld
<1>f. ASSUME NEW v \in Writers, writer'[v] = writer[v],
             writer[v].stage \in Pricing =>
               lock'[writer[v].name] = lock[writer[v].name] /\ price'[writer[v].name] = price[writer[v].name]
      PROVE  Sure(v)'
  BY <1>f, <1>m, <1>p, <1>s DEF Holds, C!Prices, C!Usable, C!Repriced
<1>q. ASSUME NEW v \in Writers, writer'[v].stage \notin Pricing PROVE Sure(v)'
  BY <1>q DEF Pricing
<1>1. ASSUME NEW n \in Names, NEW o \in Bodies, C!CreateModel(n, o) PROVE PricesHeld'
  <2>1. /\ UNCHANGED <<lock, writer>> /\ ~C!Exists(n)
        /\ price'[n] = C!Repriced(o, C!Standard) /\ C!Usable(C!Repriced(o, C!Standard))
        /\ \A m \in Names : m # n => price'[m] = price[m]
    BY <1>1, <1>t DEF C!CreateModel
  <2>2. ASSUME NEW v \in Writers PROVE Sure(v)'
    BY <1>f, <1>s, <2>1 DEF Holds
  <2>3. \A m \in Names : C!Usable(price'[m])
    BY <1>t, <2>1 DEF PricesHeld
  <2> QED BY <2>2, <2>3 DEF PricesHeld, C!Usable
<1>2. ASSUME NEW w \in Writers, NEW n \in Names, NEW o \in Bodies, C!LockModel(w, n, o) PROVE PricesHeld'
  <2>1. /\ UNCHANGED price /\ lock[n] = Nobody /\ C!Exists(n)
        /\ lock'[n] = w /\ \A m \in Names : m # n => lock'[m] = lock[m]
    BY <1>2, <1>t DEF C!LockModel, C!Free
  <2>2. /\ writer'[w].stage = "price" /\ writer'[w].name = n /\ writer'[w].order = o
        /\ \A v \in Writers : v # w => writer'[v] = writer[v]
    BY <1>2, <1>t DEF C!LockModel, C!Begin, C!Go, C!Idle
  <2>3. Sure(w)'
    BY <1>m, <2>1, <2>2 DEF Holds
  <2>4. ASSUME NEW v \in Writers, v # w PROVE Sure(v)'
    BY <1>f, <1>s, <2>1, <2>2, <2>4, CatalogueAssumption DEF Holds
  <2> QED BY <1>t, <2>1, <2>3, <2>4 DEF PricesHeld, C!Usable
<1>3. ASSUME NEW w \in Writers, C!ReadPrice(w) PROVE PricesHeld'
  <2>1. UNCHANGED <<price, lock>>
    BY <1>3 DEF C!ReadPrice
  <2>2. /\ writer'[w].stage = "commit" /\ writer'[w].name = writer[w].name /\ writer'[w].order = writer[w].order
        /\ \A v \in Writers : v # w => writer'[v] = writer[v]
    BY <1>3, <1>t DEF C!ReadPrice, C!Go, WriterRows
  <2>3. /\ ~C!Prices(writer[w].order) \/ C!Usable(C!Repriced(writer[w].order, price[writer[w].name]))
        /\ Holds(w)
    BY <1>3, <1>t DEF C!ReadPrice, C!In, PricesHeld, Pricing
  <2>4. Sure(w)'
    BY <1>m, <2>1, <2>2, <2>3 DEF Holds, C!Prices, C!Usable, C!Repriced
  <2>5. ASSUME NEW v \in Writers, v # w PROVE Sure(v)'
    BY <1>f, <2>1, <2>2, <2>5
  <2> QED BY <1>t, <2>1, <2>4, <2>5 DEF PricesHeld, C!Usable
<1>4. ASSUME NEW w \in Writers, C!CommitModel(w) PROVE PricesHeld'
  <2>1. PICK n \in Names, o \in Bodies : /\ n = writer[w].name /\ o = writer[w].order /\ lock[n] = w
                                         /\ writer[w].stage = "commit"
    BY <1>4, <1>t DEF C!CommitModel, C!In, PricesHeld, Pricing, Holds
  <2>2. /\ price'[n] = C!Repriced(o, price[n]) /\ \A m \in Names : m # n => price'[m] = price[m] /\ lock'[m] = lock[m]
        /\ writer'[w] = C!Idle /\ \A v \in Writers : v # w => writer'[v] = writer[v]
    BY <1>4, <1>t, <2>1 DEF C!CommitModel, C!Go
  <2>3. C!Usable(C!Repriced(o, price[n]))
    <3>1. CASE C!Prices(o)
      BY <1>t, <2>1, <3>1 DEF PricesHeld
    <3>2. CASE ~C!Prices(o)
      BY <1>t, <3>2 DEF C!Prices, C!Repriced, C!Given, C!Usable, PricesHeld
    <3> QED BY <3>1, <3>2
  <2>4. \A m \in Names : C!Usable(price'[m])
    BY <1>t, <2>2, <2>3 DEF PricesHeld
  <2>5. Sure(w)'
    BY <1>q, <2>2 DEF C!Idle, Pricing
  <2>6. ASSUME NEW v \in Writers, v # w PROVE Sure(v)'
    BY <1>f, <1>s, <2>1, <2>2, <2>6 DEF Holds
  <2> QED BY <2>4, <2>5, <2>6 DEF PricesHeld, C!Usable
<1>5. ASSUME NEW w \in Writers, C!Drop(w) PROVE PricesHeld'
  <2>1. /\ UNCHANGED price /\ \A m \in Names : lock[m] # w => lock'[m] = lock[m]
        /\ writer'[w] = C!Idle /\ \A v \in Writers : v # w => writer'[v] = writer[v]
    BY <1>5, <1>t DEF C!Drop, C!Go
  <2>2. Sure(w)'
    BY <1>q, <2>1 DEF C!Idle, Pricing
  <2>3. ASSUME NEW v \in Writers, v # w PROVE Sure(v)'
    BY <1>f, <1>s, <2>1, <2>3 DEF Holds
  <2> QED BY <1>t, <2>1, <2>2, <2>3 DEF PricesHeld, C!Usable
<1>6. CASE ~ \/ \E n \in Names, o \in Bodies : C!CreateModel(n, o) \/ \E w \in Writers : C!LockModel(w, n, o)
             \/ \E w \in Writers : C!ReadPrice(w) \/ C!CommitModel(w) \/ C!Drop(w)
  <2>1. UNCHANGED <<price, lock>>
    BY <1>6, Zenon DEF C!Next, C!AtOnce, C!Asked, C!Work, C!SyncFromChannels, C!BatchModels, C!PatchChannel,
         C!CreateChannel, C!RunJobs, C!EnsureModel, C!PutAbility, C!CreateJob, C!EndJobs, C!StartJob,
         C!FailJob, C!ApplySync, C!Discover
  <2>2. \A v \in Writers : writer'[v] = writer[v] \/ writer'[v].stage \notin Pricing
    <3>1. ASSUME NEW w \in Writers, NEW t \in WriterRows, WriterMoves(w, t)
          PROVE  \A v \in Writers : writer'[v] = writer[v] \/ writer'[v].stage \notin Pricing
      BY <1>6, <1>t, <3>1 DEF WriterMoves, Proceeds, Pricing, Syncing, Quiet
    <3> QED BY <3>1, WritersMoveOn
  <2>3. ASSUME NEW v \in Writers PROVE Sure(v)'
    BY <1>f, <1>q, <2>1, <2>2
  <2> QED BY <1>t, <2>1, <2>3 DEF PricesHeld, C!Usable
<1> QED BY <1>1, <1>2, <1>3, <1>4, <1>5, <1>6

-----------------------------------------------------------------------------
(* Two sets of abilities that agree on a channel serve and name the same      *)
(* there.                                                                     *)
LEMMA SameAbilities ==
  ASSUME NEW ab, NEW ab2, NEW c, \A x \in Pairs : ab2[<<c, x[1], x[2]>>] = ab[<<c, x[1], x[2]>>]
  PROVE  Serves(ab2, c) = Serves(ab, c) /\ Named(ab2, c) = Named(ab, c)
BY DEF Serves, Named

(* A statement of another request leaves a job alone, or its channel's         *)
(* abilities are no longer those that it read.                                *)
LEMMA LeftAlone ==
  ASSUME CatalogueInv, OffersMove, NEW v \in Writers,
         writer'[v] = writer[v] \/ writer'[v].stage \notin Syncing,
         sync'[v] = sync[v] \/ sync'[v] = [sync[v] EXCEPT !.calm = FALSE],
         sync[v].status # "none" /\ sync'[v].calm =>
           \A x \in Pairs : ability'[<<sync[v].channel, x[1], x[2]>>] = ability[<<sync[v].channel, x[1], x[2]>>]
  PROVE  JobIsTrue(v)'
<1>1. PICK j \in SyncRows : j = sync[v]
  BY DEF CatalogueInv, ModelTypes
<1>2. PICK j2 \in SyncRows : /\ j2 = sync'[v] /\ j2.status = j.status /\ j2.channel = j.channel
                             /\ j2.report = j.report /\ (j2.calm => j.calm)
  BY <1>1 DEF SyncRows
<1>3. JobIsTrue(v)
  BY DEF CatalogueInv
<1>s. \A st \in Syncing : st \in {"start", "discover", "apply"}
  BY DEF Syncing
<1>4. j2.status # "none" => j2.channel \in Upstreams /\ offer'[j2.channel] # "none"
  BY <1>1, <1>2, <1>3 DEF JobIsTrue, OffersMove
<1>5. CASE writer'[v] = writer[v] /\ writer[v].stage \in Syncing
  <2>1. j2.channel = writer'[v].channel
    BY <1>1, <1>2, <1>3, <1>5 DEF JobIsTrue
  <2>2. writer'[v].stage = "start" => j2.status = "pending"
    BY <1>1, <1>2, <1>3, <1>5 DEF JobIsTrue
  <2>3. writer'[v].stage \in {"discover", "apply"} => j2.status = "running"
    BY <1>1, <1>2, <1>3, <1>5 DEF JobIsTrue
  <2>4. ASSUME writer'[v].stage = "apply", j2.calm
        PROVE  Before(ability', j2.channel, writer'[v].found, writer'[v].report)
    <3>1. Before(ability, j.channel, writer[v].found, writer[v].report) /\ j.status = "running"
      BY <1>1, <1>2, <1>3, <1>5, <2>4 DEF JobIsTrue
    <3>2. Serves(ability', j.channel) = Serves(ability, j.channel)
      BY <1>1, <1>2, <2>4, <3>1, SameAbilities
    <3> QED BY <1>2, <1>5, <3>1, <3>2 DEF Before
  <2>5. ASSUME j2.status = "success", j2.calm PROVE After(ability', j2.channel, j2.report)
    <3>1. After(ability, j.channel, j.report)
      BY <1>1, <1>2, <1>3, <2>5 DEF JobIsTrue
    <3>2. /\ Serves(ability', j.channel) = Serves(ability, j.channel)
          /\ Named(ability', j.channel) = Named(ability, j.channel)
      BY <1>1, <1>2, <2>5, SameAbilities
    <3> QED BY <1>2, <3>1, <3>2 DEF After
  <2> QED BY <1>2, <1>4, <2>1, <2>2, <2>3, <2>4, <2>5 DEF JobIsTrue
<1>6. CASE writer'[v].stage \notin Syncing
  <2>5. ASSUME j2.status = "success", j2.calm PROVE After(ability', j2.channel, j2.report)
    <3>1. After(ability, j.channel, j.report)
      BY <1>1, <1>2, <1>3, <2>5 DEF JobIsTrue
    <3>2. /\ Serves(ability', j.channel) = Serves(ability, j.channel)
          /\ Named(ability', j.channel) = Named(ability, j.channel)
      BY <1>1, <1>2, <2>5, SameAbilities
    <3> QED BY <1>2, <3>1, <3>2 DEF After
  <2>6. writer'[v].stage \notin {"start", "discover", "apply"}
    BY <1>6 DEF Syncing
  <2> QED BY <1>2, <1>4, <1>6, <2>5, <2>6 DEF JobIsTrue
<1> QED BY <1>5, <1>6

(* Applying what was found makes the report true of the channel.              *)
LEMMA SyncIsTold ==
  ASSUME NEW c \in Upstreams, NEW found \in SUBSET Pairs, NEW r, Before(ability, c, found, r),
         ability' = [k \in C!Abilities |->
                       IF k[1] = c /\ <<k[2], k[3]>> \in found THEN k[2] ELSE ability[k]]
  PROVE  After(ability', c, r)
<1>1. ASSUME NEW x \in Pairs
      PROVE  ability'[<<c, x[1], x[2]>>] = IF x \in found THEN x[1] ELSE ability[<<c, x[1], x[2]>>]
  <2>1. x = <<x[1], x[2]>> /\ <<c, x[1], x[2]>> \in C!Abilities
    BY DEF Pairs, C!Abilities
  <2> QED BY <2>1
<1>2. \A x \in Pairs : x[1] # NoName
  BY CatalogueAssumption DEF Pairs
<1>3. Serves(ability', c) = found \cup Serves(ability, c)
  BY <1>1, <1>2 DEF Serves
<1>4. found \subseteq Named(ability', c)
  BY <1>1 DEF Named
<1> QED BY <1>3, <1>4 DEF Before, After

(* A report stays true of its channel until another request writes abilities  *)
(* of it, which the job then knows.                                           *)
LEMMA JobsTrueNext == CatalogueInv /\ C!Next => \A v \in Writers : JobIsTrue(v)'
<1> SUFFICES ASSUME CatalogueInv, C!Next PROVE \A v \in Writers : JobIsTrue(v)'
  OBVIOUS
<1>t. /\ sync \in [Writers -> SyncRows] /\ writer \in [Writers -> WriterRows]
      /\ ability \in [C!Abilities -> Names \cup {NoName}] /\ ModelTypes
  BY DEF CatalogueInv, ModelTypes
<1>o. OffersMove
  BY ModelsMoveOn
<1>j. \A v \in Writers : JobIsTrue(v) /\ Kept(writer[v])
  BY DEF CatalogueInv, Minded
<1>k. \A c \in Upstreams, x \in Pairs : <<c, x[1], x[2]>> \in C!Abilities
  BY DEF Pairs, C!Abilities
<1>s. ASSUME NEW v \in Writers, UNCHANGED ability, sync'[v] = sync[v],
             writer'[v] = writer[v] \/ writer'[v].stage \notin Syncing
      PROVE  JobIsTrue(v)'
  BY <1>s, <1>o, LeftAlone
<1>d. ASSUME NEW c \in Upstreams, NEW v \in Writers, sync'[v] = C!Disturbed(c)[v],
             \A k \in C!Abilities : k[1] # c => ability'[k] = ability[k],
             writer'[v] = writer[v] \/ writer'[v].stage \notin Syncing
      PROVE  JobIsTrue(v)'
  <2>1. CASE sync[v].channel = c
    <3>1. sync'[v] = [sync[v] EXCEPT !.calm = FALSE]
      BY <1>d, <2>1 DEF C!Disturbed
    <3>2. sync'[v].calm = FALSE
      BY <1>t, <3>1 DEF SyncRows
    <3> QED BY <1>d, <1>o, <3>1, <3>2, LeftAlone
  <2>2. CASE sync[v].channel # c
    <3>1. sync'[v] = sync[v]
      BY <1>d, <2>2 DEF C!Disturbed
    <3>2. ASSUME sync[v].status # "none", NEW x \in Pairs
          PROVE  ability'[<<sync[v].channel, x[1], x[2]>>] = ability[<<sync[v].channel, x[1], x[2]>>]
      <4>1. sync[v].channel \in Upstreams
        BY <1>j, <3>2 DEF JobIsTrue
      <4> QED BY <1>d, <1>k, <2>2, <4>1
    <3> QED BY <1>d, <1>o, <3>1, <3>2, LeftAlone
  <2> QED BY <2>1, <2>2
<1>1. ASSUME NEW c \in Upstreams, NEW n \in Names, NEW e \in Surfaces, NEW up \in Names,
             C!CreateChannel(c, n, e, up), NEW v \in Writers
      PROVE  JobIsTrue(v)'
  <2>1. /\ UNCHANGED <<sync, writer>> /\ offer[c] = "none"
        /\ \A k \in C!Abilities : k[1] # c => ability'[k] = ability[k]
    BY <1>1, <1>t DEF C!CreateChannel
  <2>2. ASSUME sync[v].status # "none", NEW x \in Pairs
        PROVE  ability'[<<sync[v].channel, x[1], x[2]>>] = ability[<<sync[v].channel, x[1], x[2]>>]
    <3>1. sync[v].channel \in Upstreams /\ sync[v].channel # c
      BY <1>j, <2>1, <2>2 DEF JobIsTrue
    <3> QED BY <1>k, <2>1, <3>1
  <2> QED BY <1>o, <2>1, <2>2, LeftAlone
<1>2. ASSUME NEW w \in Writers, C!PutAbility(w), NEW v \in Writers PROVE JobIsTrue(v)'
  <2> DEFINE c == writer[w].channel
  <2>1. c \in Upstreams /\ writer[w].found \subseteq Triples
    BY <1>2, <1>j DEF C!PutAbility, C!In, Kept
  <2>2. sync' = C!Disturbed(c) /\ \E f \in writer[w].found : ability' = [ability EXCEPT ![<<c, f[1], f[2]>>] = f[3]]
    BY <1>2 DEF C!PutAbility
  <2>3. writer'[v] = writer[v] \/ writer'[v].stage \notin Syncing
    BY <1>2, <1>t DEF C!PutAbility, C!Go, C!Idle, Syncing
  <2>4. \A k \in C!Abilities : k[1] # c => ability'[k] = ability[k]
    BY <1>t, <2>2
  <2> HIDE DEF c
  <2> QED BY <1>d, <2>1, <2>2, <2>3, <2>4
<1>3. ASSUME NEW w \in Writers, C!ApplySync(w), NEW v \in Writers PROVE JobIsTrue(v)'
  <2>1. PICK c \in Upstreams, found \in SUBSET Pairs, r \in Reports, j \in SyncRows :
           /\ c = writer[w].channel /\ found = writer[w].found /\ r = writer[w].report /\ j = sync[w]
           /\ j.channel = c /\ (j.calm => Before(ability, c, found, r)) /\ offer[c] # "none"
    <3>1. writer[w].stage = "apply"
      BY <1>3, Zenon DEF C!ApplySync, C!In
    <3>2. writer[w].found \subseteq Pairs /\ writer[w].report \in Reports /\ sync[w] \in SyncRows
      BY <1>t, <1>j, <3>1 DEF Kept, WriterRows
    <3>3. sync[w].status = "running" /\ sync[w].channel = writer[w].channel
      BY <1>j, <3>1 DEF JobIsTrue, Syncing
    <3>4. sync[w].channel \in Upstreams /\ offer[sync[w].channel] # "none"
      BY <1>j, <3>3 DEF JobIsTrue
    <3>5. sync[w].calm => Before(ability, sync[w].channel, writer[w].found, writer[w].report)
      BY <1>j, <3>1 DEF JobIsTrue
    <3> QED BY <3>2, <3>3, <3>4, <3>5
  <2>2. /\ ability' = [k \in C!Abilities |->
                        IF k[1] = c /\ <<k[2], k[3]>> \in found THEN k[2] ELSE ability[k]]
        /\ sync' = [C!Disturbed(c) EXCEPT ![w] = [j EXCEPT !.status = "success", !.report = r]]
        /\ UNCHANGED offer
    BY <1>3, <2>1, Zenon DEF C!ApplySync
  <2>3. writer'[w].stage = "jobs" /\ (v # w => writer'[v] = writer[v])
    BY <1>3, <1>t, Zenon DEF C!ApplySync, C!Go, C!Idle
  <2>4. CASE v = w
    <3> DEFINE j2 == [j EXCEPT !.status = "success", !.report = r]
    <3>1. sync'[w] = j2
      BY <1>t, <2>2 DEF C!Disturbed
    <3>2. j2.status = "success" /\ j2.channel = c /\ j2.report = r /\ (j2.calm => j.calm)
      BY <2>1 DEF SyncRows
    <3>3. j.calm => After(ability', c, r)
      BY <2>1, <2>2, SyncIsTold
    <3> HIDE DEF j2
    <3> QED BY <2>1, <2>2, <2>3, <2>4, <3>1, <3>2, <3>3 DEF JobIsTrue, Syncing
  <2>5. CASE v # w
    <3>1. sync'[v] = C!Disturbed(c)[v]
      BY <2>2, <2>5 DEF C!Disturbed
    <3>2. \A k \in C!Abilities : k[1] # c => ability'[k] = ability[k]
      BY <2>2
    <3> QED BY <1>d, <2>3, <2>5, <3>1, <3>2
  <2> QED BY <2>4, <2>5
<1>4. ASSUME NEW w \in Writers, C!CreateJob(w), NEW v \in Writers PROVE JobIsTrue(v)'
  <2>1. PICK c \in writer[w].rest :
          /\ offer[c] # "none" /\ sync' = [sync EXCEPT ![w] = [C!Unasked EXCEPT !.status = "pending", !.channel = c]]
          /\ writer' = [writer EXCEPT ![w] = [writer[w] EXCEPT !.stage = "start", !.channel = c, !.rest = @ \ {c}]]
          /\ UNCHANGED <<ability, offer>>
    BY <1>4, Zenon DEF C!CreateJob, C!Go
  <2>2. c \in Upstreams
    BY <1>t DEF WriterRows
  <2>3. sync'[w].status = "pending" /\ sync'[w].channel = c
    BY <1>t, <2>1 DEF C!Unasked
  <2>4. writer'[w].stage = "start" /\ writer'[w].channel = c
    BY <1>t, <2>1 DEF WriterRows
  <2>5. JobIsTrue(w)'
    BY <2>1, <2>2, <2>3, <2>4 DEF JobIsTrue
  <2>6. CASE v # w
    BY <1>s, <2>1, <2>6
  <2> QED BY <2>5, <2>6
<1>5. ASSUME NEW w \in Writers, C!StartJob(w), NEW v \in Writers PROVE JobIsTrue(v)'
  <2>1. /\ writer[w].stage = "start" /\ UNCHANGED <<ability, offer>>
        /\ sync' = [sync EXCEPT ![w].status = "running"]
        /\ writer' = [writer EXCEPT ![w] = [writer[w] EXCEPT !.stage = "discover"]]
    BY <1>5 DEF C!StartJob, C!Go, C!In
  <2>2. sync'[w].status = "running" /\ sync'[w].channel = sync[w].channel
    BY <1>t, <2>1 DEF SyncRows
  <2>3. writer'[w].stage = "discover" /\ writer'[w].channel = writer[w].channel
    BY <1>t, <2>1 DEF WriterRows
  <2>4. sync[w].channel \in Upstreams /\ offer[sync[w].channel] # "none" /\ sync[w].channel = writer[w].channel
    BY <1>j, <2>1 DEF JobIsTrue, Syncing
  <2>5. JobIsTrue(w)'
    BY <2>1, <2>2, <2>3, <2>4 DEF JobIsTrue
  <2>6. CASE v # w
    BY <1>s, <2>1, <2>6
  <2> QED BY <2>5, <2>6
<1>6. ASSUME NEW w \in Writers, C!FailJob(w), NEW v \in Writers PROVE JobIsTrue(v)'
  <2>1. /\ writer[w].stage \in {"discover", "apply"} /\ UNCHANGED <<ability, offer>>
        /\ sync' = [sync EXCEPT ![w].status = "failed"]
        /\ writer' = [writer EXCEPT ![w] = [C!Idle EXCEPT !.stage = "jobs", !.rest = writer[w].rest]]
    BY <1>6 DEF C!FailJob, C!Go
  <2>2. sync'[w].status = "failed" /\ sync'[w].channel = sync[w].channel
    BY <1>t, <2>1 DEF SyncRows
  <2>3. writer'[w].stage = "jobs"
    BY <1>t, <2>1 DEF C!Idle
  <2>4. sync[w].channel \in Upstreams /\ offer[sync[w].channel] # "none"
    BY <1>j, <2>1 DEF JobIsTrue
  <2>5. JobIsTrue(w)'
    BY <2>1, <2>2, <2>3, <2>4 DEF JobIsTrue, Syncing
  <2>6. CASE v # w
    BY <1>s, <2>1, <2>6
  <2> QED BY <2>5, <2>6
<1>7. ASSUME NEW w \in Writers, NEW items \in Listings, C!Discover(w, items), NEW v \in Writers PROVE JobIsTrue(v)'
  <2> DEFINE c == writer[w].channel
             r == C!Differences(c, C!Listing(items))
  <2>1. /\ writer[w].stage = "discover" /\ UNCHANGED <<ability, offer>>
        /\ sync' = [sync EXCEPT ![w].calm = TRUE]
        /\ writer' = [writer EXCEPT ![w] = [writer[w] EXCEPT !.stage = "apply", !.found = C!Listing(items), !.report = r]]
    BY <1>7 DEF C!Discover, C!Go, C!In
  <2>2. sync[w].status = "running" /\ sync[w].channel = c
    BY <1>j, <2>1 DEF JobIsTrue, Syncing
  <2>3. c \in Upstreams /\ offer[c] # "none"
    BY <1>j, <2>2 DEF JobIsTrue
  <2>4. Before(ability, c, C!Listing(items), r)
    BY <1>t, <2>3, ListingIsPairs, DifferencesAreTyped
  <2>5. sync'[w].status = "running" /\ sync'[w].channel = c
    BY <1>t, <2>1, <2>2 DEF SyncRows
  <2> HIDE DEF r
  <2>6. /\ writer'[w].stage = "apply" /\ writer'[w].channel = c
        /\ writer'[w].found = C!Listing(items) /\ writer'[w].report = r
    BY <1>t, <2>1 DEF WriterRows
  <2> HIDE DEF c
  <2>7. JobIsTrue(w)'
    BY <2>1, <2>3, <2>4, <2>5, <2>6 DEF JobIsTrue, Syncing
  <2>8. CASE v # w
    BY <1>s, <2>1, <2>8
  <2> QED BY <2>7, <2>8
<1>8. CASE ~ \/ \E c \in Upstreams, n \in Names, e \in Surfaces, up \in Names : C!CreateChannel(c, n, e, up)
             \/ \E w \in Writers : \/ C!PutAbility(w) \/ C!ApplySync(w) \/ C!CreateJob(w) \/ C!StartJob(w)
                                   \/ C!FailJob(w) \/ \E items \in Listings : C!Discover(w, items)
  <2>1. UNCHANGED <<ability, sync>>
    BY <1>8, Zenon DEF C!Next, C!AtOnce, C!Asked, C!Work, C!SyncFromChannels, C!CreateModel, C!BatchModels, C!PatchChannel,
         C!RunJobs, C!LockModel, C!EnsureModel, C!ReadPrice, C!CommitModel, C!EndJobs, C!Drop
  <2>2. \A v \in Writers : writer'[v] = writer[v] \/ writer'[v].stage \notin Syncing
    <3>1. ASSUME NEW w \in Writers, NEW t \in WriterRows, WriterMoves(w, t)
          PROVE  \A v \in Writers : writer'[v] = writer[v] \/ writer'[v].stage \notin Syncing
      BY <1>8, <1>t, <3>1 DEF WriterMoves, Proceeds, Pricing, Syncing, Quiet
    <3> QED BY <3>1, WritersMoveOn
  <2> QED BY <1>s, <2>1, <2>2
<1> QED BY <1>1, <1>2, <1>3, <1>4, <1>5, <1>6, <1>7, <1>8

(* Every step keeps the types of the catalogue.                               *)
LEMMA ModelTypesNext == CatalogueInv /\ C!Next => ModelTypes' /\ Minded'
<1> SUFFICES ASSUME CatalogueInv, C!Next PROVE ModelTypes' /\ Minded'
  OBVIOUS
<1>t. ModelTypes /\ Minded /\ PricesHeld
  BY DEF CatalogueInv
<1>m. model' \in [Names -> C!ModelRows] /\ offer' \in [Upstreams -> C!Offers]
  BY ModelsMoveOn DEF ModelsMove, OffersMove
<1>w. writer' \in [Writers -> WriterRows] /\ Minded'
  <2>1. CASE UNCHANGED writer
    BY <1>t, <2>1 DEF ModelTypes, Minded, Kept
  <2>2. ASSUME NEW w \in Writers, NEW t \in WriterRows, WriterMoves(w, t)
        PROVE  writer' \in [Writers -> WriterRows] /\ Minded'
    BY <1>t, <2>2 DEF ModelTypes, Minded, WriterMoves, Kept
  <2> QED BY <2>1, <2>2, WritersMoveOn
<1>p. price' \in [Names -> C!PriceRows]
  <2>r. ASSUME NEW o \in Bodies, NEW p \in C!PriceRows PROVE C!Repriced(o, p) \in C!PriceRows
    BY CatalogueAssumption DEF C!Repriced, C!Given, C!PriceRows, C!Keep
  <2>1. ASSUME NEW n \in Names, NEW o \in Bodies, C!CreateModel(n, o) PROVE price' \in [Names -> C!PriceRows]
    <3>1. C!Standard \in C!PriceRows
      BY DEF C!Standard, C!PriceRows, C!Modes, C!Exprs
    <3> QED BY <1>t, <2>r, <2>1, <3>1 DEF C!CreateModel, ModelTypes
  <2>2. ASSUME NEW w \in Writers, C!CommitModel(w) PROVE price' \in [Names -> C!PriceRows]
    <3>1. PICK n \in Names, o \in Bodies : n = writer[w].name /\ o = writer[w].order
      BY <1>t, <2>2 DEF C!CommitModel, C!In, PricesHeld, Pricing, Holds
    <3>2. price' = [price EXCEPT ![n] = C!Repriced(o, price[n])]
      BY <2>2, <3>1 DEF C!CommitModel
    <3> QED BY <1>t, <2>r, <3>2 DEF ModelTypes
  <2>3. CASE ~((\E n \in Names, o \in Bodies : C!CreateModel(n, o)) \/ \E w \in Writers : C!CommitModel(w))
    <3>1. UNCHANGED price
      BY <2>3, Zenon DEF C!Next, C!AtOnce, C!Asked, C!Work, C!SyncFromChannels, C!BatchModels, C!PatchChannel,
         C!CreateChannel, C!RunJobs, C!LockModel, C!EnsureModel, C!ReadPrice, C!PutAbility, C!CreateJob,
         C!EndJobs, C!StartJob, C!FailJob, C!ApplySync, C!Discover, C!Drop
    <3> QED BY <1>t, <3>1 DEF ModelTypes
  <2> QED BY <2>1, <2>2, <2>3
<1>a. ability' \in [C!Abilities -> Names \cup {NoName}]
  <2>1. ASSUME NEW c \in Upstreams, NEW n \in Names, NEW e \in Surfaces, NEW up \in Names,
               C!CreateChannel(c, n, e, up)
        PROVE  ability' \in [C!Abilities -> Names \cup {NoName}]
    BY <1>t, <2>1 DEF C!CreateChannel, ModelTypes
  <2>2. ASSUME NEW w \in Writers, C!PutAbility(w) PROVE ability' \in [C!Abilities -> Names \cup {NoName}]
    BY <1>t, <2>2 DEF C!PutAbility, C!In, ModelTypes, Minded, Kept, Triples
  <2>3. ASSUME NEW w \in Writers, C!ApplySync(w) PROVE ability' \in [C!Abilities -> Names \cup {NoName}]
    <3>1. \A k \in C!Abilities : k[2] \in Names
      BY DEF C!Abilities
    <3>2. ability' = [k \in C!Abilities |->
                        IF k[1] = writer[w].channel /\ <<k[2], k[3]>> \in writer[w].found THEN k[2] ELSE ability[k]]
      BY <2>3, Zenon DEF C!ApplySync
    <3> QED BY <1>t, <3>1, <3>2 DEF ModelTypes
  <2>4. CASE ~ \/ \E c \in Upstreams, n \in Names, e \in Surfaces, up \in Names : C!CreateChannel(c, n, e, up)
               \/ \E w \in Writers : C!PutAbility(w) \/ C!ApplySync(w)
    <3>1. UNCHANGED ability
      BY <2>4, Zenon DEF C!Next, C!AtOnce, C!Asked, C!Work, C!SyncFromChannels, C!CreateModel, C!BatchModels,
         C!PatchChannel, C!RunJobs, C!LockModel, C!EnsureModel, C!ReadPrice, C!CommitModel, C!CreateJob,
         C!EndJobs, C!StartJob, C!FailJob, C!Discover, C!Drop
    <3> QED BY <1>t, <3>1 DEF ModelTypes
  <2> QED BY <2>1, <2>2, <2>3, <2>4
<1>l. lock' \in [Names -> Writers \cup {Nobody}]
  <2>1. ASSUME NEW w \in Writers, NEW n \in Names, NEW o \in Bodies, C!LockModel(w, n, o)
        PROVE  lock' \in [Names -> Writers \cup {Nobody}]
    BY <1>t, <2>1 DEF C!LockModel, ModelTypes
  <2>2. ASSUME NEW w \in Writers, C!CommitModel(w) \/ C!Drop(w) PROVE lock' \in [Names -> Writers \cup {Nobody}]
    BY <1>t, <2>2 DEF C!CommitModel, C!Drop, ModelTypes
  <2>3. CASE ~ \E w \in Writers : \/ C!CommitModel(w) \/ C!Drop(w)
                                  \/ \E n \in Names, o \in Bodies : C!LockModel(w, n, o)
    <3>1. UNCHANGED lock
      BY <2>3, Zenon DEF C!Next, C!AtOnce, C!Asked, C!Work, C!SyncFromChannels, C!CreateModel, C!BatchModels,
         C!PatchChannel, C!CreateChannel, C!RunJobs, C!EnsureModel, C!ReadPrice, C!PutAbility, C!CreateJob,
         C!EndJobs, C!StartJob, C!FailJob, C!ApplySync, C!Discover
    <3> QED BY <1>t, <3>1 DEF ModelTypes
  <2> QED BY <2>1, <2>2, <2>3
<1>s. sync' \in [Writers -> SyncRows]
  <2>t. sync \in [Writers -> SyncRows] /\ writer \in [Writers -> WriterRows]
    BY <1>t DEF ModelTypes
  <2>d. ASSUME NEW c PROVE C!Disturbed(c) \in [Writers -> SyncRows]
    BY <2>t DEF C!Disturbed, SyncRows
  <2>1. ASSUME NEW w \in Writers, C!PutAbility(w) PROVE sync' \in [Writers -> SyncRows]
    BY <2>d, <2>1 DEF C!PutAbility
  <2>2. ASSUME NEW w \in Writers, C!ApplySync(w) PROVE sync' \in [Writers -> SyncRows]
    <3> DEFINE row == [sync[w] EXCEPT !.status = "success", !.report = writer[w].report]
    <3>1. row \in SyncRows
      <4>1. sync[w] \in SyncRows
        BY <2>t
      <4>2. writer[w].report \in Reports
        BY <2>t DEF WriterRows
      <4> QED BY <4>1, <4>2 DEF SyncRows
    <3>2. sync' = [C!Disturbed(writer[w].channel) EXCEPT ![w] = row]
      BY <2>2, Zenon DEF C!ApplySync
    <3> HIDE DEF row
    <3> QED BY <2>d, <3>1, <3>2
  <2>3. ASSUME NEW w \in Writers, C!CreateJob(w) PROVE sync' \in [Writers -> SyncRows]
    <3>1. PICK c \in writer[w].rest : sync' = [sync EXCEPT ![w] = [C!Unasked EXCEPT !.status = "pending", !.channel = c]]
      BY <2>3, Zenon DEF C!CreateJob
    <3> DEFINE row == [C!Unasked EXCEPT !.status = "pending", !.channel = c]
    <3>2. row \in SyncRows
      BY <2>t DEF SyncRows, WriterRows, C!Unasked, C!NoReport, Reports
    <3> HIDE DEF row
    <3> QED BY <2>t, <3>1, <3>2 DEF row
  <2>4. ASSUME NEW w \in Writers, \/ C!StartJob(w) \/ C!FailJob(w) \/ \E items \in Listings : C!Discover(w, items)
        PROVE  sync' \in [Writers -> SyncRows]
    <3>1. \/ sync' = [sync EXCEPT ![w] = [sync[w] EXCEPT !.status = "running"]]
          \/ sync' = [sync EXCEPT ![w] = [sync[w] EXCEPT !.status = "failed"]]
          \/ sync' = [sync EXCEPT ![w] = [sync[w] EXCEPT !.calm = TRUE]]
      BY <2>4, Zenon DEF C!StartJob, C!FailJob, C!Discover
    <3>2. /\ [sync[w] EXCEPT !.status = "running"] \in SyncRows
          /\ [sync[w] EXCEPT !.status = "failed"] \in SyncRows
          /\ [sync[w] EXCEPT !.calm = TRUE] \in SyncRows
      BY <2>t DEF SyncRows
    <3> QED BY <2>t, <3>1, <3>2
  <2>5. CASE ~ \E w \in Writers : \/ C!PutAbility(w) \/ C!ApplySync(w) \/ C!CreateJob(w) \/ C!StartJob(w)
                                  \/ C!FailJob(w) \/ \E items \in Listings : C!Discover(w, items)
    <3>1. UNCHANGED sync
      BY <2>5, Zenon DEF C!Next, C!AtOnce, C!Asked, C!Work, C!SyncFromChannels, C!CreateModel, C!BatchModels,
         C!PatchChannel, C!CreateChannel, C!RunJobs, C!LockModel, C!EnsureModel, C!ReadPrice, C!CommitModel,
         C!EndJobs, C!Drop
    <3> QED BY <2>t, <3>1
  <2> QED BY <2>1, <2>2, <2>3, <2>4, <2>5
<1> QED BY <1>m, <1>w, <1>p, <1>a, <1>l, <1>s DEF ModelTypes

(* Every step of the catalogue keeps its invariant.                           *)
LEMMA CatalogueInvNext == CatalogueInv /\ [C!Next]_modelVars => CatalogueInv'
<1> SUFFICES ASSUME CatalogueInv, [C!Next]_modelVars PROVE CatalogueInv'
  OBVIOUS
<1>1. CASE C!Next
  BY <1>1, ModelTypesNext, PricesHeldNext, JobsTrueNext DEF CatalogueInv
<1>2. CASE UNCHANGED modelVars
  BY <1>2 DEF modelVars, CatalogueInv, ModelTypes, Minded, Kept, PricesHeld, Holds, JobIsTrue, Before, After,
              Serves, Named, C!Exists, C!Usable, C!Prices, C!Repriced
<1> QED BY <1>1, <1>2

(* The invariant is stronger than CatalogueIsUsable.                          *)
LEMMA CatalogueInvIsUsable == CatalogueInv => C!CatalogueIsUsable
<1> SUFFICES ASSUME CatalogueInv PROVE C!CatalogueIsUsable
  OBVIOUS
<1>1. C!PricingIsUsable
  BY DEF CatalogueInv, PricesHeld, C!PricingIsUsable
<1>2. C!ReportsAreTrue
  <2> SUFFICES ASSUME NEW w \in Writers, sync[w].status = "success", sync[w].calm
               PROVE  LET r == sync[w].report
                          found == r.added \cup r.updated \cup r.kept
                          at(x) == ability[<<sync[w].channel, x[1], x[2]>>]
                      IN  /\ \A x \in found : at(x) = x[1]
                          /\ {x \in Names \X Surfaces : at(x) # NoName} = found \cup r.missing
                          /\ found \cap r.missing = {}
    BY DEF C!ReportsAreTrue
  <2>1. After(ability, sync[w].channel, sync[w].report)
    BY DEF CatalogueInv, JobIsTrue
  <2> QED BY <2>1 DEF After, Named, Serves, Pairs
<1> QED BY <1>1, <1>2 DEF C!CatalogueIsUsable

-----------------------------------------------------------------------------
(* The limits: what is counted, and what a request still knows of it.  First  *)
(* what holds of finite sets: what can be shown of a set from its parts, the   *)
(* greatest of some numbers, and sums.                                        *)

(* Induction over the subsets of a finite set: what holds of a set whenever    *)
(* it holds of the set without any one of its elements holds of all of them.  *)
LEMMA Descent ==
  ASSUME NEW K, IsFiniteSet(K), NEW Q,
         \A s \in SUBSET K : (\A x \in s : s \ {x} \in Q) => s \in Q
  PROVE  SUBSET K \subseteq Q
<1> DEFINE T == (SUBSET K) \ Q
           R == StrictSubsetOrdering(K)
<1> SUFFICES ASSUME T # {} PROVE FALSE
  OBVIOUS
<1>1. T \subseteq FiniteSubsetsOf(K)
  BY FS_Subset DEF FiniteSubsetsOf
<1>2. IsWellFoundedOn(R, FiniteSubsetsOf(K))
  BY FS_StrictSubsetOrderingWellFounded
<1>3. \E x \in T : \A y \in T : ~ (<<y, x>> \in R)
  <2> HIDE DEF T, R
  <2> QED
    BY <1>1, <1>2, WFMin
<1>4. PICK m \in T : \A y \in T : ~ (<<y, m>> \in R)
  BY <1>3
<1>5. ASSUME NEW x \in m PROVE m \ {x} \in Q
  <2>1. m \in SUBSET K /\ m \ {x} \in SUBSET K /\ m \ {x} # m /\ m \ {x} \subseteq m
    OBVIOUS
  <2>2. <<m \ {x}, m>> \in R
    BY <2>1 DEF StrictSubsetOrdering
  <2> QED
    BY <1>4, <2>1, <2>2
<1>6. m \in SUBSET K /\ m \notin Q
  BY <1>4
<1>7. m \in Q
  BY <1>5, <1>6
<1> QED
  BY <1>6, <1>7

(* What g counts, as a set of units.                                          *)
Units(g, s) == {u \in s \X Nat : 1 <= u[2] /\ u[2] <= g[u[1]]}

(* How many units there are.                                                  *)
Amount(g, s) == Cardinality(Units(g, s))

(* One element counts for what it has.                                        *)
LEMMA UnitsOfOne ==
  ASSUME NEW n \in Nat, NEW x
  PROVE  IsFiniteSet({x} \X (1 .. n)) /\ Cardinality({x} \X (1 .. n)) = n
<1>1. IsFiniteSet(1 .. n) /\ Cardinality(1 .. n) = n
  BY FS_Interval
<1>2. IsFiniteSet({x}) /\ Cardinality({x}) = 1
  BY FS_Singleton
<1> QED
  BY <1>1, <1>2, FS_Product

(* Units are counted element by element.                                      *)
LEMMA AmountAdds ==
  ASSUME NEW K, IsFiniteSet(K), NEW g \in [K -> Nat]
  PROVE  \A s \in SUBSET K :
           /\ IsFiniteSet(Units(g, s)) /\ Amount(g, s) \in Nat
           /\ \A x \in s : Amount(g, s) = g[x] + Amount(g, s \ {x})
<1> DEFINE Q == {s \in SUBSET K : IsFiniteSet(Units(g, s))}
<1>1. ASSUME NEW s \in SUBSET K, NEW x \in s
      PROVE  /\ Units(g, s) = Units(g, s \ {x}) \cup ({x} \X (1 .. g[x]))
             /\ Units(g, s \ {x}) \cap ({x} \X (1 .. g[x])) = {}
  BY DEF Units
<1>2. ASSUME NEW s \in SUBSET K, \A x \in s : s \ {x} \in Q PROVE s \in Q
  <2>1. CASE s = {}
    <3>1. Units(g, s) = {}
      BY <2>1 DEF Units
    <3> QED
      BY <3>1, FS_EmptySet
  <2>2. CASE s # {}
    <3>1. PICK x \in s : TRUE
      BY <2>2
    <3>2. IsFiniteSet(Units(g, s \ {x})) /\ IsFiniteSet({x} \X (1 .. g[x]))
      BY <1>2, <3>1, UnitsOfOne
    <3>3. IsFiniteSet(Units(g, s \ {x}) \cup ({x} \X (1 .. g[x])))
      BY <3>2, FS_Union
    <3> QED
      BY <1>1, <3>1, <3>3
  <2> QED
    BY <2>1, <2>2
<1>3. \A s \in SUBSET K : IsFiniteSet(Units(g, s))
  <2> HIDE DEF Q
  <2>1. SUBSET K \subseteq Q
    BY <1>2, Descent
  <2> QED
    BY <2>1 DEF Q
<1>4. ASSUME NEW s \in SUBSET K, NEW x \in s PROVE Amount(g, s) = g[x] + Amount(g, s \ {x})
  <2> DEFINE A1 == Units(g, s \ {x})
             B1 == {x} \X (1 .. g[x])
  <2>1. IsFiniteSet(A1) /\ IsFiniteSet(B1) /\ Cardinality(B1) = g[x]
    BY <1>3, UnitsOfOne
  <2>2. Units(g, s) = A1 \cup B1 /\ A1 \cap B1 = {}
    BY <1>1
  <2> HIDE DEF A1, B1
  <2>3. Cardinality(A1 \cup B1) = Cardinality(A1) + Cardinality(B1) - Cardinality(A1 \cap B1)
    BY <2>1, FS_Union
  <2>4. Cardinality(A1 \cap B1) = 0 /\ Cardinality(A1) \in Nat
    BY <2>1, <2>2, FS_EmptySet, FS_CardinalityType
  <2>5. g[x] \in Nat
    OBVIOUS
  <2> QED
    BY <2>1, <2>2, <2>3, <2>4, <2>5 DEF Amount, A1
<1> QED
  BY <1>3, <1>4, FS_CardinalityType DEF Amount

(* A column of the usage rows, as the fold adds it up.                        *)
UsageOf(fld, w, K) == L!MapThenSumSet(LAMBDA k : used[w][k][fld], K)

(* The fold adds up what the rows hold.                                       *)
LEMMA UsageAdds ==
  ASSUME NEW K, IsFiniteSet(K), NEW w, NEW fld, NEW g \in [K -> Nat],
         \A k \in K : used[w][k][fld] = g[k]
  PROVE  UsageOf(fld, w, K) = Amount(g, K)
<1>0. \A s \in SUBSET K : \A x \in s : Amount(g, s) = g[x] + Amount(g, s \ {x})
  <2>1. \A s \in SUBSET K :
          /\ IsFiniteSet(Units(g, s)) /\ Amount(g, s) \in Nat
          /\ \A x \in s : Amount(g, s) = g[x] + Amount(g, s \ {x})
    BY AmountAdds
  <2> QED
    BY <2>1, Zenon
<1> DEFINE Body(it) == [s \in SUBSET K |->
                          IF s = {} THEN 0
                          ELSE LET x == CHOOSE x \in s : TRUE
                               IN  used[w][x][fld] + it[s \ {x}]]
           It == CHOOSE it : it = Body(it)
           Am == [s \in SUBSET K |-> Amount(g, s)]
<1>1. UsageOf(fld, w, K) = It[K]
  BY DEF UsageOf, L!MapThenSumSet, L!MapThenFoldSet
<1>2. Am = Body(Am)
  <2>1. ASSUME NEW s \in SUBSET K PROVE Am[s] = Body(Am)[s]
    <3>1. CASE s = {}
      <4>1. Amount(g, {}) = 0
        <5>1. Units(g, {}) = {}
          BY DEF Units
        <5> QED
          BY <5>1, FS_EmptySet DEF Amount
      <4> QED
        BY <3>1, <4>1
    <3>2. CASE s # {}
      <4> DEFINE x == CHOOSE x \in s : TRUE
      <4>1. x \in s
        BY <3>2
      <4>2. Am[s \ {x}] = Amount(g, s \ {x}) /\ used[w][x][fld] = g[x]
        BY <4>1
      <4>3. Amount(g, s) = g[x] + Amount(g, s \ {x})
        BY <1>0, <4>1
      <4> QED
        BY <3>2, <4>1, <4>2, <4>3
    <3> QED
      BY <3>1, <3>2
  <2> QED
    BY <2>1
<1>3. It = Body(It)
  <2> HIDE DEF Body, Am
  <2> QED
    BY <1>2
<1> DEFINE Q == {s \in SUBSET K : It[s] = Amount(g, s)}
<1>4. ASSUME NEW s \in SUBSET K, \A x \in s : s \ {x} \in Q
      PROVE  s \in Q
  <2>1. It[s] = Body(It)[s]
    BY <1>3
  <2>2. It[s] = Amount(g, s)
    <3> HIDE DEF It
    <3>1. CASE s = {}
      <4>1. Amount(g, {}) = 0
        <5>1. Units(g, {}) = {}
          BY DEF Units
        <5> QED
          BY <5>1, FS_EmptySet DEF Amount
      <4> QED
        BY <2>1, <3>1, <4>1
    <3>2. CASE s # {}
      <4> DEFINE x == CHOOSE x \in s : TRUE
      <4>1. x \in s
        BY <3>2
      <4>2. It[s \ {x}] = Amount(g, s \ {x}) /\ used[w][x][fld] = g[x]
        BY <1>4, <4>1
      <4>3. Amount(g, s) = g[x] + Amount(g, s \ {x})
        BY <1>0, <4>1
      <4> QED
        BY <2>1, <3>2, <4>1, <4>2, <4>3
    <3> QED
      BY <3>1, <3>2
  <2> QED
    BY <2>2
<1>5. SUBSET K \subseteq Q
  <2> HIDE DEF Q
  <2> QED
    BY <1>4, Descent
<1>6. It[K] = Amount(g, K)
  BY <1>5
<1> QED
  BY <1>1, <1>6

(* So the limits count the dollars and the requests of every key.             *)
LEMMA UsdIsAmount ==
  ASSUME NEW t, NEW w, IsFiniteSet(L!Counting(t)), NEW g \in [L!Counting(t) -> Nat],
         \A k \in L!Counting(t) : used[w][k].usd = g[k]
  PROVE  L!Usd(t, w) = Amount(g, L!Counting(t))
<1>1. \A k \in L!Counting(t) : used[w][k]["usd"] = g[k]
  OBVIOUS
<1>2. UsageOf("usd", w, L!Counting(t)) = Amount(g, L!Counting(t))
  BY <1>1, UsageAdds
<1> QED
  BY <1>2 DEF L!Usd, UsageOf

(* The same of the requests.                                                  *)
LEMMA CountIsAmount ==
  ASSUME NEW t, NEW w, IsFiniteSet(L!Counting(t)), NEW g \in [L!Counting(t) -> Nat],
         \A k \in L!Counting(t) : used[w][k].n = g[k]
  PROVE  L!Count(t, w) = Amount(g, L!Counting(t))
<1>1. \A k \in L!Counting(t) : used[w][k]["n"] = g[k]
  OBVIOUS
<1>2. UsageOf("n", w, L!Counting(t)) = Amount(g, L!Counting(t))
  BY <1>1, UsageAdds
<1> QED
  BY <1>2 DEF L!Count, UsageOf

(* Admission counts as everybody does.                                        *)
LEMMA SameLimitCardinality == \A S : L!Cardinality(S) = Cardinality(S)
BY DEF L!Cardinality, Cardinality

(* What a row and a group say of rates and multipliers are numbers, and what a*)
(* group without a row has, too.                                              *)
LEMMA RowFacts ==
  /\ \A w \in Rows \cup {L!NoRow} : /\ w.permission \in {"", "allow", "deny"}
                                   /\ w.rate \in Int /\ w.times \in Nat \ {0}
  /\ \A o \in GroupOrders : /\ o.priority \in Int /\ o.month \in Int /\ o.rate \in Int
                            /\ o.times \in Nat \ {0}
<1>1. \A w \in Rows : w.permission \in {"allow", "deny"} /\ w.rate \in Int /\ w.times \in Nat \ {0}
  BY LimitAssumption, Zenon
<1>2. \A o \in GroupOrders : /\ o.priority \in Int /\ o.month \in Int /\ o.rate \in Int
                            /\ o.times \in Nat \ {0}
  BY LimitAssumption, Zenon
<1>3. L!NoRow.permission \in {"", "allow", "deny"}
  BY DEF L!NoRow
<1>4. L!NoRow.rate \in Int /\ L!NoRow.times \in Nat \ {0}
  BY DEF L!NoRow, L!NoLimit
<1>5. \A w \in Rows \cup {L!NoRow} : w \in Rows \/ w = L!NoRow
  OBVIOUS
<1> QED
  BY <1>1, <1>2, <1>3, <1>4, <1>5, Zenon

(* The policies there can be, and the tables they are resolved from.          *)
PolicyRows == [group : Groups \cup {"none"}, permission : {"", "allow", "deny"},
               times : Nat \ {0}, rate : Int, month : Int, allows : Nat]

PolicyTables == /\ group \in [Groups -> GroupOrders] /\ joined \in Seq(Groups)
                /\ rows \in SUBSET Rows /\ L!OneRowEach(rows)

(* The policies in force are of their type, of a group of the user.           *)
LEMMA PoliciesTyped ==
  ASSUME PolicyTables, NEW e
  PROVE  L!Policies(e) \subseteq PolicyRows
<1>1. ASSUME NEW g \in Groups, NEW w \in rows \cup {L!NoRow} PROVE L!Policy(g, w) \in PolicyRows
  <2>1. group[g] \in GroupOrders /\ w \in Rows \cup {L!NoRow}
    BY DEF PolicyTables
  <2>2. group[g].times * w.times \in Nat \ {0}
    <3>1. group[g].times \in Nat \ {0} /\ w.times \in Nat \ {0}
      BY <2>1, RowFacts, Zenon
    <3>2. \A m, n \in Nat \ {0} : m * n \in Nat \ {0}
      OBVIOUS
    <3> QED
      BY <3>1, <3>2
  <2>3. /\ w.permission \in {"", "allow", "deny"} /\ w.rate \in Int
        /\ group[g].rate \in Int /\ group[g].month \in Int
    BY <2>1, RowFacts, Zenon
  <2>4. L!Allows(g) \in Nat
    <3>1. {x \in rows : x.group = g /\ x.permission = "allow"} \in SUBSET Rows
      BY DEF PolicyTables
    <3>2. IsFiniteSet({x \in rows : x.group = g /\ x.permission = "allow"})
      BY <3>1, LimitAssumption, FS_Subset, Zenon
    <3> QED
      BY <3>2, FS_CardinalityType, SameLimitCardinality DEF L!Allows
  <2> QED
    BY <2>2, <2>3, <2>4, Zenon DEF L!Policy, L!EffectiveRate, PolicyRows
<1>2. L!NoPolicy \in PolicyRows
  BY DEF L!NoPolicy, PolicyRows, L!NoLimit
<1>3. \A g \in L!InForce : g \in Groups
  BY DEF L!InForce, PolicyTables
<1>4. \A g \in L!InForce : L!First(L!Speaking(g, e), e) \subseteq rows
  BY Zenon DEF L!First, L!Speaking
<1> QED
  BY <1>1, <1>2, <1>3, <1>4 DEF L!Policies

(* The rows of the requests and of the tables.                                *)
LimitRows == Limits \cup {L!Unlimited}

ReqRows == [stage : L!Stages, key : Keys \cup {"none"}, ask : Asks \cup {"none"},
            policy : PolicyRows, reserve : Nat, seen : [L!Targets -> LimitRows],
            todo : SUBSET L!Targets, day : [usd : Nat, n : Nat], verdict : L!Targets \cup {"none"},
            cost : 0 .. MaxCost, paid : 0 .. MaxCost, low : Int]

UsedRows == [{"day", "month"} -> [Keys -> [usd : Nat, n : Nat]]]

(* The stages of a request that has settled and not yet recorded.             *)
Settled == {"notice", "notify", "record"}

(* The types of the limits' tables; that a request on its way has a key and an*)
(* endpoint; and that it has paid all of its cost or nothing, and nothing     *)
(* before it settles.                                                         *)
LimitTypes ==
  /\ limit \in [L!Targets -> LimitRows]
  /\ PolicyTables
  /\ rules \in [Rules -> {"none", "active", "disabled"}]
  /\ used \in UsedRows
  /\ rate \in [Groups -> [L!Endpoints -> Nat]] /\ passed \in [Groups -> [L!Endpoints -> Nat]]
  /\ \A g \in Groups, e \in L!Endpoints : passed[g][e] <= rate[g][e]
  /\ balance \in 0 .. Funds /\ lost \in Nat /\ since \in Nat /\ free \in Int
  /\ notices \in Nat /\ writes \in Nat
  /\ req \in [Slots -> ReqRows]
  /\ \A s \in Slots : req[s].stage # "idle" => req[s].key \in Keys /\ req[s].ask \in Asks
  /\ \A s \in Slots : /\ req[s].paid \in {0, req[s].cost}
                      /\ req[s].stage \notin Settled => req[s].paid = 0

(* A request that is done with is of its type again.                          *)
LEMMA IdleTyped == L!Idle \in ReqRows /\ L!Idle.stage = "idle" /\ L!Idle.paid = 0 /\ L!Idle.cost = 0
<1>1. L!NoPolicy \in PolicyRows
  BY DEF L!NoPolicy, PolicyRows, L!NoLimit
<1>2. L!Unread \in [L!Targets -> LimitRows]
  BY DEF L!Unread, LimitRows
<1>3. MaxCost \in Nat
  BY LimitAssumption, Zenon
<1> QED
  BY <1>1, <1>2, <1>3 DEF L!Idle, L!NoUsage, ReqRows, L!Stages

(* What a request costs is bounded by the highest cost.                       *)
LEMMA BillTyped == \A p, a : \A cost \in L!Bill(p, a) : cost \in 0 .. MaxCost
<1>1. MaxCost \in Nat /\ Costs \subseteq 0 .. MaxCost
  BY LimitAssumption, Zenon
<1> QED
  BY <1>1 DEF L!Bill

(* What is asked for is an endpoint.                                          *)
LEMMA AsksTyped ==
  \A a \in Asks : a.endpoint \in L!Endpoints /\ a.byo \in BOOLEAN /\ a.estimate \in Nat
BY LimitAssumption, Zenon

(* A limit is a number, -1 when there is none.                                *)
LEMMA LimitRowsTyped ==
  \A o \in LimitRows : /\ o.day \in Int /\ o.month \in Int /\ o.dayN \in Int /\ o.monthN \in Int
                       /\ o.low \in Int
<1>1. \A o \in Limits : /\ o.day \in Int /\ o.month \in Int /\ o.dayN \in Int /\ o.monthN \in Int
                        /\ o.low \in Int
  <2>1. \A o \in Limits : {o.day, o.month, o.dayN, o.monthN, o.low} \subseteq Int
    BY LimitAssumption, Zenon
  <2> QED
    BY <2>1
<1>2. /\ L!Unlimited.day \in Int /\ L!Unlimited.month \in Int /\ L!Unlimited.dayN \in Int
      /\ L!Unlimited.monthN \in Int /\ L!Unlimited.low \in Int
  BY DEF L!Unlimited, L!NoLimit
<1> QED
  BY <1>1, <1>2 DEF LimitRows

(* What a behaviour may begin in.                                             *)
StartFacts(s) ==
  /\ s.limit \in [L!Targets -> LimitRows] /\ s.group \in [Groups -> GroupOrders]
  /\ s.joined \in Seq(Groups)
  /\ s.rows \in SUBSET Rows /\ L!OneRowEach(s.rows)
  /\ s.rules \in [Rules -> {"none", "active", "disabled"}]

(* What a behaviour begins in are tables of their types.                      *)
LEMMA StartsTyped == \A s \in Starts : StartFacts(s)
BY LimitAssumption, Zenon DEF StartFacts, LimitRows

(* So they are when it begins.                                                *)
LEMMA LimitInitTypes == L!Init => LimitTypes
<1> SUFFICES ASSUME L!Init PROVE LimitTypes
  OBVIOUS
<1>1. PICK c \in Starts : /\ limit = c.limit /\ group = c.group /\ joined = c.joined
                          /\ rows = c.rows /\ rules = c.rules
  BY DEF L!Init
<1>2. StartFacts(c)
  BY StartsTyped
<1>3. PolicyTables /\ limit \in [L!Targets -> LimitRows] /\ rules \in [Rules -> {"none", "active", "disabled"}]
  BY <1>1, <1>2 DEF StartFacts, PolicyTables
<1>4. used \in UsedRows
  BY DEF L!Init, UsedRows
<1>5. req \in [Slots -> ReqRows] /\ \A s \in Slots : req[s].stage = "idle" /\ req[s].paid = 0
  BY IdleTyped DEF L!Init
<1>6. Funds \in 0 .. Funds /\ Conns \in Int
  <2>1. Funds \in Nat /\ Conns \in Nat
    BY LimitAssumption, Zenon
  <2> QED
    BY <2>1
<1> QED
  BY <1>3, <1>4, <1>5, <1>6 DEF LimitTypes, L!Init, L!Fresh, PolicyTables

(* What a request reserves is an amount.                                      *)
LEMMA ReservesTyped ==
  ASSUME NEW p \in PolicyRows, NEW a \in Asks
  PROVE  L!Reserve(p, a) \in Nat
<1>1. p.times \in Nat /\ a.estimate \in Nat
  <2>1. p.times \in Nat \ {0} /\ a.estimate \in Nat
    BY AsksTyped, Zenon DEF PolicyRows
  <2> QED
    BY <2>1
<1>2. \A m, n \in Nat : m * n \in Nat
  OBVIOUS
<1> QED
  BY <1>1, <1>2 DEF L!Reserve

(* What is counted of a target is a number.                                   *)
LEMMA UsageTyped ==
  ASSUME used \in UsedRows, NEW t \in L!Targets, NEW w \in {"day", "month"}
  PROVE  L!Usd(t, w) \in Nat /\ L!Count(t, w) \in Nat
<1> DEFINE g == [k \in L!Counting(t) |-> used[w][k].usd]
           h == [k \in L!Counting(t) |-> used[w][k].n]
<1>1. L!Counting(t) \subseteq Keys
  BY DEF L!Counting, L!Targets
<1>2. IsFiniteSet(L!Counting(t))
  BY <1>1, LimitAssumption, FS_Subset, Zenon
<1>3. g \in [L!Counting(t) -> Nat] /\ h \in [L!Counting(t) -> Nat]
  BY <1>1 DEF UsedRows
<1>4. \A k \in L!Counting(t) : used[w][k].usd = g[k] /\ used[w][k].n = h[k]
  OBVIOUS
<1> HIDE DEF g, h
<1>5. L!Usd(t, w) = Amount(g, L!Counting(t)) /\ L!Count(t, w) = Amount(h, L!Counting(t))
  BY <1>2, <1>3, <1>4, UsdIsAmount, CountIsAmount
<1> DEFINE Q == L!Counting(t)
<1>6. Amount(g, Q) \in Nat /\ Amount(h, Q) \in Nat
  <2> HIDE DEF Q
  <2>1. IsFiniteSet(Q) /\ g \in [Q -> Nat] /\ h \in [Q -> Nat] /\ Q \in SUBSET Q
    BY <1>2, <1>3 DEF Q
  <2> QED
    BY <2>1, AmountAdds
<1> QED
  BY <1>5, <1>6

(* One request moves, to a row of its type.                                   *)
Moves(s) ==
  \E r \in ReqRows : /\ req' = [req EXCEPT ![s] = r]
                     /\ r.stage # "idle" => r.key \in Keys /\ r.ask \in Asks
                     /\ r.paid \in {0, r.cost} /\ (r.stage \notin Settled => r.paid = 0)

(* What a step of a request leaves alone of the tables.                       *)
TablesStand == UNCHANGED <<limit, group, joined, rows, rules, since, writes>>

(* Every step of a request is one of its row, and writes no table that an     *)
(* administrator does.                                                        *)
LEMMA RequestsMove ==
  ASSUME LimitTypes, NEW s \in Slots,
         L!Handle(s) \/ L!HangUp(s) \/ \E k \in Keys, a \in Asks : L!Arrive(s, k, a)
  PROVE  Moves(s) /\ TablesStand
<1>t. /\ req[s] \in ReqRows
      /\ req[s].stage # "idle" => req[s].key \in Keys /\ req[s].ask \in Asks
      /\ req[s].paid \in {0, req[s].cost} /\ (req[s].stage \notin Settled => req[s].paid = 0)
      /\ req \in [Slots -> ReqRows]
  BY DEF LimitTypes
<1>i. L!Refuse(s) => Moves(s)
  <2>1. L!Idle \in ReqRows /\ L!Idle.stage = "idle" /\ L!Idle.paid = 0
    BY IdleTyped
  <2> QED
    BY <2>1 DEF L!Refuse, Moves
<1>m. ASSUME NEW x \in L!Stages, req[s].stage # "idle", L!To(s, x),
             x \in Settled \/ req[s].stage \notin Settled
      PROVE  Moves(s)
  <2> DEFINE r == [req[s] EXCEPT !.stage = x]
  <2>1. /\ r \in ReqRows /\ r.key = req[s].key /\ r.ask = req[s].ask
        /\ r.paid = req[s].paid /\ r.cost = req[s].cost /\ r.stage = x
    BY <1>t DEF ReqRows
  <2>2. req' = [req EXCEPT ![s] = r]
    BY <1>m, <1>t DEF L!To
  <2> HIDE DEF r
  <2> QED
    BY <1>m, <1>t, <2>1, <2>2 DEF Moves
<1>x. /\ {"risk", "policy", "limits", "open", "month", "group", "rate", "flying", "notice", "notify", "record"}
           \subseteq L!Stages
      /\ {"risk", "policy", "limits", "open", "month", "group", "rate", "flying"} \cap Settled = {}
      /\ {"notice", "notify", "record"} \subseteq Settled
  BY DEF L!Stages, Settled
<1>1. ASSUME NEW k \in Keys, NEW a \in Asks, L!Arrive(s, k, a) PROVE Moves(s) /\ TablesStand
  <2> DEFINE r == [L!Idle EXCEPT !.stage = "risk", !.key = k, !.ask = a]
  <2>1. r \in ReqRows /\ r.key \in Keys /\ r.ask \in Asks /\ r.paid = 0
    BY <1>x, IdleTyped DEF ReqRows
  <2>2. req' = [req EXCEPT ![s] = r]
    BY <1>1, Zenon DEF L!Arrive
  <2>3. TablesStand
    BY <1>1, Zenon DEF L!Arrive, TablesStand
  <2> HIDE DEF r
  <2> QED
    BY <2>1, <2>2, <2>3 DEF Moves
<1>2. ASSUME L!EvaluateRisk(s) PROVE Moves(s) /\ TablesStand
  BY <1>2, <1>i, <1>m, <1>x DEF L!EvaluateRisk, L!Books, TablesStand
<1>3. ASSUME L!ResolvePolicy(s) PROVE Moves(s) /\ TablesStand
  <2>1. TablesStand
    BY <1>3 DEF L!ResolvePolicy, L!Books, TablesStand
  <2>2. PICK p \in L!Policies(req[s].ask.endpoint) :
           \/ L!Refuse(s)
           \/ req' = [req EXCEPT ![s].stage = "limits", ![s].policy = p,
                                 ![s].reserve = L!Reserve(p, req[s].ask)]
    BY <1>3, Zenon DEF L!ResolvePolicy
  <2>3. p \in PolicyRows
    BY PoliciesTyped DEF LimitTypes
  <2>6. req[s].stage # "idle" /\ req[s].stage \notin Settled
    BY <1>3, <1>x DEF L!ResolvePolicy
  <2>4. L!Reserve(p, req[s].ask) \in Nat
    BY <1>t, <2>3, <2>6, ReservesTyped
  <2> DEFINE v == L!Reserve(p, req[s].ask)
             r == [req[s] EXCEPT !.stage = "limits", !.policy = p, !.reserve = v]
  <2>7. CASE req' = [req EXCEPT ![s].stage = "limits", ![s].policy = p,
                                 ![s].reserve = L!Reserve(p, req[s].ask)]
    <3>1. req' = [req EXCEPT ![s] = r]
      BY <2>7, <1>t
    <3>v. v \in Nat
      BY <2>4
    <3> HIDE DEF v
    <3>2. r \in ReqRows /\ r.key = req[s].key /\ r.ask = req[s].ask /\ r.paid = req[s].paid
      BY <1>t, <1>x, <2>3, <3>v DEF ReqRows
    <3> HIDE DEF r
    <3>3. r.key \in Keys /\ r.ask \in Asks /\ r.paid = 0
      BY <1>t, <2>6, <3>2
    <3>4. r.paid \in {0, r.cost}
      BY <3>3
    <3> QED
      BY <2>1, <3>1, <3>2, <3>3, <3>4 DEF Moves
  <2> QED
    BY <1>i, <2>1, <2>2, <2>7
<1>4. ASSUME L!EnforceSpendLimits(s) PROVE Moves(s) /\ TablesStand
  <2> DEFINE d == {t \in {"user", req[s].key} : limit[t].status = "active"}
             r == [req[s] EXCEPT !.stage = "open", !.seen = limit, !.todo = d]
  <2>0. req[s].stage # "idle" /\ req[s].stage \notin Settled
    BY <1>4, <1>x DEF L!EnforceSpendLimits
  <2>1. d \in SUBSET L!Targets
    BY <1>t, <2>0 DEF L!Targets
  <2>3. req' = [req EXCEPT ![s] = r]
    BY <1>4, <1>t DEF L!EnforceSpendLimits
  <2>4. TablesStand
    BY <1>4, Zenon DEF L!EnforceSpendLimits, L!Books, TablesStand
  <2>5. limit \in [L!Targets -> LimitRows]
    BY DEF LimitTypes
  <2>2. r \in ReqRows /\ r.key = req[s].key /\ r.ask = req[s].ask /\ r.paid = req[s].paid
    <3> HIDE DEF d
    <3> QED BY <1>t, <1>x, <2>1, <2>5 DEF ReqRows
  <2> HIDE DEF r
  <2> QED
    BY <1>t, <2>0, <2>2, <2>3, <2>4 DEF Moves
<1>5. ASSUME L!SpendOfTheDay(s) PROVE Moves(s) /\ TablesStand
  <2>1. TablesStand
    BY <1>5 DEF L!SpendOfTheDay, L!Books, TablesStand
  <2>2. PICK t \in req[s].todo :
           req' = [req EXCEPT ![s].stage = "month", ![s].verdict = t,
                     ![s].day = [usd |-> L!Usd(t, "day"), n |-> L!Count(t, "day")]]
    BY <1>5, Zenon DEF L!SpendOfTheDay
  <2> DEFINE d == [usd |-> L!Usd(t, "day"), n |-> L!Count(t, "day")]
             r == [req[s] EXCEPT !.stage = "month", !.verdict = t, !.day = d]
  <2>3. t \in L!Targets /\ req[s].stage # "idle" /\ req[s].stage \notin Settled
    BY <1>5, <1>t, <1>x DEF ReqRows, L!SpendOfTheDay
  <2>4. d \in [usd : Nat, n : Nat]
    BY <2>3, UsageTyped DEF LimitTypes
  <2> HIDE DEF d
  <2>5. r \in ReqRows /\ r.key = req[s].key /\ r.ask = req[s].ask /\ r.paid = req[s].paid
    BY <1>t, <1>x, <2>3, <2>4 DEF ReqRows
  <2>6. req' = [req EXCEPT ![s] = r]
    BY <1>t, <2>2 DEF d
  <2> HIDE DEF r
  <2> QED
    BY <1>t, <2>1, <2>3, <2>5, <2>6 DEF Moves
<1>6. ASSUME L!EnforceSpendLimit(s) PROVE Moves(s) /\ TablesStand
  <2> DEFINE d == req[s].todo \ {req[s].verdict}
             r == [req[s] EXCEPT !.stage = "open", !.todo = d, !.day = L!NoUsage, !.verdict = "none"]
  <2>1. TablesStand /\ req[s].stage # "idle" /\ req[s].stage \notin Settled
    BY <1>6, <1>x DEF L!EnforceSpendLimit, L!Books, TablesStand
  <2>d. d \in SUBSET L!Targets /\ L!NoUsage \in [usd : Nat, n : Nat]
    BY <1>t DEF ReqRows, L!NoUsage
  <2>3. L!Refuse(s) \/ req' = [req EXCEPT ![s] = r]
    BY <1>6, <1>t DEF L!EnforceSpendLimit
  <2> HIDE DEF d
  <2>2. r \in ReqRows /\ r.key = req[s].key /\ r.ask = req[s].ask /\ r.paid = req[s].paid
    BY <1>t, <1>x, <2>d DEF ReqRows
  <2> HIDE DEF r
  <2> QED
    BY <1>i, <1>t, <2>1, <2>2, <2>3 DEF Moves
<1>7. ASSUME L!LimitsHold(s) PROVE Moves(s) /\ TablesStand
  <2> DEFINE r == [req[s] EXCEPT !.stage = "group", !.seen = L!Unread]
  <2>1. TablesStand /\ req[s].stage # "idle" /\ req[s].stage \notin Settled
    BY <1>7, <1>x DEF L!LimitsHold, L!Books, TablesStand
  <2>2. L!Unread \in [L!Targets -> LimitRows]
    BY DEF L!Unread, LimitRows
  <2>3. req' = [req EXCEPT ![s] = r]
    BY <1>7, <1>t DEF L!LimitsHold
  <2>4. r \in ReqRows /\ r.key = req[s].key /\ r.ask = req[s].ask /\ r.paid = req[s].paid
    BY <1>t, <1>x, <2>2 DEF ReqRows
  <2> HIDE DEF r
  <2> QED
    BY <1>t, <2>1, <2>3, <2>4 DEF Moves
<1>8. ASSUME L!GroupMonth(s) PROVE Moves(s) /\ TablesStand
  BY <1>8, <1>i, <1>m, <1>x DEF L!GroupMonth, L!Books, TablesStand
<1>9. ASSUME L!GroupRate(s) PROVE Moves(s) /\ TablesStand
  BY <1>9, <1>i, <1>m, <1>x DEF L!GroupRate, TablesStand
<1>10. ASSUME L!Settle(s) PROVE Moves(s) /\ TablesStand
  <2>1. TablesStand /\ req[s].stage # "idle"
    BY <1>10 DEF L!Settle, TablesStand
  <2>2. PICK cost \in L!Bill(req[s].policy, req[s].ask) :
          \/ \E paid \in {0, cost} :
               req' = [req EXCEPT ![s].stage = "record", ![s].cost = cost, ![s].paid = paid]
          \/ req' = [req EXCEPT ![s].stage = "notice", ![s].cost = cost, ![s].paid = cost,
                       ![s].low = balance - cost]
    BY <1>10, Zenon DEF L!Settle
  <2>3. cost \in 0 .. MaxCost /\ balance - cost \in Int /\ 0 \in 0 .. MaxCost
    <3>1. cost \in 0 .. MaxCost /\ MaxCost \in Nat
      BY BillTyped, LimitAssumption, Zenon
    <3> QED
      BY <3>1 DEF LimitTypes
  <2>4. ASSUME NEW paid \in {0, cost},
               req' = [req EXCEPT ![s].stage = "record", ![s].cost = cost, ![s].paid = paid]
        PROVE  Moves(s)
    <3> DEFINE r == [req[s] EXCEPT !.stage = "record", !.cost = cost, !.paid = paid]
    <3>1. /\ r \in ReqRows /\ r.key = req[s].key /\ r.ask = req[s].ask
          /\ r.paid = paid /\ r.cost = cost /\ r.stage \in Settled
      BY <1>t, <1>x, <2>3, <2>4 DEF ReqRows
    <3>2. req' = [req EXCEPT ![s] = r]
      BY <1>t, <2>4
    <3> HIDE DEF r
    <3> QED
      BY <1>t, <2>1, <3>1, <3>2 DEF Moves
  <2>5. CASE req' = [req EXCEPT ![s].stage = "notice", ![s].cost = cost, ![s].paid = cost,
                       ![s].low = balance - cost]
    <3> DEFINE d == balance - cost
               r == [req[s] EXCEPT !.stage = "notice", !.cost = cost, !.paid = cost, !.low = d]
    <3>2. req' = [req EXCEPT ![s] = r]
      BY <1>t, <2>5
    <3>d. d \in Int
      BY <2>3
    <3> HIDE DEF d
    <3>1. /\ r \in ReqRows /\ r.key = req[s].key /\ r.ask = req[s].ask
          /\ r.paid = cost /\ r.cost = cost /\ r.stage \in Settled
      BY <1>t, <1>x, <2>3, <3>d DEF ReqRows
    <3> HIDE DEF r
    <3> QED
      BY <1>t, <2>1, <3>1, <3>2 DEF Moves
  <2> QED
    BY <2>1, <2>2, <2>4, <2>5
<1>11. ASSUME L!EndUnrecorded(s) PROVE Moves(s) /\ TablesStand
  BY <1>11, <1>i DEF L!EndUnrecorded, TablesStand
<1>12. ASSUME L!LowBalance(s) PROVE Moves(s) /\ TablesStand
  <2>1. TablesStand /\ req[s].stage # "idle"
    BY <1>12 DEF L!LowBalance, L!Books, TablesStand
  <2>2. PICK x \in {"notify", "record"} : L!Tell(s, x)
    BY <1>12 DEF L!LowBalance
  <2>x. x \in L!Stages /\ x \in Settled
    BY <1>x
  <2> DEFINE r == [req[s] EXCEPT !.stage = x, !.low = 0]
  <2>3. r \in ReqRows /\ r.stage = x
    <3> DEFINE r0 == [req[s] EXCEPT !.stage = x]
    <3>1. r0 \in ReqRows /\ r0.stage = x
      BY <1>t, <2>x DEF ReqRows
    <3>2. r = [r0 EXCEPT !.low = 0]
      OBVIOUS
    <3> HIDE DEF r0, r
    <3> QED
      BY <3>1, <3>2 DEF ReqRows
  <2>5. r.key = req[s].key /\ r.ask = req[s].ask /\ r.paid = req[s].paid /\ r.cost = req[s].cost
    BY <1>t DEF ReqRows
  <2>4. req' = [req EXCEPT ![s] = r]
    BY <1>t, <2>2 DEF L!Tell
  <2> HIDE DEF r
  <2> QED
    BY <1>t, <2>1, <2>x, <2>3, <2>4, <2>5 DEF Moves
<1>13. ASSUME L!Notify(s) PROVE Moves(s) /\ TablesStand
  BY <1>13, <1>m, <1>x DEF L!Notify, TablesStand
<1>14. ASSUME L!Record(s) PROVE Moves(s) /\ TablesStand
  <2>1. L!Refuse(s) /\ TablesStand
    BY <1>14, Zenon DEF L!Record, TablesStand
  <2> QED
    BY <1>i, <2>1
<1>15. ASSUME L!HangUp(s) PROVE Moves(s) /\ TablesStand
  BY <1>15, <1>i DEF L!HangUp, L!Books, TablesStand
<1> QED
  BY <1>1, <1>2, <1>3, <1>4, <1>5, <1>6, <1>7, <1>8, <1>9, <1>10, <1>11, <1>12, <1>13, <1>14, <1>15
     DEF L!Handle

(* What an administrator or the clock does leaves the requests alone.         *)
Writes ==
  \/ \E t \in L!Targets, o \in Limits : L!PutSpendLimit(t, o)
  \/ \E g \in Groups : L!AddMember(g) \/ L!DeleteMember(g) \/ \E o \in GroupOrders : L!PatchGroup(g, o)
  \/ \E w \in Rows : L!AddPermission(w)
  \/ \E u \in Rules : L!UpsertRule(u)

Requests(s) == L!Handle(s) \/ L!HangUp(s) \/ \E k \in Keys, a \in Asks : L!Arrive(s, k, a)

(* A step is a request's, an administrator's or the clock's.                  *)
LEMMA LimitSteps == L!Next => (\E s \in Slots : Requests(s)) \/ Writes \/ L!NextDay
BY DEF L!Next, Requests, Writes

(* The tables of policies stay tables: a group has one row of a model and an  *)
(* endpoint, whoever writes it again.                                         *)
LEMMA TablesStay ==
  ASSUME PolicyTables, limit \in [L!Targets -> LimitRows], Writes
  PROVE  PolicyTables' /\ limit' \in [L!Targets -> LimitRows]
<1>1. ASSUME NEW t \in L!Targets, NEW o \in Limits, L!PutSpendLimit(t, o)
      PROVE  PolicyTables' /\ limit' \in [L!Targets -> LimitRows]
  BY <1>1 DEF L!PutSpendLimit, PolicyTables, LimitRows, L!OneRowEach
<1>2. ASSUME NEW g \in Groups, L!AddMember(g)
      PROVE  PolicyTables' /\ limit' \in [L!Targets -> LimitRows]
  BY <1>2 DEF L!AddMember, PolicyTables, L!OneRowEach
<1>3. ASSUME NEW g \in Groups, L!DeleteMember(g)
      PROVE  PolicyTables' /\ limit' \in [L!Targets -> LimitRows]
  <2>1. ASSUME NEW i \in DOMAIN joined PROVE L!RemoveAt(joined, i) \in Seq(Groups)
    <3>1. joined \in Seq(Groups) /\ i \in 1 .. Len(joined)
      BY DEF PolicyTables
    <3>2. SubSeq(joined, 1, i - 1) \in Seq(Groups) /\ SubSeq(joined, i + 1, Len(joined)) \in Seq(Groups)
      BY <3>1
    <3> QED
      BY <3>2 DEF L!RemoveAt
  <2>2. joined' \in Seq(Groups)
    BY <1>3, <2>1 DEF L!DeleteMember, PolicyTables
  <2> QED
    BY <1>3, <2>2 DEF L!DeleteMember, PolicyTables, L!OneRowEach
<1>4. ASSUME NEW g \in Groups, NEW o \in GroupOrders, L!PatchGroup(g, o)
      PROVE  PolicyTables' /\ limit' \in [L!Targets -> LimitRows]
  BY <1>4 DEF L!PatchGroup, PolicyTables, L!OneRowEach
<1>5. ASSUME NEW w \in Rows, L!AddPermission(w)
      PROVE  PolicyTables' /\ limit' \in [L!Targets -> LimitRows]
  BY <1>5 DEF L!AddPermission, PolicyTables, L!OneRowEach
<1>6. ASSUME NEW u \in Rules, L!UpsertRule(u)
      PROVE  PolicyTables' /\ limit' \in [L!Targets -> LimitRows]
  BY <1>6 DEF L!UpsertRule, PolicyTables, L!OneRowEach
<1> QED
  BY <1>1, <1>2, <1>3, <1>4, <1>5, <1>6 DEF Writes

(* What a write leaves alone, and that it is counted.                         *)
LEMMA WritesLeave ==
  ASSUME Writes
  PROVE  /\ UNCHANGED <<used, spent, rate, passed, balance, notices, req, free, lost, requests, days>>
         /\ writes' = writes + 1
         /\ rules' = rules \/ \E u \in Rules : \E status \in {"active", "disabled"} :
                                rules' = [rules EXCEPT ![u] = status]
         /\ \/ UNCHANGED <<limit, since>>
            \/ \E t \in L!Targets, o \in Limits :
                  /\ limit' = [limit EXCEPT ![t] = o]
                  /\ since' = IF t = "user" THEN L!Usd("user", "month") ELSE since
<1>1. ASSUME NEW t \in L!Targets, NEW o \in Limits, L!PutSpendLimit(t, o)
      PROVE  /\ UNCHANGED <<used, spent, rate, passed, balance, notices, req, free, lost, requests, days, rules>>
             /\ writes' = writes + 1
             /\ limit' = [limit EXCEPT ![t] = o]
             /\ since' = IF t = "user" THEN L!Usd("user", "month") ELSE since
  BY <1>1, Zenon DEF L!PutSpendLimit, L!Write
<1>2. ASSUME ~ \E t \in L!Targets, o \in Limits : L!PutSpendLimit(t, o)
      PROVE  /\ UNCHANGED <<used, spent, rate, passed, balance, notices, req, free, lost, requests, days>>
             /\ writes' = writes + 1 /\ UNCHANGED <<limit, since>>
             /\ rules' = rules \/ \E u \in Rules : \E status \in {"active", "disabled"} :
                                    rules' = [rules EXCEPT ![u] = status]
  BY <1>2 DEF Writes, L!AddMember, L!DeleteMember, L!PatchGroup, L!AddPermission, L!UpsertRule, L!Write
<1> QED
  BY <1>1, <1>2

(* Every step keeps the types.                                                *)
LEMMA LimitNextTypes == LimitTypes /\ [L!Next]_limitVars => LimitTypes'
<1> SUFFICES ASSUME LimitTypes, [L!Next]_limitVars PROVE LimitTypes'
  OBVIOUS
<1>1. ASSUME NEW s \in Slots, Requests(s) PROVE LimitTypes'
  <2>1. Moves(s) /\ TablesStand
    BY <1>1, RequestsMove DEF Requests
  <2>2. /\ req' \in [Slots -> ReqRows]
        /\ \A x \in Slots : req'[x].stage # "idle" => req'[x].key \in Keys /\ req'[x].ask \in Asks
        /\ \A x \in Slots : /\ req'[x].paid \in {0, req'[x].cost}
                            /\ req'[x].stage \notin Settled => req'[x].paid = 0
    BY <2>1 DEF Moves, LimitTypes
  <2>3. /\ used' \in UsedRows /\ balance' \in 0 .. Funds /\ lost' \in Nat
        /\ notices' \in Nat /\ free' \in Int
        /\ rate' \in [Groups -> [L!Endpoints -> Nat]] /\ passed' \in [Groups -> [L!Endpoints -> Nat]]
        /\ \A g \in Groups, e \in L!Endpoints : passed'[g][e] <= rate'[g][e]
    <3>t. req[s] \in ReqRows /\ (req[s].stage # "idle" => req[s].key \in Keys /\ req[s].ask \in Asks)
      BY DEF LimitTypes
    <3>b. /\ balance \in 0 .. Funds /\ lost \in Nat /\ Funds \in Nat
      BY LimitAssumption, Zenon DEF LimitTypes
    <3>p. ASSUME NEW n \in Nat, L!Debit(s, n) PROVE balance' \in 0 .. Funds
      BY <3>b, <3>p DEF L!Debit
    <3>1. CASE L!Settle(s)
      <4>1. PICK n \in Nat : L!Debit(s, n)
        <5>1. \A cost \in L!Bill(req[s].policy, req[s].ask) : cost \in Nat
          BY BillTyped
        <5>2. 0 \in Nat
          OBVIOUS
        <5> QED
          BY <3>1, <5>1, <5>2, Zenon DEF L!Settle
      <4>2. balance' \in 0 .. Funds
        BY <3>p, <4>1
      <4>3. UNCHANGED <<used, rate, passed, notices, free, lost>>
        BY <3>1 DEF L!Settle
      <4> QED
        BY <4>2, <4>3 DEF LimitTypes
    <3>5. CASE L!EndUnrecorded(s)
      <4>1. PICK n \in L!Bill(req[s].policy, req[s].ask) : L!Debit(s, n) /\ lost' = lost + n
        BY <3>5 DEF L!EndUnrecorded
      <4>2. n \in Nat
        BY BillTyped
      <4>3. balance' \in 0 .. Funds /\ lost' \in Nat
        BY <3>b, <3>p, <4>1, <4>2
      <4>4. UNCHANGED <<used, rate, passed, notices, free>>
        BY <3>5 DEF L!EndUnrecorded
      <4> QED
        BY <4>3, <4>4 DEF LimitTypes
    <3>6. CASE L!Record(s)
      <4>0. UNCHANGED <<balance, rate, passed, notices, free>>
        BY <3>6 DEF L!Record
      <4> DEFINE k == req[s].key
                 cost == req[s].cost
                 row(w) == [usd |-> used[w][k].usd + cost, n |-> used[w][k].n + 1]
      <4>1. k \in Keys /\ cost \in Nat /\ req[s].paid \in Nat
        BY <3>6, <3>t DEF L!Record, ReqRows
      <4>2. \/ used' = [w \in {"day", "month"} |-> [used[w] EXCEPT ![k] = row(w)]] /\ lost' = lost
            \/ used' = used /\ lost' = lost + req[s].paid
        BY <3>6, <4>1 DEF L!Record, L!Charged, LimitTypes, UsedRows
      <4>3. \A w \in {"day", "month"} : row(w) \in [usd : Nat, n : Nat]
        BY <4>1 DEF LimitTypes, UsedRows
      <4> HIDE DEF k, row, cost
      <4>4. used' \in UsedRows
        <5>1. CASE used' = used
          BY <5>1 DEF LimitTypes
        <5>2. CASE used' = [w \in {"day", "month"} |-> [used[w] EXCEPT ![k] = row(w)]]
          BY <4>1, <4>3, <5>2 DEF LimitTypes, UsedRows
        <5> QED
          BY <4>2, <5>1, <5>2
      <4>5. lost' \in Nat
        BY <3>b, <4>1, <4>2
      <4> QED
        BY <4>0, <4>4, <4>5 DEF LimitTypes
    <3>2. CASE L!GroupRate(s)
      <4> DEFINE e == req[s].ask.endpoint
                 g == req[s].policy.group
      <4>1. e \in L!Endpoints /\ g \in Groups \cup {"none"}
        BY <3>t, <3>2, AsksTyped, Zenon DEF L!GroupRate, ReqRows, PolicyRows
      <4>2. \/ UNCHANGED <<rate, passed>>
            \/ /\ g # "none" /\ rate' = [rate EXCEPT ![g][e] = @ + 1]
               /\ UNCHANGED passed \/ passed' = [passed EXCEPT ![g][e] = @ + 1]
        BY <3>2 DEF L!GroupRate
      <4>3. UNCHANGED <<used, balance, lost, notices, free>>
        BY <3>2 DEF L!GroupRate
      <4> HIDE DEF e, g
      <4>4. /\ rate' \in [Groups -> [L!Endpoints -> Nat]] /\ passed' \in [Groups -> [L!Endpoints -> Nat]]
            /\ \A h \in Groups, f \in L!Endpoints : passed'[h][f] <= rate'[h][f]
        <5>1. CASE UNCHANGED <<rate, passed>>
          BY <5>1 DEF LimitTypes
        <5>2. CASE g \in Groups /\ rate' = [rate EXCEPT ![g][e] = @ + 1] /\ UNCHANGED passed
          BY <4>1, <5>2 DEF LimitTypes
        <5>3. CASE /\ g \in Groups /\ rate' = [rate EXCEPT ![g][e] = @ + 1]
                   /\ passed' = [passed EXCEPT ![g][e] = @ + 1]
          <6>1. rate' \in [Groups -> [L!Endpoints -> Nat]] /\ passed' \in [Groups -> [L!Endpoints -> Nat]]
            BY <4>1, <5>3 DEF LimitTypes
          <6>2. ASSUME NEW h \in Groups, NEW f \in L!Endpoints PROVE passed'[h][f] <= rate'[h][f]
            <7>1. rate[h][f] \in Nat /\ passed[h][f] \in Nat /\ passed[h][f] <= rate[h][f]
              BY DEF LimitTypes
            <7>2. \/ rate'[h][f] = rate[h][f] + 1 /\ passed'[h][f] = passed[h][f] + 1
                  \/ rate'[h][f] = rate[h][f] /\ passed'[h][f] = passed[h][f]
              BY <4>1, <5>3 DEF LimitTypes
            <7> QED
              BY <7>1, <7>2
          <6> QED
            BY <6>1, <6>2
        <5> QED
          BY <4>1, <4>2, <5>1, <5>2, <5>3
      <4> QED
        BY <4>3, <4>4 DEF LimitTypes
    <3>3. CASE L!Notify(s)
      BY <3>3 DEF L!Notify, LimitTypes
    <3>4. CASE /\ ~ L!GroupRate(s) /\ ~ L!Notify(s)
               /\ ~ L!Settle(s) /\ ~ L!EndUnrecorded(s) /\ ~ L!Record(s)
      <4>1. UNCHANGED <<used, balance, lost, rate, passed, notices>> /\ (free' \in {free, free + 1, free - 1})
        <5>1. CASE L!EvaluateRisk(s) \/ L!ResolvePolicy(s) \/ L!SpendOfTheDay(s) \/ L!GroupMonth(s) \/ L!LowBalance(s)
          BY <5>1, Zenon DEF L!EvaluateRisk, L!ResolvePolicy, L!SpendOfTheDay, L!GroupMonth, L!LowBalance, L!Books
        <5>2. CASE L!EnforceSpendLimits(s) \/ L!LimitsHold(s)
          BY <5>2 DEF L!EnforceSpendLimits, L!LimitsHold, L!Books
        <5>3. CASE L!EnforceSpendLimit(s)
          BY <5>3 DEF L!EnforceSpendLimit, L!Books, L!Closes, LimitTypes
        <5>4. CASE L!HangUp(s)
          BY <5>4 DEF L!HangUp, L!Books
        <5>5. CASE \E k \in Keys, a \in Asks : L!Arrive(s, k, a)
          BY <5>5 DEF L!Arrive
        <5> QED
          BY <1>1, <3>4, <5>1, <5>2, <5>3, <5>4, <5>5 DEF Requests, L!Handle
      <4> QED
        BY <4>1 DEF LimitTypes
    <3> QED
      BY <3>1, <3>2, <3>3, <3>4, <3>5, <3>6
  <2> QED
    BY <2>1, <2>2, <2>3 DEF LimitTypes, TablesStand, PolicyTables, L!OneRowEach
<1>2. CASE Writes
  <2>1. PolicyTables' /\ limit' \in [L!Targets -> LimitRows]
    BY <1>2, TablesStay DEF LimitTypes
  <2>2. /\ rules' \in [Rules -> {"none", "active", "disabled"}]
        /\ writes' \in Nat /\ since' \in Nat
    <3>2. rules' \in [Rules -> {"none", "active", "disabled"}]
      <4>1. rules' = rules \/ \E u \in Rules : \E status \in {"active", "disabled"} :
                               rules' = [rules EXCEPT ![u] = status]
        BY <1>2, WritesLeave
      <4>2. rules \in [Rules -> {"none", "active", "disabled"}]
        BY DEF LimitTypes
      <4> QED
        BY <4>1, <4>2
    <3>3. writes' \in Nat
      BY <1>2, WritesLeave DEF LimitTypes
    <3>4. since' \in Nat
      <4>1. since \in Nat /\ L!Usd("user", "month") \in Nat
        <5>1. used \in UsedRows /\ since \in Nat
          BY DEF LimitTypes
        <5>2. "user" \in L!Targets /\ "month" \in {"day", "month"}
          BY DEF L!Targets
        <5> QED
          BY <5>1, <5>2, UsageTyped
      <4>2. since' = since \/ since' = L!Usd("user", "month")
        BY <1>2, WritesLeave
      <4> QED
        BY <4>1, <4>2
    <3> QED
      BY <3>2, <3>3, <3>4
  <2> QED
    BY <1>2, <2>1, <2>2, WritesLeave DEF LimitTypes
<1>3. CASE L!NextDay
  <2>1. used' \in UsedRows
    BY <1>3 DEF L!NextDay, LimitTypes, UsedRows
  <2> QED
    BY <1>3, <2>1 DEF L!NextDay, L!Fresh, LimitTypes, PolicyTables, L!OneRowEach
<1>4. CASE UNCHANGED limitVars
  BY <1>4 DEF limitVars, LimitTypes, PolicyTables, L!OneRowEach
<1> QED
  BY <1>1, <1>2, <1>3, <1>4, LimitSteps

(* The types and the connections are what TypeOK says of them.                *)
LEMMA LimitTypesAreTyped == LimitTypes /\ free \in 0 .. Conns => L!TypeOK
<1> SUFFICES ASSUME LimitTypes, free \in 0 .. Conns PROVE L!TypeOK
  OBVIOUS
<1>1. limit \in [L!Targets -> Limits \cup {L!Unlimited}] /\ used \in [{"day", "month"} -> [Keys -> [usd : Nat, n : Nat]]]
  BY DEF LimitTypes, LimitRows, UsedRows
<1>2. group \in [Groups -> GroupOrders] /\ joined \in Seq(Groups) /\ rows \subseteq Rows
  BY DEF LimitTypes, PolicyTables
<1>3. \A g \in Groups, e \in L!Endpoints : rate[g][e] \in Nat /\ passed[g][e] \in 0 .. rate[g][e]
  BY DEF LimitTypes
<1>4. \A s \in Slots : /\ req[s].stage \in L!Stages /\ req[s].todo \subseteq L!Targets
                      /\ req[s].cost \in 0 .. MaxCost
  BY DEF LimitTypes, ReqRows
<1>5. \A s \in Slots : req[s].paid \in {0, req[s].cost}
  BY DEF LimitTypes
<1> QED
  BY <1>1, <1>2, <1>3, <1>4, <1>5 DEF LimitTypes, L!TypeOK

(* Where a request stands and what it brings there.                           *)
LEMMA RequestRow ==
  ASSUME LimitTypes, NEW s \in Slots
  PROVE  /\ req[s] \in ReqRows /\ req \in [Slots -> ReqRows]
         /\ L!Refuse(s) => req'[s] = L!Idle /\ req'[s].stage = "idle" /\ req'[s].paid = 0
         /\ \A x : L!To(s, x) => /\ req'[s].stage = x /\ req'[s].todo = req[s].todo
                                /\ req'[s].policy = req[s].policy /\ req'[s].seen = req[s].seen
                                /\ req'[s].ask = req[s].ask /\ req'[s].paid = req[s].paid
         /\ \A x : L!Tell(s, x) => req'[s].stage = x /\ req'[s].paid = req[s].paid
<1>1. req[s] \in ReqRows /\ req \in [Slots -> ReqRows]
  BY DEF LimitTypes
<1>2. L!Refuse(s) => req'[s] = L!Idle
  BY <1>1 DEF L!Refuse
<1>3. L!Idle.stage = "idle" /\ L!Idle.paid = 0
  BY IdleTyped
<1>4. ASSUME NEW x, L!To(s, x)
      PROVE  /\ req'[s].stage = x /\ req'[s].todo = req[s].todo
             /\ req'[s].policy = req[s].policy /\ req'[s].seen = req[s].seen
             /\ req'[s].ask = req[s].ask /\ req'[s].paid = req[s].paid
  <2>1. req'[s] = [req[s] EXCEPT !.stage = x]
    BY <1>1, <1>4 DEF L!To
  <2> QED
    BY <1>1, <2>1 DEF ReqRows
<1>5. ASSUME NEW x, L!Tell(s, x) PROVE req'[s].stage = x /\ req'[s].paid = req[s].paid
  <2>1. req'[s] = [req[s] EXCEPT !.stage = x, !.low = 0]
    BY <1>1, <1>5 DEF L!Tell
  <2> QED
    BY <1>1, <2>1 DEF ReqRows
<1> QED
  BY <1>1, <1>2, <1>3, <1>4, <1>5

(* The others stand still.                                                    *)
LEMMA OthersStand ==
  ASSUME LimitTypes, NEW s \in Slots, Requests(s)
  PROVE  \A x \in Slots : x # s => req'[x] = req[x]
<1>1. Moves(s)
  BY RequestsMove DEF Requests
<1> QED
  BY <1>1 DEF Moves, LimitTypes

(* One slot more or less.                                                     *)
LEMMA SlotCounts ==
  ASSUME NEW X \in SUBSET Slots
  PROVE  /\ Cardinality(X) \in 0 .. Cardinality(Slots) /\ Cardinality(Slots) \in Nat \ {0}
         /\ \A s \in Slots : Cardinality(X \cup {s}) = IF s \in X THEN Cardinality(X) ELSE Cardinality(X) + 1
         /\ \A s \in Slots : Cardinality(X \ {s}) = IF s \in X THEN Cardinality(X) - 1 ELSE Cardinality(X)
         /\ \A s \in Slots : s \in X => Cardinality(X) >= 1
<1>1. IsFiniteSet(Slots) /\ Slots # {}
  BY LimitAssumption, Zenon
<1>2. IsFiniteSet(X) /\ Cardinality(X) <= Cardinality(Slots)
  BY <1>1, FS_Subset
<1>3. Cardinality(X) \in Nat /\ Cardinality(Slots) \in Nat
  BY <1>1, <1>2, FS_CardinalityType
<1>4. Cardinality(Slots) # 0
  BY <1>1, FS_EmptySet
<1>5. \A s \in Slots : Cardinality(X \cup {s}) = IF s \in X THEN Cardinality(X) ELSE Cardinality(X) + 1
  BY <1>2, FS_AddElement
<1>6. \A s \in Slots : Cardinality(X \ {s}) = IF s \in X THEN Cardinality(X) - 1 ELSE Cardinality(X)
  BY <1>2, FS_RemoveElement
<1>7. ASSUME NEW s \in X PROVE Cardinality(X) >= 1
  <2>1. X # {}
    BY <1>7
  <2>2. Cardinality(X) # 0
    BY <1>2, <2>1, FS_EmptySet
  <2> QED
    BY <1>3, <2>2
<1> QED
  BY <1>2, <1>3, <1>4, <1>5, <1>6, <1>7

-----------------------------------------------------------------------------
(* Connections: a cursor over the limits holds one, and gives it back.        *)
Reading == {s \in Slots : req[s].stage \in {"open", "month"}}

(* Every connection of the pool is free or held by a reader.                  *)
Connected == free + Cardinality(Reading) = Conns

(* A step takes a connection only when it begins to read the limits, and gives*)
(* it back when it is done with them, refused or cut off.                     *)
LEMMA ConnectionsMove ==
  ASSUME LimitTypes, NEW s \in Slots, Requests(s)
  PROVE  \/ (s \in Reading <=> req'[s].stage \in {"open", "month"}) /\ free' = free
         \/ s \notin Reading /\ req'[s].stage \in {"open", "month"} /\ free' = free - 1 /\ free > 0
         \/ s \in Reading /\ req'[s].stage \notin {"open", "month"} /\ free' = free + 1
<1>r. /\ req[s] \in ReqRows
      /\ L!Refuse(s) => req'[s].stage = "idle"
      /\ \A x : L!To(s, x) => req'[s].stage = x
      /\ \A x : L!Tell(s, x) => req'[s].stage = x
      /\ req \in [Slots -> ReqRows] /\ free \in Int
  <2>1. free \in Int
    BY DEF LimitTypes
  <2> QED
    BY <2>1, RequestRow
<1>d. s \in Reading <=> req[s].stage \in {"open", "month"}
  BY DEF Reading
<1> HIDE DEF Reading
<1>1. CASE \E k \in Keys, a \in Asks : L!Arrive(s, k, a)
  BY <1>1, <1>r, <1>d DEF L!Arrive, ReqRows, L!Idle
<1>2. CASE L!EvaluateRisk(s)
  BY <1>2, <1>r, <1>d DEF L!EvaluateRisk
<1>3. CASE L!ResolvePolicy(s)
  <2>1. req'[s].stage \in {"idle", "limits"}
    BY <1>3, <1>r DEF L!ResolvePolicy, ReqRows
  <2> QED
    BY <1>3, <1>d, <2>1 DEF L!ResolvePolicy
<1>4. CASE L!EnforceSpendLimits(s)
  <2>1. req'[s].stage = "open"
    BY <1>4, <1>r DEF L!EnforceSpendLimits, ReqRows
  <2> QED
    BY <1>4, <1>d, <2>1 DEF L!EnforceSpendLimits
<1>5. CASE L!SpendOfTheDay(s)
  <2>1. req'[s].stage = "month"
    BY <1>5, <1>r DEF L!SpendOfTheDay, ReqRows
  <2> QED
    BY <1>5, <1>d, <2>1 DEF L!SpendOfTheDay
<1>6. CASE L!EnforceSpendLimit(s)
  <2>1. CASE L!Refused(req[s].verdict, s)
    BY <1>6, <1>r, <1>d, <2>1 DEF L!EnforceSpendLimit, L!Closes
  <2>2. CASE ~ L!Refused(req[s].verdict, s)
    <3>1. req'[s].stage = "open"
      BY <1>6, <1>r, <2>2 DEF L!EnforceSpendLimit, ReqRows
    <3>2. free' = free
      BY <1>6, <1>r, <2>2 DEF L!EnforceSpendLimit, L!Closes
    <3> QED
      BY <1>6, <1>d, <3>1, <3>2 DEF L!EnforceSpendLimit
  <2> QED
    BY <2>1, <2>2
<1>7. CASE L!LimitsHold(s)
  <2>1. req'[s].stage = "group"
    BY <1>7, <1>r DEF L!LimitsHold, ReqRows
  <2> QED
    BY <1>7, <1>d, <2>1 DEF L!LimitsHold
<1>8. CASE L!GroupMonth(s)
  BY <1>8, <1>r, <1>d DEF L!GroupMonth
<1>9. CASE L!GroupRate(s)
  BY <1>9, <1>r, <1>d DEF L!GroupRate
<1>10. CASE L!Settle(s)
  <2>1. req'[s].stage \in {"record", "notice"}
    BY <1>10, <1>r DEF L!Settle, ReqRows
  <2> QED
    BY <1>10, <1>d, <2>1 DEF L!Settle
<1>11. CASE L!EndUnrecorded(s)
  BY <1>11, <1>r, <1>d DEF L!EndUnrecorded
<1>12. CASE L!LowBalance(s)
  BY <1>12, <1>r, <1>d DEF L!LowBalance
<1>13. CASE L!Notify(s)
  BY <1>13, <1>r, <1>d DEF L!Notify
<1>14. CASE L!Record(s)
  BY <1>14, <1>r, <1>d DEF L!Record
<1>15. CASE L!HangUp(s)
  BY <1>15, <1>r, <1>d DEF L!HangUp
<1> QED
  BY <1>1, <1>2, <1>3, <1>4, <1>5, <1>6, <1>7, <1>8, <1>9, <1>10, <1>11, <1>12, <1>13, <1>14, <1>15
     DEF Requests, L!Handle

(* So every connection is free or a reader's.                                 *)
LEMMA ConnectedNext ==
  ASSUME LimitTypes, Connected /\ free >= 0, [L!Next]_limitVars
  PROVE  Connected' /\ free' >= 0
<1>t. free \in Int /\ Conns \in Nat
  BY LimitAssumption, Zenon DEF LimitTypes
<1>1. ASSUME NEW s \in Slots, Requests(s) PROVE Connected' /\ free' >= 0
  <2>1. Reading' = IF req'[s].stage \in {"open", "month"} THEN Reading \cup {s} ELSE Reading \ {s}
    BY <1>1, OthersStand DEF Reading
  <2>2. Reading \in SUBSET Slots
    BY DEF Reading
  <2>3. /\ Cardinality(Reading) \in Nat
        /\ Cardinality(Reading \cup {s}) = IF s \in Reading THEN Cardinality(Reading) ELSE Cardinality(Reading) + 1
        /\ Cardinality(Reading \ {s}) = IF s \in Reading THEN Cardinality(Reading) - 1 ELSE Cardinality(Reading)
    BY <2>2, SlotCounts
  <2> QED
    BY <1>1, <1>t, <2>1, <2>3, ConnectionsMove DEF Connected
<1>2. CASE Writes \/ L!NextDay \/ UNCHANGED limitVars
  <2>1. UNCHANGED <<req, free>>
    BY <1>2, WritesLeave DEF L!NextDay, limitVars
  <2> QED
    BY <2>1 DEF Connected, Reading
<1> QED
  BY <1>1, <1>2, LimitSteps

(* Money: what the rows of the month hold, and what requests paid whose row is*)
(* still to be written.                                                       *)
MonthUsd == [k \in Keys |-> used["month"][k].usd]

Owed == [s \in Slots |-> req[s].paid]

(* What left the balance is in the month's rows, or in a row that was lost, or*)
(* its row is still to come.                                                  *)
Booked == Funds <= balance + lost + Amount(MonthUsd, Keys) + Amount(Owed, Slots)

(* A sum changes by what one of its terms changes.                            *)
LEMMA AmountChanges ==
  ASSUME NEW K, IsFiniteSet(K), NEW g \in [K -> Nat], NEW h \in [K -> Nat], NEW k \in K,
         \A x \in K \ {k} : h[x] = g[x]
  PROVE  /\ Amount(g, K) \in Nat /\ Amount(h, K) \in Nat
         /\ Amount(h, K) + g[k] = Amount(g, K) + h[k]
<1>0. K \in SUBSET K /\ K \ {k} \in SUBSET K
  OBVIOUS
<1>1. /\ Amount(h, K) = h[k] + Amount(h, K \ {k}) /\ Amount(g, K) = g[k] + Amount(g, K \ {k})
      /\ Amount(g, K \ {k}) \in Nat /\ Amount(h, K \ {k}) \in Nat
  BY <1>0, AmountAdds
<1>2. Units(h, K \ {k}) = Units(g, K \ {k})
  BY DEF Units
<1>3. Amount(h, K \ {k}) = Amount(g, K \ {k})
  BY <1>2 DEF Amount
<1>4. g[k] \in Nat /\ h[k] \in Nat
  OBVIOUS
<1> QED
  BY <1>1, <1>3, <1>4

(* What is counted of nothing is nothing.                                     *)
LEMMA NoAmount == ASSUME NEW K, NEW g, \A x \in K : g[x] = 0 PROVE Amount(g, K) = 0
<1>1. Units(g, K) = {}
  BY DEF Units
<1> QED
  BY <1>1, FS_EmptySet DEF Amount

(* The sums are of amounts.                                                   *)
LEMMA MoneyTyped ==
  ASSUME LimitTypes
  PROVE  /\ IsFiniteSet(Keys) /\ MonthUsd \in [Keys -> Nat] /\ Amount(MonthUsd, Keys) \in Nat
         /\ IsFiniteSet(Slots) /\ Owed \in [Slots -> Nat] /\ Amount(Owed, Slots) \in Nat
<1>1. IsFiniteSet(Keys) /\ IsFiniteSet(Slots)
  BY LimitAssumption, Zenon
<1>2. MonthUsd \in [Keys -> Nat] /\ Owed \in [Slots -> Nat]
  BY DEF LimitTypes, MonthUsd, UsedRows, Owed, ReqRows
<1>3. Keys \in SUBSET Keys /\ Slots \in SUBSET Slots
  OBVIOUS
<1> QED
  BY <1>1, <1>2, <1>3, AmountAdds

(* Nothing is used when it begins, and nothing spent.                         *)
LEMMA BookedInit == L!Init => Booked
<1> SUFFICES ASSUME L!Init PROVE Booked
  OBVIOUS
<1>1. (\A k \in Keys : MonthUsd[k] = 0) /\ \A s \in Slots : Owed[s] = 0
  BY IdleTyped DEF MonthUsd, Owed, L!Init
<1>2. Amount(MonthUsd, Keys) = 0 /\ Amount(Owed, Slots) = 0
  BY <1>1, NoAmount
<1>3. Funds \in Nat /\ balance = Funds /\ lost = 0
  BY LimitAssumption, Zenon DEF L!Init
<1> QED
  BY <1>2, <1>3 DEF Booked

(* A step of a request adds its cost to the month's rows when it records what *)
(* it paid, at most; any other leaves them, and what it takes from the balance*)
(* is lost or still to be recorded.                                           *)
LEMMA MoneyMoves ==
  ASSUME LimitTypes, NEW s \in Slots, Requests(s)
  PROVE  \/ /\ MonthUsd' = MonthUsd
            /\ balance + lost + req[s].paid <= balance' + lost' + req'[s].paid
         \/ /\ balance' = balance /\ lost' = lost
            /\ req[s].stage = "record" /\ req'[s].stage = "idle" /\ req'[s].paid = 0
            /\ req[s].paid <= req[s].cost
            /\ \E k \in Keys : MonthUsd' = [MonthUsd EXCEPT ![k] = MonthUsd[k] + req[s].cost]
<1>r. /\ req[s] \in ReqRows /\ req \in [Slots -> ReqRows]
      /\ L!Refuse(s) => req'[s].stage = "idle" /\ req'[s].paid = 0
      /\ \A x : L!To(s, x) => req'[s].paid = req[s].paid
      /\ \A x : L!Tell(s, x) => req'[s].paid = req[s].paid
  BY RequestRow
<1>t. /\ balance \in Nat /\ lost \in Nat /\ req[s].paid \in Nat /\ req[s].cost \in Nat
      /\ req[s].paid <= req[s].cost /\ (req[s].stage \notin Settled => req[s].paid = 0)
  <2>1. /\ balance \in 0 .. Funds /\ Funds \in Nat /\ lost \in Nat
        /\ req[s].paid \in 0 .. MaxCost /\ req[s].cost \in 0 .. MaxCost /\ MaxCost \in Nat
        /\ req[s].paid \in {0, req[s].cost} /\ (req[s].stage \notin Settled => req[s].paid = 0)
    BY <1>r, LimitAssumption, Zenon DEF LimitTypes, ReqRows
  <2> QED
    BY <2>1
<1>x. /\ {"idle", "risk", "policy", "limits", "open", "month", "group", "rate", "flying"} \cap Settled = {}
  BY DEF Settled
<1>m. used' = used => MonthUsd' = MonthUsd
  BY DEF MonthUsd
<1>1. CASE L!Settle(s)
  <2>1. PICK cost \in L!Bill(req[s].policy, req[s].ask) :
          \/ \E paid \in {0, cost} :
               /\ L!Debit(s, paid)
               /\ req' = [req EXCEPT ![s].stage = "record", ![s].cost = cost, ![s].paid = paid]
          \/ /\ L!Debit(s, cost)
             /\ req' = [req EXCEPT ![s].stage = "notice", ![s].cost = cost, ![s].paid = cost,
                          ![s].low = balance - cost]
    BY <1>1, Zenon DEF L!Settle
  <2>2. PICK paid \in {0, cost} : balance' = balance - paid /\ req'[s].paid = paid
    BY <1>r, <2>1 DEF L!Debit, ReqRows
  <2>3. used' = used /\ lost' = lost /\ req[s].stage = "flying"
    BY <1>1 DEF L!Settle
  <2>4. cost \in Nat
    BY BillTyped
  <2> QED
    BY <1>m, <1>t, <1>x, <2>2, <2>3, <2>4
<1>2. CASE L!EndUnrecorded(s)
  <2>1. PICK paid \in L!Bill(req[s].policy, req[s].ask) : balance' = balance - paid /\ lost' = lost + paid
    BY <1>2 DEF L!EndUnrecorded, L!Debit
  <2>2. paid \in Nat
    BY BillTyped
  <2>3. used' = used /\ req[s].stage = "flying" /\ req'[s].paid = 0
    BY <1>2, <1>r DEF L!EndUnrecorded
  <2> QED
    BY <1>m, <1>t, <1>x, <2>1, <2>2, <2>3
<1>3. CASE L!Record(s)
  <2>0. /\ balance' = balance /\ req[s].stage = "record" /\ req'[s].stage = "idle" /\ req'[s].paid = 0
    BY <1>3, <1>r DEF L!Record
  <2>1. CASE used' = used /\ lost' = lost + req[s].paid
    BY <1>m, <1>t, <2>0, <2>1
  <2>2. CASE ~ (used' = used /\ lost' = lost + req[s].paid)
    <3> DEFINE k == req[s].key
               cost == req[s].cost
               u == used["month"]
               v == used'["month"]
               row == [usd |-> u[k].usd + cost, n |-> u[k].n + 1]
    <3>1. k \in Keys
      BY <2>0 DEF LimitTypes
    <3>2. lost' = lost /\ v = [u EXCEPT ![k] = row]
      BY <1>3, <2>2, <3>1 DEF L!Record, L!Charged, LimitTypes, UsedRows
    <3>3. u \in [Keys -> [usd : Nat, n : Nat]] /\ row.usd = u[k].usd + cost
      BY DEF LimitTypes, UsedRows
    <3>4. MonthUsd = [x \in Keys |-> u[x].usd] /\ MonthUsd' = [x \in Keys |-> v[x].usd]
      BY DEF MonthUsd
    <3>5. MonthUsd' = [MonthUsd EXCEPT ![k] = MonthUsd[k] + cost]
      <4> HIDE DEF u, v, row, k, cost
      <4>1. \A x \in Keys : v[x].usd = IF x = k THEN u[k].usd + cost ELSE u[x].usd
        BY <3>1, <3>2, <3>3
      <4> QED
        BY <3>1, <3>4, <4>1
    <3> QED
      BY <1>t, <2>0, <3>1, <3>2, <3>5
  <2> QED
    BY <2>1, <2>2
<1>4. CASE ~ L!Settle(s) /\ ~ L!EndUnrecorded(s) /\ ~ L!Record(s)
  <2>1. UNCHANGED <<used, balance, lost>>
    BY <1>4, Zenon DEF Requests, L!Handle, L!EvaluateRisk, L!ResolvePolicy, L!EnforceSpendLimits,
         L!SpendOfTheDay, L!EnforceSpendLimit, L!LimitsHold, L!GroupMonth, L!GroupRate, L!LowBalance,
         L!Notify, L!HangUp, L!Arrive, L!Books
  <2>2. req'[s].paid = req[s].paid
    <3>1. CASE L!LowBalance(s) \/ L!Notify(s)
      BY <1>r, <3>1 DEF L!LowBalance, L!Notify
    <3>2. CASE L!EvaluateRisk(s) \/ L!GroupMonth(s) \/ L!GroupRate(s) \/ L!HangUp(s)
      <4>1. req[s].stage \notin Settled /\ (L!Refuse(s) \/ \E x : L!To(s, x))
        BY <1>x, <3>2 DEF L!EvaluateRisk, L!GroupMonth, L!GroupRate, L!HangUp, Settled
      <4> QED
        BY <1>r, <1>t, <4>1
    <3>3. CASE \E k \in Keys, a \in Asks : L!Arrive(s, k, a)
      BY <1>r, <1>t, <1>x, <3>3, IdleTyped DEF L!Arrive, ReqRows
    <3>4. CASE L!ResolvePolicy(s)
      BY <1>r, <1>t, <1>x, <3>4 DEF L!ResolvePolicy, ReqRows
    <3>5. CASE L!EnforceSpendLimits(s)
      BY <1>r, <3>5 DEF L!EnforceSpendLimits, ReqRows
    <3>7. CASE L!SpendOfTheDay(s)
      BY <1>r, <3>7 DEF L!SpendOfTheDay, ReqRows
    <3>8. CASE L!LimitsHold(s)
      BY <1>r, <3>8 DEF L!LimitsHold, ReqRows
    <3>6. CASE L!EnforceSpendLimit(s)
      BY <1>r, <1>t, <1>x, <3>6 DEF L!EnforceSpendLimit, ReqRows
    <3> QED
      BY <1>4, <3>1, <3>2, <3>3, <3>4, <3>5, <3>6, <3>7, <3>8 DEF Requests, L!Handle
  <2> QED
    BY <1>m, <1>t, <2>1, <2>2
<1> QED
  BY <1>1, <1>2, <1>3, <1>4

(* What leaves the balance is booked, or owed.                                *)
LEMMA BookedNext == LimitTypes /\ Booked /\ [L!Next]_limitVars => Booked'
<1>a. SUFFICES ASSUME LimitTypes, Booked, [L!Next]_limitVars PROVE Booked'
  OBVIOUS
<1> DEFINE u == Amount(MonthUsd, Keys)
           o == Amount(Owed, Slots)
           v == Amount(MonthUsd', Keys)
           w == Amount(Owed', Slots)
<1>t. LimitTypes'
  BY <1>a, LimitNextTypes
<1>0. /\ IsFiniteSet(Keys) /\ IsFiniteSet(Slots) /\ MonthUsd \in [Keys -> Nat] /\ Owed \in [Slots -> Nat]
      /\ MonthUsd' \in [Keys -> Nat] /\ Owed' \in [Slots -> Nat]
      /\ u \in Nat /\ o \in Nat /\ v \in Nat /\ w \in Nat
  <2>1. MonthUsd' \in [Keys -> Nat] /\ Owed' \in [Slots -> Nat]
    BY <1>t DEF LimitTypes, MonthUsd, UsedRows, Owed, ReqRows
  <2>2. /\ IsFiniteSet(Keys) /\ IsFiniteSet(Slots) /\ MonthUsd \in [Keys -> Nat] /\ Owed \in [Slots -> Nat]
        /\ u \in Nat /\ o \in Nat
    BY <1>a, MoneyTyped
  <2>3. Keys \in SUBSET Keys /\ Slots \in SUBSET Slots
    OBVIOUS
  <2>4. v \in Nat /\ w \in Nat
    BY <2>1, <2>2, <2>3, AmountAdds
  <2> QED
    BY <2>1, <2>2, <2>4
<1>b. ASSUME Funds <= balance' + lost' + v + w PROVE Booked'
  BY <1>b DEF Booked, Amount, Units
<1>i. /\ Funds \in Nat /\ balance \in Nat /\ balance' \in Nat /\ lost \in Nat /\ lost' \in Nat
  <2>1. balance \in 0 .. Funds /\ balance' \in 0 .. Funds /\ Funds \in Nat
    BY <1>a, <1>t, LimitAssumption, Zenon DEF LimitTypes
  <2>2. lost \in Nat /\ lost' \in Nat
    BY <1>a, <1>t DEF LimitTypes
  <2> QED
    BY <2>1, <2>2
<1>j. Funds <= balance + lost + u + o
  BY <1>a DEF Booked
<1>1. ASSUME NEW s \in Slots, Requests(s) PROVE Booked'
  <2> DEFINE p == req[s].paid
             q == req'[s].paid
  <2>1. p \in Nat /\ q \in Nat /\ Owed[s] = p /\ Owed'[s] = q
    BY <1>0 DEF Owed
  <2>2. \A x \in Slots \ {s} : Owed'[x] = Owed[x]
    BY <1>1, <1>a, OthersStand DEF Owed
  <2>3. w + p = o + q
    <3>1. Amount(Owed', Slots) + Owed[s] = Amount(Owed, Slots) + Owed'[s]
      BY <1>0, <2>2, AmountChanges
    <3> QED
      BY <2>1, <3>1
  <2>4. CASE MonthUsd' = MonthUsd /\ balance + lost + req[s].paid <= balance' + lost' + req'[s].paid
    <3>1. v = u /\ balance + lost + p <= balance' + lost' + q
      BY <2>4
    <3>3. u \in Nat /\ o \in Nat /\ v \in Nat /\ w \in Nat /\ p \in Nat /\ q \in Nat
      BY <1>0, <2>1
    <3>2. Funds <= balance' + lost' + v + w
      <4>b. PICK b \in Nat : b = balance'
        BY <1>i
      <4>l. PICK l \in Nat : l = lost'
        BY <1>i
      <4>1. balance + lost + p <= b + l + q
        BY <3>1, <4>b, <4>l, Zenon
      <4>2. v = u /\ Funds \in Nat /\ balance \in Nat /\ lost \in Nat /\ b \in Nat /\ l \in Nat
        BY <1>i, <3>1, <4>b, <4>l
      <4>3. Funds <= b + l + v + w
        <5> HIDE DEF u, o, v, w, p, q
        <5> QED
          BY <1>j, <2>3, <3>3, <4>1, <4>2
      <4> QED
        BY <4>3, <4>b, <4>l, Zenon
    <3> QED
      BY <1>b, <3>2
  <2>5. CASE /\ balance' = balance /\ lost' = lost
             /\ req'[s].paid = 0 /\ req[s].paid <= req[s].cost
             /\ \E k \in Keys : MonthUsd' = [MonthUsd EXCEPT ![k] = MonthUsd[k] + req[s].cost]
    <3> DEFINE c == req[s].cost
    <3>1. PICK k \in Keys : MonthUsd' = [MonthUsd EXCEPT ![k] = MonthUsd[k] + c]
      BY <2>5
    <3>2. MonthUsd'[k] = MonthUsd[k] + c /\ \A x \in Keys \ {k} : MonthUsd'[x] = MonthUsd[x]
      BY <1>0, <3>1
    <3>3. v + MonthUsd[k] = u + MonthUsd'[k]
      BY <1>0, <3>2, AmountChanges
    <3>4. MonthUsd[k] \in Nat /\ c \in Nat
      <4>1. c \in 0 .. MaxCost /\ MonthUsd[k] \in Nat
        BY <1>0, <1>a DEF LimitTypes, ReqRows
      <4> QED
        BY <4>1
    <3>5. q = 0 /\ p <= c /\ balance' = balance /\ lost' = lost
      BY <2>5
    <3>6. v = u + c
      <4> HIDE DEF u, v, c
      <4> QED
        BY <1>0, <3>2, <3>3, <3>4
    <3>7. Funds <= balance' + lost' + v + w
      <4> HIDE DEF u, o, v, w, p, q, c
      <4> QED
        BY <1>0, <1>i, <1>j, <2>1, <2>3, <3>4, <3>5, <3>6
    <3> QED
      BY <1>b, <3>7
  <2> QED
    BY <1>1, <1>a, <2>4, <2>5, MoneyMoves
<1>2. CASE Writes \/ L!NextDay \/ UNCHANGED limitVars
  <2>1. UNCHANGED <<balance, lost, req>> /\ used'["month"] = used["month"]
    <3>1. CASE Writes
      BY <1>a, <3>1, WritesLeave
    <3>2. CASE L!NextDay
      BY <1>a, <3>2 DEF L!NextDay, LimitTypes, UsedRows
    <3>3. CASE UNCHANGED limitVars
      BY <3>3 DEF limitVars
    <3> QED
      BY <1>2, <3>1, <3>2, <3>3
  <2>2. MonthUsd' = MonthUsd /\ Owed' = Owed
    BY <2>1 DEF MonthUsd, Owed
  <2>3. v = u /\ w = o /\ balance' = balance /\ lost' = lost
    BY <2>1, <2>2
  <2>4. Funds <= balance' + lost' + v + w
    BY <1>j, <2>3
  <2> QED
    BY <1>b, <2>4
<1> QED
  BY <1>1, <1>2, <1>a, LimitSteps

(* The limit of the user counts the month's rows of every key.                *)
LEMMA UserSpent == LimitTypes => L!Usd("user", "month") = Amount(MonthUsd, Keys)
<1> SUFFICES ASSUME LimitTypes PROVE L!Usd("user", "month") = Amount(MonthUsd, Keys)
  OBVIOUS
<1>1. L!Counting("user") = Keys
  BY DEF L!Counting
<1>2. IsFiniteSet(L!Counting("user")) /\ MonthUsd \in [L!Counting("user") -> Nat]
      /\ \A k \in L!Counting("user") : used["month"][k].usd = MonthUsd[k]
  BY <1>1, LimitAssumption, Zenon DEF LimitTypes, MonthUsd, UsedRows
<1>3. L!Usd("user", "month") = Amount(MonthUsd, L!Counting("user"))
  BY <1>2, UsdIsAmount
<1> QED
  BY <1>1, <1>3

-----------------------------------------------------------------------------
(* The user's limit of the month counts.                                      *)
Watched == limit["user"].status = "active" /\ limit["user"].month # L!NoLimit

(* The requests that the user's own limit will not hold any more, until they  *)
(* are recorded: it let them through, or is not the one that they read.       *)
Cleared == {s \in Slots :
              \/ req[s].stage \in {"group", "rate", "flying"} \cup Settled
              \/ /\ req[s].stage \in {"open", "month"}
                 /\ "user" \notin req[s].todo \/ req[s].seen["user"] # limit["user"]}

(* The limit, or what was used when it was written.                           *)
Top == IF since > limit["user"].month THEN since ELSE limit["user"].month

(* What is recorded, and what those requests may still record, stay below the *)
(* limit and the cost of one request for each slot.                           *)
Admitted ==
  Watched => Amount(MonthUsd, Keys) + Cardinality(Cleared) * MaxCost <= Top + Cardinality(Slots) * MaxCost

(* A request is cleared while the month's use is within the limit; one that is*)
(* recorded was cleared.                                                      *)
LEMMA ClearedMoves ==
  ASSUME LimitTypes, NEW s \in Slots, Requests(s)
  PROVE  \/ s \notin Cleared'
         \/ s \in Cleared
         \/ ~ Watched
         \/ Amount(MonthUsd, Keys) <= limit["user"].month
<1>r. /\ req[s] \in ReqRows /\ req \in [Slots -> ReqRows]
      /\ L!Refuse(s) => req'[s] = L!Idle /\ req'[s].stage = "idle"
      /\ \A x : L!To(s, x) => /\ req'[s].stage = x /\ req'[s].todo = req[s].todo
                              /\ req'[s].seen = req[s].seen
  BY RequestRow
<1>l. limit' = limit
  <2>1. TablesStand
    BY RequestsMove DEF Requests
  <2> QED
    BY <2>1 DEF TablesStand
<1>d. s \in Cleared <=> \/ req[s].stage \in {"group", "rate", "flying", "notice", "notify", "record"}
                        \/ /\ req[s].stage \in {"open", "month"}
                           /\ "user" \notin req[s].todo \/ req[s].seen["user"] # limit["user"]
  BY DEF Cleared, Settled
<1>e. s \in Cleared' <=> \/ req'[s].stage \in {"group", "rate", "flying", "notice", "notify", "record"}
                         \/ /\ req'[s].stage \in {"open", "month"}
                            /\ "user" \notin req'[s].todo \/ req'[s].seen["user"] # limit["user"]
  BY <1>l DEF Cleared, Settled
<1>t. limit \in [L!Targets -> LimitRows] /\ "user" \in L!Targets
  BY DEF LimitTypes, L!Targets
<1> HIDE DEF Cleared
<1>1. CASE \E k \in Keys, a \in Asks : L!Arrive(s, k, a)
  BY <1>1, <1>r, <1>e DEF L!Arrive, ReqRows, L!Idle
<1>2. CASE L!EvaluateRisk(s)
  BY <1>2, <1>r, <1>e DEF L!EvaluateRisk
<1>3. CASE L!ResolvePolicy(s)
  <2>1. req'[s].stage \in {"idle", "limits"}
    BY <1>3, <1>r DEF L!ResolvePolicy, ReqRows
  <2> QED
    BY <1>e, <2>1
<1>4. CASE L!EnforceSpendLimits(s)
  <2>1. /\ req'[s].stage = "open" /\ req'[s].todo = {t \in {"user", req[s].key} : limit[t].status = "active"}
        /\ req'[s].seen = limit
    BY <1>4, <1>r DEF L!EnforceSpendLimits, ReqRows
  <2> QED
    BY <1>e, <2>1 DEF Watched
<1>5. CASE L!SpendOfTheDay(s)
  <2>1. req'[s].stage = "month" /\ req'[s].todo = req[s].todo /\ req'[s].seen = req[s].seen
    BY <1>5, <1>r DEF L!SpendOfTheDay, ReqRows
  <2>2. req[s].stage = "open"
    BY <1>5 DEF L!SpendOfTheDay
  <2> QED
    BY <1>d, <1>e, <2>1, <2>2
<1>6. CASE L!EnforceSpendLimit(s)
  <2> DEFINE t == req[s].verdict
  <2>0. req[s].stage = "month"
    BY <1>6 DEF L!EnforceSpendLimit
  <2>1. CASE L!Refused(t, s)
    BY <1>6, <1>r, <1>e, <2>1 DEF L!EnforceSpendLimit
  <2>2. CASE ~ L!Refused(t, s)
    <3>1. req'[s].stage = "open" /\ req'[s].todo = req[s].todo \ {t} /\ req'[s].seen = req[s].seen
      BY <1>6, <1>r, <2>2 DEF L!EnforceSpendLimit, ReqRows
    <3>2. CASE t # "user" \/ req[s].seen["user"] # limit["user"]
      BY <1>d, <1>e, <2>0, <3>1, <3>2
    <3>3. CASE t = "user" /\ req[s].seen["user"] = limit["user"]
      <4>1. Watched => ~ (L!Usd("user", "month") + req[s].reserve > limit["user"].month)
        BY <2>2, <3>3 DEF L!Refused, L!Over, Watched
      <4>2. limit["user"].month \in Int /\ req[s].reserve \in Nat
        BY <1>r, <1>t, LimitRowsTyped DEF ReqRows
      <4>3. Amount(MonthUsd, Keys) \in Nat /\ L!Usd("user", "month") = Amount(MonthUsd, Keys)
        BY MoneyTyped, UserSpent
      <4> QED
        BY <4>1, <4>2, <4>3
    <3> QED
      BY <3>2, <3>3
  <2> QED
    BY <2>1, <2>2
<1>7. CASE L!LimitsHold(s)
  BY <1>7, <1>d DEF L!LimitsHold
<1>8. CASE L!GroupMonth(s)
  BY <1>8, <1>d DEF L!GroupMonth
<1>9. CASE L!GroupRate(s)
  BY <1>9, <1>d, Zenon DEF L!GroupRate
<1>10. CASE L!Settle(s) \/ L!EndUnrecorded(s)
  BY <1>10, <1>d, Zenon DEF L!Settle, L!EndUnrecorded
<1>11. CASE L!LowBalance(s) \/ L!Notify(s) \/ L!Record(s)
  BY <1>11, <1>d DEF L!LowBalance, L!Notify, L!Record
<1>12. CASE L!HangUp(s)
  BY <1>12, <1>r, <1>e DEF L!HangUp
<1> QED
  BY <1>1, <1>2, <1>3, <1>4, <1>5, <1>6, <1>7, <1>8, <1>9, <1>10, <1>11, <1>12 DEF Requests, L!Handle

(* A request more costs at most MaxCost more.                                 *)
LEMMA Multiples ==
  \A n \in Nat : n * MaxCost \in Nat /\ (n >= 1 => (n - 1) * MaxCost = n * MaxCost - MaxCost)
<1>1. MaxCost \in Nat
  BY LimitAssumption, Zenon
<1> QED
  BY <1>1

(* More requests cost no less.                                                *)
LEMMA MultiplesGrow == \A m, n \in Nat : m <= n => m * MaxCost <= n * MaxCost
<1>1. MaxCost \in Nat
  BY LimitAssumption, Zenon
<1> QED
  BY <1>1

(* The sides of the bound are numbers, and the requests that are cleared not  *)
(* more than the slots.                                                       *)
LEMMA BoundTyped ==
  ASSUME LimitTypes
  PROVE  /\ Top \in Int /\ since \in Int /\ limit["user"].month \in Int
         /\ since <= Top /\ limit["user"].month <= Top
         /\ Cleared \in SUBSET Slots /\ Cardinality(Cleared) \in Nat /\ Cardinality(Slots) \in Nat
         /\ Cardinality(Cleared) * MaxCost \in Nat /\ Cardinality(Slots) * MaxCost \in Nat
         /\ Cardinality(Cleared) * MaxCost <= Cardinality(Slots) * MaxCost
<1>1. limit["user"].month \in Int /\ since \in Int
  <2>1. limit["user"].month \in Int /\ since \in Nat
    BY LimitRowsTyped DEF LimitTypes, L!Targets
  <2> QED
    BY <2>1
<1>2. Cleared \in SUBSET Slots
  BY DEF Cleared
<1>3. Cardinality(Cleared) \in 0 .. Cardinality(Slots) /\ Cardinality(Slots) \in Nat
  BY <1>2, SlotCounts
<1>4. /\ Cardinality(Cleared) * MaxCost \in Nat /\ Cardinality(Slots) * MaxCost \in Nat
      /\ Cardinality(Cleared) * MaxCost <= Cardinality(Slots) * MaxCost
  BY <1>3, Multiples, MultiplesGrow
<1>5. Top \in Int /\ since <= Top /\ limit["user"].month <= Top
  BY <1>1 DEF Top
<1> QED
  BY <1>1, <1>2, <1>3, <1>4, <1>5

(* While the month's use is within the limit, or what was used when it was    *)
(* written, the bound holds whoever is cleared.                               *)
LEMMA WithinIsBelow ==
  ASSUME NEW X \in SUBSET Slots, NEW u \in Nat, NEW t \in Int, u <= t
  PROVE  u + Cardinality(X) * MaxCost <= t + Cardinality(Slots) * MaxCost
<1> DEFINE c == Cardinality(X) * MaxCost
           d == Cardinality(Slots) * MaxCost
<1>1. Cardinality(X) \in 0 .. Cardinality(Slots) /\ Cardinality(Slots) \in Nat
  BY SlotCounts
<1>2. c \in Nat /\ d \in Nat /\ c <= d
  BY <1>1, Multiples, MultiplesGrow
<1>3. u + c <= t + d
  <2> HIDE DEF c, d
  <2> QED
    BY <1>2
<1> QED
  BY <1>3

(* Nothing is used when it begins.                                            *)
LEMMA AdmittedInit == L!Init => Admitted
<1> SUFFICES ASSUME L!Init PROVE Admitted
  OBVIOUS
<1>1. LimitTypes
  BY LimitInitTypes
<1>2. Amount(MonthUsd, Keys) = 0
  <2>1. \A k \in Keys : MonthUsd[k] = 0
    BY DEF MonthUsd, L!Init
  <2> QED
    BY <2>1, NoAmount
<1>3. since = 0 /\ since <= Top /\ Top \in Int /\ Cleared \in SUBSET Slots
  BY <1>1, BoundTyped DEF L!Init
<1>4. 0 \in Nat /\ 0 <= Top
  BY <1>3
<1>5. 0 + Cardinality(Cleared) * MaxCost <= Top + Cardinality(Slots) * MaxCost
  BY <1>3, <1>4, WithinIsBelow
<1> QED
  BY <1>2, <1>5 DEF Admitted

(* A request that is cleared, recorded or refused keeps the bound.            *)
LEMMA AdmittedMoves ==
  ASSUME LimitTypes, LimitTypes', Admitted, NEW s \in Slots, Requests(s)
  PROVE  Admitted'
<1> SUFFICES ASSUME Watched' PROVE Admitted'
  BY DEF Admitted
<1>1. Watched /\ Top' = Top
  <2>1. TablesStand
    BY RequestsMove DEF Requests
  <2> QED
    BY <2>1 DEF TablesStand, Watched, Top
<1> DEFINE u == Amount(MonthUsd, Keys)
           v == Amount(MonthUsd', Keys)
           n == Cardinality(Cleared)
           c == Cardinality(Cleared) * MaxCost
           e == Cardinality(Cleared') * MaxCost
           d == Cardinality(Slots) * MaxCost
<1>t. /\ u \in Nat /\ n \in Nat /\ c \in Nat /\ d \in Nat /\ Top \in Int /\ MaxCost \in Nat
      /\ Cleared \in SUBSET Slots /\ Cleared' \in SUBSET Slots
      /\ IsFiniteSet(Keys) /\ MonthUsd \in [Keys -> Nat]
  <2>1. Cleared' \in SUBSET Slots /\ MaxCost \in Nat
    BY LimitAssumption, Zenon DEF Cleared
  <2> QED
    BY <2>1, MoneyTyped, BoundTyped
<1>a. u + c <= Top + d
  BY <1>1 DEF Admitted
<1>g. Admitted' <=> v + e <= Top + d
  BY <1>1 DEF Admitted, Amount, Units
<1>o. \A x \in Slots : x # s => (x \in Cleared' <=> x \in Cleared)
  <2>1. TablesStand
    BY RequestsMove DEF Requests
  <2>2. limit' = limit /\ \A x \in Slots : x # s => req'[x] = req[x]
    BY <2>1, OthersStand DEF TablesStand
  <2> QED
    BY <2>2 DEF Cleared
<1>2. CASE MonthUsd' = MonthUsd
  <2>v. v = u
    BY <1>2
  <2>1. CASE s \notin Cleared' \/ s \in Cleared
    <3>1. Cleared' \subseteq Cleared
      BY <1>o, <1>t, <2>1
    <3>2. Cardinality(Cleared') \in Nat /\ Cardinality(Cleared') <= n
      <4>1. CASE Cleared' = Cleared
        BY <1>t, <4>1
      <4>2. CASE Cleared' = Cleared \ {s} /\ s \in Cleared
        <5>1. Cardinality(Cleared') = n - 1 /\ n >= 1
          BY <1>t, <4>2, SlotCounts
        <5> HIDE DEF n
        <5> QED
          BY <1>t, <5>1
      <4> QED
        BY <1>o, <1>t, <3>1, <4>1, <4>2
    <3>3. e <= c /\ e \in Nat
      BY <1>t, <3>2, Multiples, MultiplesGrow
    <3> HIDE DEF u, v, c, e, d
    <3> QED
      BY <1>t, <1>a, <1>g, <2>v, <3>3
  <2>2. CASE u <= limit["user"].month
    <3>1. u \in Nat /\ u <= Top
      <4>1. limit["user"].month <= Top /\ limit["user"].month \in Int
        BY BoundTyped
      <4> HIDE DEF u
      <4> QED
        BY <1>t, <2>2, <4>1
    <3>2. u + e <= Top + d
      <4> HIDE DEF u
      <4> QED
        BY <1>t, <3>1, WithinIsBelow
    <3> QED
      BY <1>g, <2>v, <3>2
  <2> QED
    BY <1>1, <2>1, <2>2, ClearedMoves
<1>3. CASE /\ req[s].stage = "record" /\ req'[s].stage = "idle"
           /\ \E k \in Keys : MonthUsd' = [MonthUsd EXCEPT ![k] = MonthUsd[k] + req[s].cost]
  <2> DEFINE w == req[s].cost
  <2>1. PICK k \in Keys : MonthUsd' = [MonthUsd EXCEPT ![k] = MonthUsd[k] + w]
    BY <1>3
  <2>2. w \in Nat /\ w <= MaxCost /\ MonthUsd[k] \in Nat
    <3>1. w \in 0 .. MaxCost /\ MonthUsd[k] \in Nat
      BY <1>t DEF LimitTypes, ReqRows
    <3> QED
      BY <1>t, <3>1
  <2>3. v = u + w
    <3>1. /\ MonthUsd' \in [Keys -> Nat] /\ MonthUsd'[k] = MonthUsd[k] + w
          /\ \A x \in Keys \ {k} : MonthUsd'[x] = MonthUsd[x]
      <4> HIDE DEF w
      <4> QED
        BY <1>t, <2>1, <2>2
    <3>2. v \in Nat /\ v + MonthUsd[k] = u + MonthUsd'[k]
      BY <1>t, <3>1, AmountChanges
    <3> HIDE DEF u, v, w
    <3> QED
      BY <1>t, <2>2, <3>1, <3>2
  <2>4. s \in Cleared /\ s \notin Cleared'
    BY <1>3 DEF Cleared, Settled
  <2>5. Cleared' = Cleared \ {s}
    BY <1>o, <1>t, <2>4
  <2>6. Cardinality(Cleared') = n - 1 /\ n >= 1
    BY <1>t, <2>4, <2>5, SlotCounts
  <2>7. e = c - MaxCost
    BY <1>t, <2>6, Multiples
  <2> HIDE DEF u, v, c, e, d, w
  <2> QED
    BY <1>t, <1>a, <1>g, <2>2, <2>3, <2>7
<1> QED
  BY <1>2, <1>3, MoneyMoves

(* A new limit starts from what was used when it was written.                 *)
LEMMA AdmittedNext == LimitTypes /\ Admitted /\ [L!Next]_limitVars => Admitted'
<1> SUFFICES ASSUME LimitTypes, Admitted, [L!Next]_limitVars PROVE Admitted'
  OBVIOUS
<1>t. LimitTypes'
  BY LimitNextTypes
<1>1. ASSUME NEW s \in Slots, Requests(s) PROVE Admitted'
  BY <1>1, <1>t, AdmittedMoves
<1>2. ASSUME used'["month"] = used["month"], UNCHANGED <<req, since>>, limit'["user"] = limit["user"]
      PROVE  Admitted'
  <2>1. MonthUsd' = MonthUsd /\ Cleared' = Cleared /\ Watched' = Watched /\ Top' = Top
    BY <1>2 DEF MonthUsd, Cleared, Watched, Top
  <2> QED
    BY <2>1 DEF Admitted, Amount, Units
<1>3. CASE L!NextDay \/ UNCHANGED limitVars
  <2>1. used'["month"] = used["month"] /\ UNCHANGED <<req, since, limit>>
    <3>1. CASE L!NextDay
      BY <3>1 DEF L!NextDay, LimitTypes, UsedRows
    <3>2. CASE UNCHANGED limitVars
      BY <3>2 DEF limitVars
    <3> QED
      BY <1>3, <3>1, <3>2
  <2> QED
    BY <1>2, <2>1
<1>4. CASE Writes
  <2>1. /\ UNCHANGED <<used, req>>
        /\ \/ UNCHANGED <<limit, since>>
           \/ \E t \in L!Targets, o \in Limits :
                  /\ limit' = [limit EXCEPT ![t] = o]
                  /\ since' = IF t = "user" THEN L!Usd("user", "month") ELSE since
    BY <1>4, WritesLeave
  <2>2. \/ UNCHANGED since /\ limit'["user"] = limit["user"]
        \/ since' = L!Usd("user", "month")
    BY <2>1 DEF LimitTypes, L!Targets
  <2>3. CASE since' = L!Usd("user", "month")
    <3>1. MonthUsd' = MonthUsd
      BY <2>1 DEF MonthUsd
    <3>2. Amount(MonthUsd, Keys)' = Amount(MonthUsd, Keys)
      BY <3>1 DEF Amount, Units
    <3> DEFINE u == Amount(MonthUsd, Keys)
               top == IF since' > limit'["user"].month THEN since' ELSE limit'["user"].month
    <3>3. u \in Nat /\ u = since'
      BY <2>3, UserSpent, MoneyTyped
    <3>4. limit'["user"].month \in Int
      BY <1>t, LimitRowsTyped DEF LimitTypes, L!Targets
    <3>5. Cleared' \in SUBSET Slots
      BY DEF Cleared
    <3>6. u + Cardinality(Cleared') * MaxCost <= top + Cardinality(Slots) * MaxCost
      <4> HIDE DEF u
      <4>1. top \in Int /\ u <= top
        BY <3>3, <3>4
      <4> HIDE DEF top
      <4> QED
        BY <3>3, <3>5, <4>1, WithinIsBelow
    <3> QED
      BY <3>2, <3>6 DEF Admitted, Top
  <2> QED
    BY <1>2, <2>1, <2>2, <2>3
<1> QED
  BY <1>1, <1>3, <1>4, LimitSteps

(* What is owed is at most the highest cost for each request that is cleared. *)
LEMMA OwedBounded == LimitTypes => Amount(Owed, Slots) <= Cardinality(Cleared) * MaxCost
<1> SUFFICES ASSUME LimitTypes PROVE Amount(Owed, Slots) <= Cardinality(Cleared) * MaxCost
  OBVIOUS
<1>1. IsFiniteSet(Cleared) /\ MaxCost \in Nat
  BY LimitAssumption, FS_Subset, Zenon DEF Cleared
<1>2. IsFiniteSet(1 .. MaxCost) /\ Cardinality(1 .. MaxCost) = MaxCost
  BY <1>1, FS_Interval
<1>3. /\ IsFiniteSet(Cleared \X (1 .. MaxCost))
      /\ Cardinality(Cleared \X (1 .. MaxCost)) = Cardinality(Cleared) * MaxCost
  BY <1>1, <1>2, FS_Product
<1>4. Units(Owed, Slots) \subseteq Cleared \X (1 .. MaxCost)
  <2> SUFFICES ASSUME NEW x \in Slots, NEW i \in Nat, 1 <= i, i <= req[x].paid
               PROVE  x \in Cleared /\ i \in 1 .. MaxCost
    BY DEF Units, Owed
  <2>1. req[x].paid \in 0 .. MaxCost /\ (req[x].stage \notin Settled => req[x].paid = 0)
    BY DEF LimitTypes, ReqRows
  <2>2. req[x].stage \in Settled /\ i \in 1 .. MaxCost
    BY <1>1, <2>1
  <2> QED
    BY <2>2 DEF Cleared
<1>5. Cardinality(Units(Owed, Slots)) <= Cardinality(Cleared \X (1 .. MaxCost))
  BY <1>3, <1>4, FS_Subset
<1> QED
  BY <1>3, <1>5 DEF Amount

(* The user's limit of the month is overdrawn by no more than what is in      *)
(* flight together costs.                                                     *)
LEMMA AdmittedIsConcurrency == LimitTypes /\ Booked /\ Admitted => L!OvershootIsConcurrency
<1> SUFFICES ASSUME LimitTypes, Booked, Admitted, Watched
             PROVE  Funds - balance - lost <= Top + Cardinality(Slots) * MaxCost
  BY SameLimitCardinality DEF L!OvershootIsConcurrency, Watched, Top
<1> DEFINE u == Amount(MonthUsd, Keys)
           o == Amount(Owed, Slots)
           c == Cardinality(Cleared) * MaxCost
           d == Cardinality(Slots) * MaxCost
<1>1. u \in Nat /\ o \in Nat /\ c \in Nat /\ d \in Nat /\ Top \in Int
  BY MoneyTyped, BoundTyped
<1>2. Funds \in Nat /\ balance \in Int /\ lost \in Nat
  <2>1. Funds \in Nat /\ balance \in 0 .. Funds /\ lost \in Nat
    BY LimitAssumption, Zenon DEF LimitTypes
  <2> QED
    BY <2>1
<1>3. Funds <= balance + lost + u + o /\ u + c <= Top + d /\ o <= c
  BY OwedBounded DEF Booked, Admitted
<1> HIDE DEF u, o, c, d
<1>4. Funds - balance - lost <= Top + d
  BY <1>1, <1>2, <1>3
<1> QED
  BY <1>4 DEF d

-----------------------------------------------------------------------------
(* Policies: one group is in force, and one row of it answers for an endpoint. *)
LEMMA OneInForce ==
  ASSUME PolicyTables, NEW g \in L!InForce, NEW h \in L!InForce
  PROVE  g = h /\ g \in Groups
<1> DEFINE mine == {i \in DOMAIN joined : group[joined[i]].status = "active"}
           p(i) == group[joined[i]].priority
<1>1. PICK i \in mine : g = joined[i] /\ \A k \in mine : p(i) < p(k) \/ (p(i) = p(k) /\ i <= k)
  BY DEF L!InForce
<1>2. PICK j \in mine : h = joined[j] /\ \A k \in mine : p(j) < p(k) \/ (p(j) = p(k) /\ j <= k)
  BY DEF L!InForce
<1>3. \A k \in mine : p(k) \in Int /\ k \in Nat /\ joined[k] \in Groups
  <2> SUFFICES ASSUME NEW k \in mine PROVE p(k) \in Int /\ k \in Nat /\ joined[k] \in Groups
    OBVIOUS
  <2>1. k \in Nat /\ joined[k] \in Groups
    BY DEF PolicyTables
  <2>2. group[joined[k]] \in GroupOrders
    BY <2>1 DEF PolicyTables
  <2> QED
    BY <2>1, <2>2, RowFacts, Zenon
<1> HIDE DEF mine, p
<1>4. i = j
  BY <1>1, <1>2, <1>3
<1> QED
  BY <1>1, <1>2, <1>3, <1>4

(* Of the rows that speak of an endpoint, one is first.                       *)
LEMMA OneFirst ==
  ASSUME PolicyTables, NEW g, NEW e \in L!Endpoints,
         NEW v \in L!First(L!Speaking(g, e), e), NEW w \in L!First(L!Speaking(g, e), e)
  PROVE  v = w
<1>1. \A x \in L!Speaking(g, e) : /\ x \in rows /\ x.group = g /\ x.model = "m"
                                  /\ x.endpoint = "" \/ x.endpoint = e
  BY Zenon DEF L!Speaking, L!Endpoints
<1>2. v \in L!Speaking(g, e) /\ w \in L!Speaking(g, e)
  BY DEF L!First
<1>3. v.endpoint = w.endpoint
  BY <1>1, <1>2, Zenon DEF L!First
<1> QED
  BY <1>1, <1>2, <1>3, Zenon DEF PolicyTables, L!OneRowEach

(* A request of an endpoint meets one policy.                                 *)
LEMMA OnePolicy ==
  ASSUME PolicyTables, NEW e \in L!Endpoints, NEW p \in L!Policies(e), NEW q \in L!Policies(e)
  PROVE  p = q
<1>1. CASE L!InForce = {}
  BY <1>1 DEF L!Policies
<1>2. CASE L!InForce # {}
  <2>1. PICK g \in L!InForce : TRUE
    BY <1>2
  <2>2. L!InForce = {g}
    BY <2>1, OneInForce
  <2>3. CASE L!Speaking(g, e) = {}
    BY <1>2, <2>2, <2>3 DEF L!Policies
  <2>4. CASE L!Speaking(g, e) # {}
    <3>1. L!Policies(e) = {L!Policy(g, w) : w \in L!First(L!Speaking(g, e), e)}
      BY <1>2, <2>2, <2>4 DEF L!Policies
    <3> QED
      BY <3>1, OneFirst
  <2> QED
    BY <2>3, <2>4
<1> QED
  BY <1>1, <1>2

(* The stages of a request that has its policy.                               *)
Resolved == {"limits", "open", "month", "group", "rate", "flying"}

(* While nobody writes, a request on its way follows the policy in force, and *)
(* no more requests pass in a minute than its rate.                           *)
RateKept ==
  writes = 0 =>
    /\ \A s \in Slots : req[s].stage \in Resolved => req[s].policy \in L!Policies(req[s].ask.endpoint)
    /\ L!RateHeld

(* No request is on its way when it begins, and the counters are at zero.     *)
LEMMA RateInit == L!Init => RateKept
<1> SUFFICES ASSUME L!Init PROVE RateKept
  OBVIOUS
<1>1. \A s \in Slots : req[s].stage \notin Resolved
  BY DEF L!Init, L!Idle, Resolved
<1>2. LimitTypes
  BY LimitInitTypes
<1>3. L!RateHeld
  <2> SUFFICES ASSUME NEW e \in L!Endpoints, NEW p \in L!Policies(e), p.group # "none", p.rate > 0
               PROVE  passed[p.group][e] <= p.rate
    BY DEF L!RateHeld
  <2>1. p.group \in Groups /\ p.rate \in Int
    <3>1. p \in PolicyRows
      BY <1>2, PoliciesTyped DEF LimitTypes
    <3> QED
      BY <3>1, Zenon DEF PolicyRows
  <2>2. passed[p.group][e] = 0
    BY <2>1 DEF L!Init, L!Fresh
  <2> QED
    BY <2>1, <2>2
<1> QED
  BY <1>1, <1>3 DEF RateKept

(* The policies depend on the tables alone.                                   *)
LEMMA SamePolicies ==
  ASSUME UNCHANGED <<group, joined, rows>>
  PROVE  \A e : L!Policies(e)' = L!Policies(e)
BY DEF L!Policies, L!InForce, L!Speaking, L!First, L!Policy, L!EffectiveRate, L!Allows, L!NoRow, L!NoPolicy,
       L!NoLimit

(* A policy is drawn from those in force, and a counter that let a request    *)
(* pass was below the rate.                                                   *)
LEMMA PolicyMoves ==
  ASSUME LimitTypes, NEW s \in Slots, Requests(s)
  PROVE  /\ req'[s].stage \in Resolved =>
              /\ req'[s].ask = req[s].ask
              /\ \/ req[s].stage \in Resolved /\ req'[s].policy = req[s].policy
                 \/ req'[s].policy \in L!Policies(req[s].ask.endpoint)
         /\ \/ passed' = passed
            \/ /\ req[s].stage = "rate"
               /\ req[s].policy.group # "none"
               /\ rate[req[s].policy.group][req[s].ask.endpoint] + 1 <= req[s].policy.rate
               /\ passed' = [passed EXCEPT ![req[s].policy.group][req[s].ask.endpoint] = @ + 1]
<1>r. /\ req[s] \in ReqRows /\ req \in [Slots -> ReqRows]
      /\ L!Refuse(s) => req'[s] = L!Idle /\ req'[s].stage = "idle"
      /\ \A x : L!To(s, x) => /\ req'[s].stage = x /\ req'[s].policy = req[s].policy
                              /\ req'[s].ask = req[s].ask
      /\ \A x : L!Tell(s, x) => req'[s].stage = x
  BY RequestRow
<1>d. /\ "idle" \notin Resolved /\ "policy" \notin Resolved /\ "risk" \notin Resolved
      /\ "notice" \notin Resolved /\ "notify" \notin Resolved /\ "record" \notin Resolved
      /\ {"limits", "open", "month", "group", "rate", "flying"} \subseteq Resolved
  BY DEF Resolved
<1>1. CASE \E k \in Keys, a \in Asks : L!Arrive(s, k, a)
  BY <1>1, <1>r, <1>d DEF L!Arrive, ReqRows, L!Idle
<1>2. CASE L!EvaluateRisk(s)
  BY <1>2, <1>r, <1>d DEF L!EvaluateRisk, L!Books
<1>3. CASE L!ResolvePolicy(s)
  <2>1. PICK p \in L!Policies(req[s].ask.endpoint) :
           \/ L!Refuse(s)
           \/ req' = [req EXCEPT ![s].stage = "limits", ![s].policy = p,
                                 ![s].reserve = L!Reserve(p, req[s].ask)]
    BY <1>3, Zenon DEF L!ResolvePolicy
  <2>2. L!Refuse(s) \/ (req'[s].policy = p /\ req'[s].ask = req[s].ask)
    <3> SUFFICES ASSUME ~ L!Refuse(s) PROVE req'[s].policy = p /\ req'[s].ask = req[s].ask
      OBVIOUS
    <3>1. req'[s] = [req[s] EXCEPT !.stage = "limits", !.policy = p, !.reserve = L!Reserve(p, req[s].ask)]
      BY <1>r, <2>1
    <3> QED
      BY <1>r, <3>1 DEF ReqRows
  <2>3. passed' = passed
    BY <1>3 DEF L!ResolvePolicy, L!Books
  <2> QED
    BY <1>r, <1>d, <2>2, <2>3
<1>4. CASE L!EnforceSpendLimits(s)
  <2>1. req'[s].policy = req[s].policy /\ req'[s].ask = req[s].ask /\ req[s].stage = "limits" /\ passed' = passed
    BY <1>4, <1>r DEF L!EnforceSpendLimits, ReqRows, L!Books
  <2> QED
    BY <1>d, <2>1
<1>5. CASE L!SpendOfTheDay(s)
  <2>1. req'[s].policy = req[s].policy /\ req'[s].ask = req[s].ask /\ req[s].stage = "open" /\ passed' = passed
    BY <1>5, <1>r DEF L!SpendOfTheDay, ReqRows, L!Books
  <2> QED
    BY <1>d, <2>1
<1>6. CASE L!EnforceSpendLimit(s)
  <2>1. req[s].stage = "month" /\ passed' = passed
    BY <1>6 DEF L!EnforceSpendLimit, L!Books
  <2>2. L!Refuse(s) \/ (req'[s].policy = req[s].policy /\ req'[s].ask = req[s].ask)
    <3>1. CASE L!Refused(req[s].verdict, s)
      BY <1>6, <1>r, <3>1 DEF L!EnforceSpendLimit
    <3>2. CASE ~ L!Refused(req[s].verdict, s)
      BY <1>6, <1>r, <3>2 DEF L!EnforceSpendLimit, ReqRows
    <3> QED
      BY <3>1, <3>2
  <2> QED
    BY <1>r, <1>d, <2>1, <2>2
<1>7. CASE L!LimitsHold(s)
  <2>1. req'[s].policy = req[s].policy /\ req'[s].ask = req[s].ask /\ req[s].stage = "open" /\ passed' = passed
    BY <1>7, <1>r DEF L!LimitsHold, ReqRows, L!Books
  <2> QED
    BY <1>d, <2>1
<1>8. CASE L!GroupMonth(s)
  BY <1>8, <1>r, <1>d DEF L!GroupMonth, L!Books
<1>9. CASE L!GroupRate(s)
  <2>1. req[s].stage = "rate" /\ (L!Refuse(s) \/ L!To(s, "flying"))
    BY <1>9 DEF L!GroupRate
  <2>2. \/ passed' = passed
        \/ /\ req[s].policy.group # "none"
           /\ ~ (rate[req[s].policy.group][req[s].ask.endpoint] + 1 > req[s].policy.rate)
           /\ passed' = [passed EXCEPT ![req[s].policy.group][req[s].ask.endpoint] = @ + 1]
    BY <1>9 DEF L!GroupRate, L!Counted
  <2>3. req[s].policy.group # "none" =>
          rate[req[s].policy.group][req[s].ask.endpoint] \in Int /\ req[s].policy.rate \in Int
    <3>1. req[s].policy \in PolicyRows /\ req[s].ask \in Asks
      BY <1>r, <2>1 DEF ReqRows, LimitTypes
    <3>2. /\ req[s].ask.endpoint \in L!Endpoints /\ req[s].policy.rate \in Int
          /\ req[s].policy.group \in Groups \cup {"none"}
      BY <3>1, AsksTyped, Zenon DEF PolicyRows
    <3>3. rate \in [Groups -> [L!Endpoints -> Nat]]
      BY DEF LimitTypes
    <3> QED
      BY <3>2, <3>3
  <2> QED
    BY <1>r, <1>d, <2>1, <2>2, <2>3
<1>10. CASE L!Settle(s)
  <2>1. req'[s].stage \in {"record", "notice"}
    BY <1>10, <1>r DEF L!Settle, ReqRows
  <2> QED
    BY <1>10, <1>d, <2>1 DEF L!Settle
<1>11. CASE L!EndUnrecorded(s)
  BY <1>11, <1>r, <1>d DEF L!EndUnrecorded
<1>12. CASE L!LowBalance(s)
  BY <1>12, <1>r, <1>d DEF L!LowBalance, L!Books
<1>13. CASE L!Notify(s)
  BY <1>13, <1>r, <1>d DEF L!Notify
<1>14. CASE L!Record(s)
  BY <1>14, <1>r, <1>d DEF L!Record
<1>15. CASE L!HangUp(s)
  BY <1>15, <1>r, <1>d DEF L!HangUp, L!Books
<1> QED
  BY <1>1, <1>2, <1>3, <1>4, <1>5, <1>6, <1>7, <1>8, <1>9, <1>10, <1>11, <1>12, <1>13, <1>14, <1>15,
     Zenon DEF Requests, L!Handle

(* A counter that lets a request pass was below the rate of the one policy in *)
(* force, and has counted everything that passed.                             *)
LEMMA RateNext == LimitTypes /\ RateKept /\ [L!Next]_limitVars => RateKept'
<1> SUFFICES ASSUME LimitTypes, RateKept, [L!Next]_limitVars, writes' = 0
             PROVE  /\ (\A s \in Slots : req[s].stage \in Resolved => req[s].policy \in L!Policies(req[s].ask.endpoint))'
                    /\ L!RateHeld'
  BY DEF RateKept
<1>1. ASSUME NEW s \in Slots, Requests(s)
      PROVE  /\ (\A x \in Slots : req[x].stage \in Resolved => req[x].policy \in L!Policies(req[x].ask.endpoint))'
             /\ L!RateHeld'
  <2>1. TablesStand
    BY <1>1, RequestsMove DEF Requests
  <2>2. /\ writes = 0
        /\ \A e : L!Policies(e)' = L!Policies(e)
    BY <2>1, SamePolicies DEF TablesStand
  <2>3. /\ \A x \in Slots : req[x].stage \in Resolved => req[x].policy \in L!Policies(req[x].ask.endpoint)
        /\ \A e \in L!Endpoints : \A p \in L!Policies(e) :
             p.group # "none" /\ p.rate > 0 => passed[p.group][e] <= p.rate
    BY <2>2 DEF RateKept, L!RateHeld
  <2>4. \A x \in Slots : req'[x].stage \in Resolved => req'[x].policy \in L!Policies(req'[x].ask.endpoint)
    BY <1>1, <2>3, OthersStand, PolicyMoves
  <2>5. ASSUME NEW e \in L!Endpoints, NEW p \in L!Policies(e), p.group # "none", p.rate > 0
        PROVE  passed'[p.group][e] <= p.rate
    <3>1. p.group \in Groups /\ p.rate \in Int
      <4>1. p \in PolicyRows
        BY PoliciesTyped DEF LimitTypes
      <4> QED
        BY <2>5, <4>1, Zenon DEF PolicyRows
    <3>2. CASE passed' = passed
      BY <2>3, <2>5, <3>2
    <3>3. CASE /\ req[s].stage = "rate"
               /\ req[s].policy.group # "none"
               /\ rate[req[s].policy.group][req[s].ask.endpoint] + 1 <= req[s].policy.rate
               /\ passed' = [passed EXCEPT ![req[s].policy.group][req[s].ask.endpoint] = @ + 1]
      <4> DEFINE g == req[s].policy.group
                 f == req[s].ask.endpoint
      <4>1. g \in Groups /\ f \in L!Endpoints
        BY <3>3, AsksTyped, Zenon DEF LimitTypes, ReqRows, PolicyRows
      <4>2. CASE p.group = g /\ e = f
        <5>1. req[s].policy \in L!Policies(e)
          BY <2>3, <3>3, <4>2 DEF Resolved
        <5>2. req[s].policy = p
          BY <5>1, OnePolicy DEF LimitTypes
        <5>3. passed[g][f] \in Nat /\ rate[g][f] \in Nat /\ passed[g][f] <= rate[g][f]
          BY <4>1 DEF LimitTypes
        <5>4. passed'[g][f] = passed[g][f] + 1
          BY <3>3, <4>1 DEF LimitTypes
        <5>5. rate[g][f] + 1 <= p.rate
          BY <3>3, <5>2
        <5> HIDE DEF g, f
        <5> QED
          BY <3>1, <4>2, <5>3, <5>4, <5>5
      <4>3. CASE ~ (p.group = g /\ e = f)
        <5>1. passed'[p.group][e] = passed[p.group][e]
          BY <3>1, <3>3, <4>1, <4>3 DEF LimitTypes
        <5> QED
          BY <2>3, <2>5, <5>1
      <4> QED
        BY <4>2, <4>3
    <3> QED
      BY <1>1, <3>2, <3>3, PolicyMoves
  <2> QED
    BY <2>1, <2>2, <2>4, <2>5 DEF L!RateHeld, TablesStand
<1>2. CASE Writes
  BY <1>2, WritesLeave DEF LimitTypes
<1>3. CASE L!NextDay
  <2>1. UNCHANGED <<group, joined, rows, req, writes>> /\ passed' = L!Fresh
    BY <1>3 DEF L!NextDay
  <2>2. \A e : L!Policies(e)' = L!Policies(e)
    BY <2>1, SamePolicies
  <2>3. \A x \in Slots : req[x].stage \in Resolved => req[x].policy \in L!Policies(req[x].ask.endpoint)
    BY <2>1 DEF RateKept
  <2>4. ASSUME NEW e \in L!Endpoints, NEW p \in L!Policies(e), p.group # "none", p.rate > 0
        PROVE  passed'[p.group][e] <= p.rate
    <3>1. p.group \in Groups /\ p.rate \in Int
      <4>1. p \in PolicyRows
        BY PoliciesTyped DEF LimitTypes
      <4> QED
        BY <2>4, <4>1, Zenon DEF PolicyRows
    <3>2. passed'[p.group][e] = 0
      BY <2>1, <3>1 DEF L!Fresh
    <3> QED
      BY <2>4, <3>1, <3>2
  <2> QED
    BY <2>1, <2>2, <2>3, <2>4 DEF L!RateHeld
<1>4. CASE UNCHANGED limitVars
  <2>1. UNCHANGED <<group, joined, rows, req, writes, passed>>
    BY <1>4 DEF limitVars
  <2>2. \A e : L!Policies(e)' = L!Policies(e)
    BY <2>1, SamePolicies
  <2> QED
    BY <2>1, <2>2 DEF RateKept, L!RateHeld
<1> QED
  BY <1>1, <1>2, <1>3, <1>4, LimitSteps

-----------------------------------------------------------------------------
(* Notices: who found none yet may still write one.                           *)
Notifying == {s \in Slots : req[s].stage = "notify"}

Noticed == notices + Cardinality(Notifying) <= Cardinality(Slots)

(* A request sets out to write a notice only when there is none.              *)
LEMMA NoticesMove ==
  ASSUME LimitTypes, NEW s \in Slots, Requests(s)
  PROVE  \/ s \notin Notifying' /\ s \notin Notifying /\ notices' = notices
         \/ s \in Notifying' /\ notices = 0 /\ notices' = 0
         \/ s \in Notifying /\ s \notin Notifying' /\ notices' \in {notices, notices + 1}
<1>r. /\ req[s] \in ReqRows /\ req \in [Slots -> ReqRows]
      /\ L!Refuse(s) => req'[s] = L!Idle /\ req'[s].stage = "idle"
      /\ \A x : L!To(s, x) => req'[s].stage = x
      /\ \A x : L!Tell(s, x) => req'[s].stage = x
  BY RequestRow
<1>d. (s \in Notifying <=> req[s].stage = "notify") /\ (s \in Notifying' <=> req'[s].stage = "notify")
  BY DEF Notifying
<1>t. notices \in Nat
  BY DEF LimitTypes
<1> HIDE DEF Notifying
<1>1. CASE \E k \in Keys, a \in Asks : L!Arrive(s, k, a)
  BY <1>1, <1>r, <1>d DEF L!Arrive, ReqRows, L!Idle
<1>2. CASE L!EvaluateRisk(s)
  BY <1>2, <1>r, <1>d DEF L!EvaluateRisk, L!Books
<1>3. CASE L!ResolvePolicy(s)
  <2>1. req'[s].stage \in {"idle", "limits"}
    BY <1>3, <1>r DEF L!ResolvePolicy, ReqRows
  <2> QED
    BY <1>3, <1>d, <2>1 DEF L!ResolvePolicy, L!Books
<1>4. CASE L!EnforceSpendLimits(s)
  <2>1. req'[s].stage = "open"
    BY <1>4, <1>r DEF L!EnforceSpendLimits, ReqRows
  <2> QED
    BY <1>4, <1>d, <2>1 DEF L!EnforceSpendLimits, L!Books
<1>5. CASE L!SpendOfTheDay(s)
  <2>1. req'[s].stage = "month"
    BY <1>5, <1>r DEF L!SpendOfTheDay, ReqRows
  <2> QED
    BY <1>5, <1>d, <2>1 DEF L!SpendOfTheDay, L!Books
<1>6. CASE L!EnforceSpendLimit(s)
  <2>1. req'[s].stage \in {"idle", "open"}
    <3>1. CASE L!Refused(req[s].verdict, s)
      BY <1>6, <1>r, <3>1 DEF L!EnforceSpendLimit
    <3>2. CASE ~ L!Refused(req[s].verdict, s)
      BY <1>6, <1>r, <3>2 DEF L!EnforceSpendLimit, ReqRows
    <3> QED
      BY <3>1, <3>2
  <2> QED
    BY <1>6, <1>d, <2>1 DEF L!EnforceSpendLimit, L!Books
<1>7. CASE L!LimitsHold(s)
  <2>1. req'[s].stage = "group"
    BY <1>7, <1>r DEF L!LimitsHold, ReqRows
  <2> QED
    BY <1>7, <1>d, <2>1 DEF L!LimitsHold, L!Books
<1>8. CASE L!GroupMonth(s)
  BY <1>8, <1>r, <1>d DEF L!GroupMonth, L!Books
<1>9. CASE L!GroupRate(s)
  BY <1>9, <1>r, <1>d DEF L!GroupRate
<1>10. CASE L!Settle(s)
  <2>1. req'[s].stage \in {"record", "notice"}
    BY <1>10, <1>r DEF L!Settle, ReqRows
  <2> QED
    BY <1>10, <1>d, <2>1 DEF L!Settle
<1>11. CASE L!EndUnrecorded(s)
  BY <1>11, <1>r, <1>d DEF L!EndUnrecorded
<1>12. CASE L!LowBalance(s)
  BY <1>12, <1>r, <1>d, <1>t DEF L!LowBalance, L!Books, L!Recent
<1>13. CASE L!Notify(s)
  BY <1>13, <1>r, <1>d DEF L!Notify
<1>14. CASE L!Record(s)
  BY <1>14, <1>r, <1>d DEF L!Record
<1>15. CASE L!HangUp(s)
  BY <1>15, <1>r, <1>d DEF L!HangUp, L!Books
<1> QED
  BY <1>1, <1>2, <1>3, <1>4, <1>5, <1>6, <1>7, <1>8, <1>9, <1>10, <1>11, <1>12, <1>13, <1>14, <1>15
     DEF Requests, L!Handle

(* So those who are still to write one, and what was written, are never more  *)
(* than the slots.                                                            *)
LEMMA NoticedNext == LimitTypes /\ Noticed /\ [L!Next]_limitVars => Noticed'
<1> SUFFICES ASSUME LimitTypes, Noticed, [L!Next]_limitVars PROVE Noticed'
  OBVIOUS
<1>t. /\ notices \in Nat /\ Notifying \in SUBSET Slots /\ Notifying' \in SUBSET Slots
  BY DEF LimitTypes, Notifying
<1>n. Cardinality(Notifying) \in Nat /\ Cardinality(Slots) \in Nat
      /\ Cardinality(Notifying') \in 0 .. Cardinality(Slots)
  BY <1>t, SlotCounts
<1>1. ASSUME NEW s \in Slots, Requests(s) PROVE Noticed'
  <2>1. \A x \in Slots : x # s => (x \in Notifying' <=> x \in Notifying)
    BY <1>1, OthersStand DEF Notifying
  <2>2. CASE s \notin Notifying' /\ s \notin Notifying /\ notices' = notices
    <3>1. Notifying' = Notifying
      BY <1>t, <2>1, <2>2
    <3> QED
      BY <2>2, <3>1 DEF Noticed
  <2>3. CASE s \in Notifying' /\ notices = 0 /\ notices' = 0
    BY <1>n, <2>3 DEF Noticed
  <2>4. CASE s \in Notifying /\ s \notin Notifying' /\ notices' \in {notices, notices + 1}
    <3>1. Notifying' = Notifying \ {s}
      BY <1>t, <2>1, <2>4
    <3>2. Cardinality(Notifying \ {s}) = Cardinality(Notifying) - 1
      BY <1>t, <2>4, SlotCounts
    <3> QED
      BY <1>t, <1>n, <2>4, <3>1, <3>2 DEF Noticed
  <2> QED
    BY <1>1, <2>2, <2>3, <2>4, NoticesMove
<1>2. CASE Writes \/ UNCHANGED limitVars
  <2>1. UNCHANGED <<req, notices>>
    BY <1>2, WritesLeave DEF limitVars
  <2> QED
    BY <2>1 DEF Noticed, Notifying
<1>3. CASE L!NextDay
  <2>1. notices' = 0
    BY <1>3 DEF L!NextDay
  <2> QED
    BY <1>n, <2>1 DEF Noticed
<1> QED
  BY <1>1, <1>2, <1>3, LimitSteps

-----------------------------------------------------------------------------
(* The list and the service: both draw from the same rows.                    *)
LEMMA FirstIsThere ==
  ASSUME NEW ws, NEW e
  PROVE  /\ L!First(ws, e) \subseteq ws /\ (ws # {} => L!First(ws, e) # {})
         /\ \A w \in ws : w.permission = "deny" => \A v \in L!First(ws, e) : v.permission = "deny"
BY DEF L!First

(* The list asks for no endpoint and sees every row; a request sees those that*)
(* speak of its own.  Both refuse on a denial, and on a missing permission    *)
(* when the group has any.                                                    *)
LEMMA ListServes == PolicyTables => L!ListMatchesService
<1> SUFFICES ASSUME PolicyTables PROVE L!ListMatchesService
  OBVIOUS
<1> DEFINE served(e) == \A p \in L!Policies(e) : L!Accessible(p)
<1>1. CASE L!InForce = {}
  <2>1. \A e : L!Policies(e) = {L!NoPolicy}
    BY <1>1 DEF L!Policies
  <2>2. L!Listed /\ \A e \in L!Endpoints : served(e)
    <3>1. L!NoPolicy.group = "none" /\ L!NoPolicy.permission = "" /\ L!NoPolicy.allows = 0
      BY DEF L!NoPolicy
    <3>2. L!Accessible(L!NoPolicy)
      BY <3>1, Zenon DEF L!Accessible
    <3>3. L!Listed
      BY <2>1, <3>1, Zenon DEF L!Listed
    <3> QED
      BY <2>1, <3>2, <3>3
  <2>3. "chat" \in L!Endpoints
    BY DEF L!Endpoints
  <2> QED
    BY <2>2, <2>3 DEF L!ListMatchesService
<1>2. CASE L!InForce # {}
  <2>1. PICK g \in L!InForce : TRUE
    BY <1>2
  <2>2. L!InForce = {g} /\ g \in Groups /\ g # "none"
    <3>1. "none" \notin Groups
      BY LimitAssumption, Zenon
    <3> QED
      BY <2>1, <3>1, OneInForce
  <2> DEFINE ok(w) == w.permission # "deny" /\ (L!Allows(g) = 0 \/ w.permission = "allow")
             S0(e) == L!Speaking(g, e)
  <2>3. ASSUME NEW e
        PROVE  L!Policies(e) = IF S0(e) = {} THEN {L!Policy(g, L!NoRow)}
                               ELSE {L!Policy(g, w) : w \in L!First(S0(e), e)}
    BY <1>2, <2>2 DEF L!Policies
  <2>4. \A w : L!Accessible(L!Policy(g, w)) <=> ok(w)
    BY <2>2 DEF L!Accessible, L!Policy
  <2>5. \A e : served(e) <=> IF S0(e) = {} THEN ok(L!NoRow) ELSE \A w \in L!First(S0(e), e) : ok(w)
    <3> HIDE DEF ok, S0
    <3> QED
      BY <2>3, <2>4
  <2>6. L!Listed <=> IF S0("") = {} THEN ok(L!NoRow) ELSE \A w \in L!First(S0(""), "") : ok(w)
    <3>1. L!Listed <=> \A p \in L!Policies("") : p.permission # "deny" /\ (p.allows = 0 \/ p.permission = "allow")
      BY DEF L!Listed
    <3>2. \A w : LET p == L!Policy(g, w)
                 IN  (p.permission # "deny" /\ (p.allows = 0 \/ p.permission = "allow")) <=> ok(w)
      BY DEF L!Policy
    <3> HIDE DEF ok, S0
    <3> QED
      BY <2>3, <3>1, <3>2, Zenon
  <2>7. \A w \in rows : w.permission \in {"allow", "deny"} /\ w.endpoint \in L!Endpoints \cup {""}
    BY LimitAssumption, Zenon DEF PolicyTables
  <2>8. /\ \A e \in L!Endpoints : S0(e) = {w \in S0("") : w.endpoint = "" \/ w.endpoint = e}
        /\ S0("") \subseteq rows
    BY DEF L!Speaking, L!Endpoints
  <2>n. "chat" \in L!Endpoints /\ "" \notin L!Endpoints
    BY DEF L!Endpoints
  <2> HIDE DEF S0
  <2>9. ASSUME L!Listed PROVE \E e \in L!Endpoints : served(e)
    <3>1. CASE S0("") = {}
      <4>1. S0("chat") = {}
        BY <2>8, <2>n, <3>1, Zenon
      <4> QED
        BY <2>5, <2>6, <2>9, <2>n, <3>1, <4>1, Zenon
    <3>2. CASE S0("") # {}
      <4>1. \A w \in L!First(S0(""), "") : ok(w)
        BY <2>6, <2>9, <3>2, Zenon
      <4>2. \A w \in S0("") : w.permission = "allow"
        <5>1. ASSUME NEW w \in S0(""), w.permission = "deny" PROVE FALSE
          <6>1. /\ L!First(S0(""), "") # {}
                /\ \A v \in L!First(S0(""), "") : v.permission = "deny"
            BY <5>1, FirstIsThere, Zenon
          <6> QED
            BY <4>1, <6>1, Zenon
        <5> QED
          BY <2>7, <2>8, <5>1, Zenon
      <4>3. PICK w \in S0("") : TRUE
        BY <3>2, Zenon
      <4>4. PICK e \in L!Endpoints : w.endpoint = "" \/ w.endpoint = e
        BY <2>7, <2>8, <2>n, Zenon
      <4>5. S0(e) # {} /\ S0(e) \subseteq S0("")
        BY <2>8, <4>3, <4>4, Zenon
      <4>6. \A v \in L!First(S0(e), e) : v.permission = "allow"
        BY <4>2, <4>5, FirstIsThere, Zenon
      <4>7. \A v \in L!First(S0(e), e) : ok(v)
        BY <4>6, Zenon
      <4> QED
        BY <2>5, <4>5, <4>7, Zenon
    <3> QED
      BY <3>1, <3>2, Zenon
  <2>10. ASSUME \A e \in L!Endpoints : served(e) PROVE L!Listed
    <3>1. CASE S0("") = {}
      <4>1. S0("chat") = {}
        BY <2>8, <2>n, <3>1, Zenon
      <4>2. ok(L!NoRow)
        BY <2>5, <2>10, <2>n, <4>1, Zenon
      <4> QED
        BY <2>6, <3>1, <4>2, Zenon
    <3>2. CASE S0("") # {}
      <4>1. ASSUME NEW w \in S0(""), w.permission = "deny" PROVE FALSE
        <5>1. PICK e \in L!Endpoints : w.endpoint = "" \/ w.endpoint = e
          BY <2>7, <2>8, <2>n, Zenon
        <5>2. w \in S0(e)
          BY <2>8, <5>1, Zenon
        <5>3. L!First(S0(e), e) # {} /\ \A v \in L!First(S0(e), e) : v.permission = "deny"
          BY <4>1, <5>2, FirstIsThere, Zenon
        <5>4. \A v \in L!First(S0(e), e) : ok(v)
          BY <2>5, <2>10, <5>2, Zenon
        <5> QED
          BY <5>3, <5>4, Zenon
      <4>2. \A w \in S0("") : w.permission = "allow"
        BY <2>7, <2>8, <4>1, Zenon
      <4>3. \A w \in L!First(S0(""), "") : ok(w)
        BY <4>2, FirstIsThere, Zenon
      <4> QED
        BY <2>6, <3>2, <4>3, Zenon
    <3> QED
      BY <3>1, <3>2, Zenon
  <2> QED
    BY <2>9, <2>10 DEF L!ListMatchesService
<1> QED
  BY <1>1, <1>2

-----------------------------------------------------------------------------
(* What holds of the limits together.                                         *)
LimitInv == /\ LimitTypes
            /\ Connected /\ free >= 0
            /\ Booked /\ Admitted
            /\ RateKept
            /\ Noticed

(* No request is on its way at the beginning, and nothing is spent.           *)
LEMMA LimitInvInit == L!Init => LimitInv
<1> SUFFICES ASSUME L!Init PROVE LimitInv
  OBVIOUS
<1>1. Reading = {} /\ Notifying = {}
  BY DEF Reading, Notifying, L!Init, L!Idle
<1>2. Cardinality(Reading) = 0 /\ Cardinality(Notifying) = 0
  BY <1>1, FS_EmptySet
<1>3. Conns \in Nat /\ free = Conns /\ notices = 0
  BY LimitAssumption, Zenon DEF L!Init
<1>4. Cardinality(Slots) \in Nat
  <2>1. Cardinality({}) \in 0 .. Cardinality(Slots) /\ Cardinality(Slots) \in Nat \ {0}
    BY SlotCounts
  <2> QED
    BY <2>1
<1>5. Connected /\ free >= 0 /\ Noticed
  BY <1>2, <1>3, <1>4 DEF Connected, Noticed
<1> QED
  BY <1>5, LimitInitTypes, BookedInit, AdmittedInit, RateInit DEF LimitInv

(* Every step keeps it.                                                       *)
LEMMA LimitInvNext == LimitInv /\ [L!Next]_limitVars => LimitInv'
BY LimitNextTypes, ConnectedNext, BookedNext, AdmittedNext, RateNext, NoticedNext DEF LimitInv

(* It is stronger than what the limits promise, and than their type.          *)
LEMMA LimitInvHolds ==
  LimitInv => /\ L!TypeOK /\ L!OvershootIsConcurrency /\ L!RateHeld
              /\ L!NoticesAreFew /\ L!ListMatchesService
<1> SUFFICES ASSUME LimitInv PROVE /\ L!TypeOK /\ L!OvershootIsConcurrency /\ L!RateHeld
                                   /\ L!NoticesAreFew /\ L!ListMatchesService
  OBVIOUS
<1> USE DEF LimitInv
<1>1. free \in 0 .. Conns
  <2>1. Reading \in SUBSET Slots
    BY DEF Reading
  <2>2. Cardinality(Reading) \in Nat
    BY <2>1, SlotCounts
  <2>3. free \in Int /\ free + Cardinality(Reading) = Conns /\ free >= 0
    BY DEF LimitTypes, Connected
  <2> QED
    BY <2>2, <2>3
<1>2. L!TypeOK
  BY <1>1, LimitTypesAreTyped
<1>3. L!OvershootIsConcurrency
  BY AdmittedIsConcurrency
<1>4. L!RateHeld
  BY DEF RateKept, L!RateHeld
<1>5. L!NoticesAreFew
  <2>1. Notifying \in SUBSET Slots
    BY DEF Notifying
  <2>2. Cardinality(Notifying) \in Nat /\ Cardinality(Slots) \in Nat
    BY <2>1, SlotCounts
  <2>3. notices \in Nat /\ notices + Cardinality(Notifying) <= Cardinality(Slots)
    BY DEF LimitTypes, Noticed
  <2>4. notices <= Cardinality(Slots)
    BY <2>2, <2>3
  <2> QED
    BY <2>4, SameLimitCardinality DEF L!NoticesAreFew
<1>6. L!ListMatchesService
  BY ListServes DEF LimitTypes
<1> QED
  BY <1>2, <1>3, <1>4, <1>5, <1>6
-----------------------------------------------------------------------------
(* The types of the parts: what their invariants do not say of the columns    *)
(* and of the counters that only the model has.                               *)

(* The counters of the upkeep, and what an administrator may have allowed.    *)
CareBounds == /\ allowed \subseteq {"quota", "wakeup", "health"}
              /\ several \in BOOLEAN /\ wakeups \in BOOLEAN
              /\ ends \in 0 .. MaxEnds /\ orders \in 0 .. CareOrders

(* Everything is allowed and nothing ordered when it begins.                  *)
LEMMA CareBoundsInit == A!Init => CareBounds
BY CareAssumption DEF A!Init, CareBounds

(* Orders stop at their limit; nobody but an order changes what is allowed.   *)
LEMMA CareBoundsNext == CareBounds /\ [A!Next]_careVars => CareBounds'
<1> SUFFICES ASSUME CareBounds, [A!Next]_careVars PROVE CareBounds'
  OBVIOUS
<1> DEFINE Orders == /\ orders < CareOrders /\ orders' = orders + 1 /\ UNCHANGED <<several, wakeups, ends>>
                     /\ allowed' \subseteq {"quota", "wakeup", "health"}
<1>b. Orders => CareBounds'
  BY CareAssumption DEF CareBounds
<1>c. UNCHANGED <<allowed, several, wakeups, ends, orders>> => CareBounds'
  BY DEF CareBounds
<1>1. ASSUME NEW p \in CareWorkers, A!Tick(p) PROVE CareBounds'
  BY <1>1, <1>c DEF A!Tick
<1>2. ASSUME NEW p \in CareAdmins, A!Answer(p) PROVE CareBounds'
  BY <1>2, <1>c DEF A!Answer
<1>3. ASSUME NEW p \in CareAdmins,
             \/ A!StartByHand(p) \/ \E j \in Jobs : A!CreateJob(p, j)
             \/ \E a \in Accounts : A!SetAccount(p, a)
      PROVE  CareBounds'
  <2>1. orders < CareOrders /\ orders' = orders + 1 /\ UNCHANGED <<several, wakeups, ends, allowed>>
    BY <1>3, Zenon DEF A!StartByHand, A!CreateJob, A!SetAccount, A!Order
  <2> QED BY <1>b, <2>1 DEF CareBounds
<1>4. ASSUME NEW p \in CareAdmins, A!PutPlatformConfig(p) PROVE CareBounds'
  <2>1. orders < CareOrders /\ orders' = orders + 1 /\ UNCHANGED <<several, wakeups, ends>>
        /\ allowed' \in SUBSET {"quota", "wakeup", "health"}
    BY <1>4 DEF A!PutPlatformConfig, A!Order
  <2> QED BY <1>b, <2>1
<1>5. ASSUME NEW p \in Workforce, A!Step(p) PROVE CareBounds'
  BY <1>5, <1>c, Zenon DEF A!Step, A!RefreshQuota, A!WakeAccount, A!CheckHealth, A!ClaimJob, A!NotRetryable,
                    A!FinishJob, A!Judge
<1>6. ASSUME NEW p \in Workforce, A!ContextEnds(p) PROVE CareBounds'
  <2>1. ends < MaxEnds /\ ends' = ends + 1 /\ UNCHANGED <<allowed, several, wakeups, orders>>
    BY <1>6 DEF A!ContextEnds
  <2> QED BY <2>1, CareAssumption DEF CareBounds
<1>7. ASSUME NEW j \in Jobs, A!ComesDue(j) PROVE CareBounds'
  BY <1>7, <1>c DEF A!ComesDue
<1>8. CASE UNCHANGED careVars
  BY <1>8, <1>c DEF careVars
<1> QED
  BY <1>1, <1>2, <1>3, <1>4, <1>5, <1>6, <1>7, <1>8 DEF A!Next, Workforce

(* The rows and the counters are what TypeOK says of the upkeep.              *)
LEMMA CareIsTyped == CareInv /\ CareBounds => A!TypeOK
<1> SUFFICES ASSUME CareInv, CareBounds PROVE A!TypeOK
  OBVIOUS
<1>1. /\ account \in [Accounts -> AccountRows] /\ quota \in [Accounts -> QuotaRows]
      /\ job \in [Jobs -> JobRows]
  BY DEF CareInv, CareTypes
<1>2. \A p \in CareWorkers \cup CareAdmins :
        /\ task[p].stage \in A!Stages /\ task[p].job \in Jobs \cup {NoJob}
        /\ task[p].due \subseteq Jobs /\ task[p].todo \subseteq Accounts \cup A!Verdicts
  BY DEF CareInv, CareTypes, Workforce, TaskRows
<1> QED
  BY <1>1, <1>2 DEF A!TypeOK, CareBounds, AccountRows, QuotaRows, JobRows

(* So are those of the notices.                                               *)
LEMMA NoticesAreTyped == NoticeInv => N!TypeOK
<1> SUFFICES ASSUME NoticeInv PROVE N!TypeOK
  OBVIOUS
<1>1. /\ event \in [Events -> EventRows] /\ channel \in [Webhooks -> ChannelRows]
      /\ heard \in [Events -> [Webhooks -> 0 .. 2]] /\ slow \in BOOLEAN
      /\ dispatch \in [Dispatchers -> Dispatches]
  BY DEF NoticeInv, NoticeTypes
<1>2. crashes + edits \in 0 .. MaxTroubles
  BY NoticeAssumption DEF NoticeInv, NoticeTypes
<1>3. \A d \in Dispatchers : /\ dispatch[d].stage \in {"idle", "claimed", "sending"}
                             /\ dispatch[d].event \in Events \cup {NoEvent}
                             /\ dispatch[d].todo \cup dispatch[d].ok \cup dispatch[d].bad \subseteq Webhooks
  BY <1>1 DEF Dispatches
<1> QED
  BY <1>1, <1>2, <1>3 DEF N!TypeOK, EventRows, ChannelRows, Outcomes

-----------------------------------------------------------------------------
(* The aliases and the counter of the catalogue.                              *)
AliasBounds == alias \in [Names -> Names \cup {NoName}] /\ bodies \in 0 .. ModelRequests

(* There are no aliases when it begins.                                       *)
LEMMA AliasBoundsInit == C!Init => AliasBounds
BY CatalogueAssumption DEF C!Init, AliasBounds

(* An alias names a model of the body's, or none; requests stop at the limit. *)
LEMMA AliasBoundsNext == CatalogueInv /\ AliasBounds /\ [C!Next]_modelVars => AliasBounds'
<1> SUFFICES ASSUME CatalogueInv, AliasBounds, [C!Next]_modelVars PROVE AliasBounds'
  OBVIOUS
<1>r. ModelRequests \in Nat
  BY CatalogueAssumption
<1>a. ASSUME NEW n \in Names, NEW x PROVE C!Aliased(n, x) \in [Names -> Names \cup {NoName}]
  BY DEF C!Aliased, AliasBounds
<1>b. C!Request \/ UNCHANGED bodies => bodies' \in 0 .. ModelRequests
  BY <1>r DEF C!Request, AliasBounds
<1>c. ASSUME UNCHANGED alias, C!Request \/ UNCHANGED bodies PROVE AliasBounds'
  BY <1>b, <1>c DEF AliasBounds
<1>1. ASSUME NEW n \in Names, NEW o \in Bodies, C!CreateModel(n, o) PROVE AliasBounds'
  BY <1>1, <1>a, <1>b DEF C!CreateModel, AliasBounds
<1>2. ASSUME NEW w \in Writers, C!CommitModel(w) PROVE AliasBounds'
  <2>1. writer[w].name \in Names
    BY <1>2 DEF C!CommitModel, C!In, CatalogueInv, PricesHeld, Holds, Pricing
  <2> QED
    BY <1>2, <1>a, <1>b, <2>1 DEF C!CommitModel, C!In, AliasBounds
<1>3. ASSUME NEW w \in Writers,
             \/ C!ReadPrice(w) \/ C!PutAbility(w) \/ C!Drop(w) \/ C!CreateJob(w) \/ C!EndJobs(w)
             \/ C!StartJob(w) \/ C!FailJob(w) \/ C!ApplySync(w)
             \/ \E items \in Listings : C!Discover(w, items)
      PROVE  AliasBounds'
  <2>1. UNCHANGED <<alias, bodies>>
    BY <1>3, Zenon DEF C!ReadPrice, C!PutAbility, C!Drop, C!CreateJob, C!EndJobs, C!StartJob, C!FailJob,
                C!ApplySync, C!Discover, C!In
  <2> QED BY <1>c, <2>1
<1>4. ASSUME NEW w \in Writers, C!Asked(w) PROVE AliasBounds'
  BY <1>4, <1>c, Zenon DEF C!Asked, C!RunJobs, C!LockModel, C!EnsureModel, C!Begin
<1>5. ASSUME C!AtOnce, ~ \E n \in Names, o \in Bodies : C!CreateModel(n, o) PROVE AliasBounds'
  BY <1>5, <1>c, Zenon DEF C!AtOnce, C!SyncFromChannels, C!BatchModels, C!PatchChannel, C!CreateChannel
<1>6. CASE UNCHANGED modelVars
  BY <1>6, <1>c DEF modelVars
<1> QED
  BY <1>1, <1>2, <1>3, <1>4, <1>5, <1>6 DEF C!Next, C!Work

(* The catalogue's rows are what TypeOK says of them.                         *)
LEMMA CatalogueIsTyped == CatalogueInv /\ AliasBounds => C!TypeOK
<1> SUFFICES ASSUME CatalogueInv, AliasBounds PROVE C!TypeOK
  OBVIOUS
<1>1. ModelTypes
  BY DEF CatalogueInv
<1>2. \A w \in Writers : /\ sync[w].status \in {"none", "pending", "running", "success", "failed"}
                         /\ writer[w].rest \subseteq Upstreams
  BY <1>1 DEF ModelTypes, SyncRows, WriterRows
<1> QED
  BY <1>1, <1>2 DEF ModelTypes, AliasBounds, C!TypeOK

-----------------------------------------------------------------------------
(* The users: a session was asked for, as what a handler does was, and one    *)
(* may have been there.                                                       *)
Busy == {h \in Handlers : handler[h].stage # "idle"}

MemberBounds ==
  /\ asked \in 0 .. MemberRequests
  /\ \A e \in Emails, a \in M!Audiences : session[e][a] + Cardinality(Busy) <= asked + 1

(* One session and no handler is there when it begins.                        *)
LEMMA MemberBoundsInit == M!Init => MemberBounds
<1> SUFFICES ASSUME M!Init PROVE MemberBounds
  OBVIOUS
<1>1. Busy = {}
  BY DEF M!Init, M!Idle, Busy
<1>2. Cardinality(Busy) = 0
  BY <1>1, FS_EmptySet
<1>3. \A e \in Emails, a \in M!Audiences : session[e][a] \in {0, 1}
  BY DEF M!Init
<1>4. asked = 0 /\ MemberRequests \in Nat
  BY MemberAssumption DEF M!Init
<1> QED
  BY <1>2, <1>3, <1>4 DEF MemberBounds

(* What a step does to handlers, sessions and the counter.                    *)
Counts(h) ==
  \/ /\ handler[h].stage = "idle" /\ asked' = asked + 1 /\ asked < MemberRequests
     /\ UNCHANGED session /\ \E t : handler' = [handler EXCEPT ![h] = t]
  \/ /\ handler[h].stage # "idle" /\ UNCHANGED <<asked, session>> /\ \E t : handler' = [handler EXCEPT ![h] = t]
  \/ /\ handler[h].stage # "idle" /\ UNCHANGED asked /\ handler' = [handler EXCEPT ![h] = M!Idle]
     /\ \E e \in Emails, a \in M!Audiences : session' = [session EXCEPT ![e][a] = @ + 1]

(* A request is counted when a handler takes it; a handler that opens a       *)
(* session is done with its own.                                              *)
LEMMA HandlersCount ==
  ASSUME MemberInv, NEW h \in Handlers, M!Asked(h) \/ M!Work(h)
  PROVE  Counts(h)
<1>i. M!Idle.stage = "idle"
  BY DEF M!Idle
<1>1. CASE M!Asked(h)
  <2>1. UNCHANGED session /\ \E t : M!Begin(h, t)
    BY <1>1, Zenon DEF M!Asked, M!CheckSetup, M!Register, M!Login, M!RequestCode, M!RequestReset, M!AdminReset,
                M!RequestVerification, M!Ask, M!ConfirmEmail, M!ReadKey, M!ReadUser, M!EnsureWallet
  <2> QED
    BY <1>i, <2>1 DEF M!Begin, M!Request, M!Go, Counts
<1>2. CASE M!OpenSession(h)
  <2>1. handler[h].email \in Emails /\ handler[h].kind \in M!Audiences
    BY <1>2 DEF M!OpenSession, M!In, MemberInv, HandlersKnow, Known
  <2> QED
    BY <1>2, <2>1 DEF M!OpenSession, M!In, M!Go, Counts
<1>3. CASE M!Work(h) /\ ~ M!OpenSession(h)
  <2>1. UNCHANGED <<asked, session>> /\ handler[h].stage # "idle" /\ \E t : M!Go(h, t)
    BY <1>3, Zenon DEF M!Work, M!CreateOwner, M!Load, M!Retire, M!Issue, M!ConsumeCode, M!CreateUser,
                M!MarkVerified, M!Redeem, M!PatchKey, M!PatchUser, M!Drop, M!In, M!Then
  <2> QED
    BY <2>1 DEF M!Go, Counts
<1> QED
  BY <1>1, <1>2, <1>3

(* So sessions and busy handlers together are never more than were asked for, *)
(* but for the one that was there.                                            *)
LEMMA MemberBoundsNext == MemberInv /\ MemberBounds /\ [M!Next]_memberVars => MemberBounds'
<1> SUFFICES ASSUME MemberInv, MemberBounds, [M!Next]_memberVars PROVE MemberBounds'
  OBVIOUS
<1>t. /\ handler \in [Handlers -> HandlerRows] /\ session \in [Emails -> [M!Audiences -> Nat]]
      /\ MemberRequests \in Nat /\ IsFiniteSet(Handlers) /\ asked \in 0 .. MemberRequests
  BY MemberAssumption DEF MemberInv, MemberTypes, MemberBounds
<1>b. IsFiniteSet(Busy) /\ Cardinality(Busy) \in Nat
  <2>1. Busy \subseteq Handlers
    BY DEF Busy
  <2> QED
    BY <1>t, <2>1, FS_Subset, FS_CardinalityType
<1>1. ASSUME NEW h \in Handlers, M!Asked(h) \/ M!Work(h) PROVE MemberBounds'
  <2>c. Counts(h)
    BY <1>1, HandlersCount
  <2>1. ASSUME NEW t, handler' = [handler EXCEPT ![h] = t]
        PROVE  /\ t.stage # "idle" => Busy' = Busy \cup {h}
               /\ t.stage = "idle" => Busy' = Busy \ {h}
    BY <1>t, <2>1 DEF Busy
  <2>2. /\ h \in Busy => /\ Cardinality(Busy \cup {h}) = Cardinality(Busy)
                         /\ Cardinality(Busy \ {h}) = Cardinality(Busy) - 1
        /\ h \notin Busy => /\ Cardinality(Busy \cup {h}) = Cardinality(Busy) + 1
                            /\ Cardinality(Busy \ {h}) = Cardinality(Busy)
    BY <1>b, FS_AddElement, FS_RemoveElement
  <2>h. h \in Busy <=> handler[h].stage # "idle"
    BY DEF Busy
  <2>n. ASSUME NEW t, handler' = [handler EXCEPT ![h] = t]
        PROVE  /\ Cardinality(Busy') = Cardinality(Busy \cup {h}) \/ Cardinality(Busy') = Cardinality(Busy \ {h})
               /\ t.stage = "idle" => Cardinality(Busy') = Cardinality(Busy \ {h})
    <3>1. CASE t.stage # "idle"
      <4>1. Busy' = Busy \cup {h}
        BY <2>1, <2>n, <3>1
      <4> QED BY <3>1, <4>1
    <3>2. CASE t.stage = "idle"
      <4>1. Busy' = Busy \ {h}
        BY <2>1, <2>n, <3>2
      <4> QED BY <4>1
    <3> QED BY <3>1, <3>2
  <2>3. CASE /\ handler[h].stage = "idle" /\ asked' = asked + 1 /\ asked < MemberRequests
             /\ UNCHANGED session /\ \E t : handler' = [handler EXCEPT ![h] = t]
    <3>1. Cardinality(Busy') \in Nat /\ Cardinality(Busy') <= Cardinality(Busy) + 1
      <4>1. Cardinality(Busy') \in {Cardinality(Busy), Cardinality(Busy) + 1}
        BY <2>n, <2>2, <2>h, <2>3
      <4> QED BY <1>b, <4>1
    <3> QED
      BY <1>t, <1>b, <2>3, <3>1 DEF MemberBounds
  <2>4. CASE /\ handler[h].stage # "idle" /\ UNCHANGED <<asked, session>>
             /\ \E t : handler' = [handler EXCEPT ![h] = t]
    <3>1. Cardinality(Busy') \in Int /\ Cardinality(Busy') <= Cardinality(Busy)
      <4>1. Cardinality(Busy') \in {Cardinality(Busy), Cardinality(Busy) - 1}
        BY <2>n, <2>2, <2>h, <2>4
      <4> QED BY <1>b, <4>1
    <3> QED
      BY <1>t, <1>b, <2>4, <3>1 DEF MemberBounds
  <2>5. CASE /\ handler[h].stage # "idle" /\ UNCHANGED asked /\ handler' = [handler EXCEPT ![h] = M!Idle]
             /\ \E e \in Emails, a \in M!Audiences : session' = [session EXCEPT ![e][a] = @ + 1]
    <3>1. Cardinality(Busy') \in Int /\ Cardinality(Busy') = Cardinality(Busy) - 1
      <4>1. M!Idle.stage = "idle"
        BY DEF M!Idle
      <4>2. Cardinality(Busy') = Cardinality(Busy) - 1
        BY <2>n, <2>2, <2>h, <2>5, <4>1
      <4> QED BY <1>b, <4>2
    <3>2. \A e \in Emails, a \in M!Audiences : session'[e][a] \in Int /\ session'[e][a] <= session[e][a] + 1
      BY <1>t, <2>5
    <3> QED
      BY <1>t, <1>b, <2>5, <3>1, <3>2 DEF MemberBounds
  <2> QED
    BY <2>c, <2>3, <2>4, <2>5 DEF Counts
<1>2. CASE M!AtOnce \/ UNCHANGED memberVars
  <2>1. UNCHANGED handler /\ (M!Request \/ UNCHANGED asked)
    BY <1>2, Zenon DEF M!AtOnce, M!CreateKey, M!DeleteKey, M!Logout, M!Expire, M!ConfirmReset, M!AdminCreateUser,
                M!Seed, M!PatchRedeemCode, M!CreateRedeemCode, memberVars
  <2>2. \A e \in Emails, a \in M!Audiences : session'[e][a] \in Int /\ session'[e][a] <= session[e][a]
    <3>1. ASSUME NEW x \in Emails, NEW b \in M!Audiences, M!Logout(x, b)
          PROVE  \A e \in Emails, a \in M!Audiences : session'[e][a] \in Int /\ session'[e][a] <= session[e][a]
      BY <1>t, <3>1 DEF M!Logout
    <3>2. ASSUME NEW x \in Emails, NEW p \in Passwords, M!ConfirmReset(x, p)
          PROVE  \A e \in Emails, a \in M!Audiences : session'[e][a] \in Int /\ session'[e][a] <= session[e][a]
      BY <1>t, <3>2 DEF M!ConfirmReset
    <3>3. CASE UNCHANGED session
      BY <1>t, <3>3
    <3> QED
      BY <1>2, <3>1, <3>2, <3>3, Zenon DEF M!AtOnce, M!CreateKey, M!DeleteKey, M!Expire, M!AdminCreateUser,
                M!Seed, M!PatchRedeemCode, M!CreateRedeemCode, memberVars
  <2>3. Busy' = Busy /\ asked' \in 0 .. MemberRequests /\ asked <= asked'
    BY <1>t, <2>1 DEF Busy, M!Request
  <2> QED
    BY <1>t, <1>b, <2>2, <2>3 DEF MemberBounds
<1> QED
  BY <1>1, <1>2 DEF M!Next

(* The rows of the users are what TypeOK says of them: a wallet has a credit  *)
(* of a code at most once.                                                    *)
LEMMA MembersAreTyped == MemberInv /\ MemberBounds => M!TypeOK
<1> SUFFICES ASSUME MemberInv, MemberBounds PROVE M!TypeOK
  OBVIOUS
<1>1. /\ user \in [Emails -> M!UserRows] /\ code \in [Codes -> M!CodeRows]
      /\ wallet \in [Emails -> Nat \cup {-1}] /\ session \in [Emails -> [M!Audiences -> Nat]]
      /\ key \in [Emails -> M!KeyStatuses \cup {"none"}]
  BY DEF MemberInv, MemberTypes
<1>2. ASSUME NEW e \in Emails PROVE wallet[e] \in -1 .. M!Cardinality(Codes)
  <2>1. ClaimedBy(e) \subseteq Codes
    BY DEF ClaimedBy
  <2>2. IsFiniteSet(Codes)
    BY MemberAssumption
  <2>3. Cardinality(ClaimedBy(e)) \in Nat /\ Cardinality(Codes) \in Nat /\ Cardinality(ClaimedBy(e)) <= Cardinality(Codes)
    BY <2>1, <2>2, FS_Subset, FS_CardinalityType
  <2>4. wallet[e] = -1 \/ wallet[e] = Cardinality(ClaimedBy(e))
    BY DEF MemberInv, CreditsExact
  <2>5. M!Cardinality(Codes) = Cardinality(Codes)
    BY SameCardinality
  <2> QED
    BY <2>3, <2>4, <2>5
<1>3. ASSUME NEW e \in Emails PROVE session[e] \in [M!Audiences -> 0 .. MemberRequests + 1]
  <2>1. Cardinality(Busy) \in Nat
    <3>1. Busy \subseteq Handlers
      BY DEF Busy
    <3> QED
      BY <3>1, MemberAssumption, FS_Subset, FS_CardinalityType
  <2>2. MemberRequests \in Nat
    BY MemberAssumption
  <2>3. ASSUME NEW a \in M!Audiences PROVE session[e][a] \in 0 .. MemberRequests + 1
    <3>1. session[e][a] \in Nat /\ session[e][a] + Cardinality(Busy) <= asked + 1 /\ asked \in 0 .. MemberRequests
      BY <1>1 DEF MemberBounds
    <3> QED
      BY <2>1, <2>2, <3>1
  <2>4. session[e] \in [M!Audiences -> Nat]
    BY <1>1
  <2> QED
    BY <2>3, <2>4
<1>4. \A e \in Emails, k \in M!Kinds : secret[e][k].live \subseteq 1 .. secret[e][k].made
  BY DEF MemberInv, SecretsExact, SecretExact
<1> QED
  BY <1>1, <1>2, <1>3, <1>4 DEF M!TypeOK, MemberBounds

-----------------------------------------------------------------------------
(* From the parts to the console: a step of a part is one of its own module,  *)
(* and the others do not run.                                                 *)
PartsInv == /\ part \in {"care", "limit", "notice", "member", "model"}
            /\ part = "notice" => NoticeInv
            /\ part = "member" => MemberInv /\ MemberBounds
            /\ part = "care" => CareInv /\ CareBounds
            /\ part = "model" => CatalogueInv /\ AliasBounds
            /\ part = "limit" => LimitInv

(* Whatever part is drawn begins with its own invariant.                      *)
LEMMA PartsInvInit == Init => PartsInv
BY NoticeInitTypes, NoticeInitAlone, MemberInvInit, CareInvInit, CatalogueInvInit, LimitInvInit,
   MemberBoundsInit, CareBoundsInit, AliasBoundsInit
   DEF Init, PartsInv, NoticeInv

(* The part that runs keeps its invariant, and the others say nothing.        *)
LEMMA PartsInvNext == PartsInv /\ [Next]_vars => PartsInv'
<1> SUFFICES ASSUME PartsInv, [Next]_vars PROVE PartsInv'
  OBVIOUS
<1>1. UNCHANGED part
  BY DEF Next, Care, Limit, Notice, Member, Model, vars
<1>2. ASSUME part = "notice" PROVE NoticeInv'
  <2>1. [N!Next]_noticeVars
    BY <1>2 DEF Next, Care, Limit, Notice, Member, Model, vars
  <2> QED BY <1>2, <2>1, NoticeInvNext DEF PartsInv
<1>3. ASSUME part = "member" PROVE MemberInv' /\ MemberBounds'
  <2>1. [M!Next]_memberVars
    BY <1>3 DEF Next, Care, Limit, Notice, Member, Model, vars
  <2> QED BY <1>3, <2>1, MemberInvNext, MemberBoundsNext DEF PartsInv
<1>4. ASSUME part = "care" PROVE CareInv' /\ CareBounds'
  <2>1. [A!Next]_careVars
    BY <1>4 DEF Next, Care, Limit, Notice, Member, Model, vars
  <2> QED BY <1>4, <2>1, CareInvNext, CareBoundsNext DEF PartsInv
<1>5. ASSUME part = "model" PROVE CatalogueInv' /\ AliasBounds'
  <2>1. [C!Next]_modelVars
    BY <1>5 DEF Next, Care, Limit, Notice, Member, Model, vars
  <2> QED BY <1>5, <2>1, CatalogueInvNext, AliasBoundsNext DEF PartsInv
<1>6. ASSUME part = "limit" PROVE LimitInv'
  <2>1. [L!Next]_limitVars
    BY <1>6 DEF Next, Care, Limit, Notice, Member, Model, vars
  <2> QED BY <1>6, <2>1, LimitInvNext DEF PartsInv
<1> QED BY <1>1, <1>2, <1>3, <1>4, <1>5, <1>6 DEF PartsInv

(* Whatever part runs, its tables and the rows that its requests and workers  *)
(* keep in mind agree, at every statement of every one of them.               *)
THEOREM PartsStaySound == Spec => []PartsInv
BY PartsInvInit, PartsInvNext, PTL DEF Spec

(* The rows of the part that runs, and what its requests and workers keep in  *)
(* mind, have the types of their columns, and its counters their bounds: the  *)
(* day's and the month's use, the claims of a code, the attempts of a dispatch *)
(* (TypeOK of the five modules).                                              *)
THEOREM ConsoleTypes == Spec => []TypeOK
<1>1. PartsInv => TypeOK
  BY CareIsTyped, NoticesAreTyped, CatalogueIsTyped, MembersAreTyped, LimitInvHolds, Zenon DEF PartsInv, TypeOK
<1> QED BY <1>1, PartsStaySound, PTL

(* A webhook hears of an event once, unless a dispatch outlives its claim, and *)
(* a redeem code is claimed, a token used and the owner set up once, for any  *)
(* number of dispatchers and of requests at the same time                     *)
(* (claimNotificationEvent, portalRedeem, setupCreateOwner).                  *)
THEOREM HappensOnce == Spec => []OnceOnly
<1>1. PartsInv => OnceOnly
  BY AloneIsOnce, MemberInvIsOnce DEF PartsInv, NoticeInv, OnceOnly
<1> QED BY <1>1, PartsStaySound, PTL

(* A wake-up job is run by one worker at a time, and an active account with a *)
(* closed circuit and a channel is never isolated, whatever was measured of it *)
(* (claimWakeupJob, scoreAccountQuality).                                     *)
THEOREM CareStaysSafe == Spec => []CareIsSafe
<1>1. PartsInv => CareIsSafe
  BY CareInvIsSafe DEF PartsInv, CareIsSafe
<1> QED BY <1>1, PartsStaySound, PTL

(* A health check, a quota refresh or an isolation never brings a disabled    *)
(* account back, however old the list that it works from (runAccountHealthCheck). *)
THEOREM NothingRevives == Spec => DisabledStays
<1>1. ASSUME PartsInv, [Next]_vars
      PROVE  [\A a \in Accounts :
                account[a].status = "disabled" /\ account'[a].status # "disabled"
                  => \/ task' = task
                     \/ \E p \in CareWorkers \cup CareAdmins :
                          task[p].stage = "wakeup" /\ task'[p] # task[p]]_careVars
  <2>1. (A!Next /\ CareInv) \/ UNCHANGED careVars
    BY <1>1 DEF PartsInv, Next, Care, Limit, Notice, Member, Model, vars
  <2> QED BY <2>1, CareStaysDisabled DEF Workforce
<1> QED BY <1>1, PartsStaySound, PTL DEF Spec, DisabledStays, A!DisabledStays, A!vars, careVars

(* No number of patches at the same time leaves a model priced by an          *)
(* expression that does not evaluate, and the report of a synchronisation that *)
(* nobody disturbed tells what its channel serves                             *)
(* (upsertModelPricingOverrideTx, runChannelModelSync).                       *)
THEOREM CatalogueStaysUsable == Spec => []CatalogueIsUsable
<1>1. PartsInv => CatalogueIsUsable
  BY CatalogueInvIsUsable DEF PartsInv, CatalogueIsUsable
<1> QED BY <1>1, PartsStaySound, PTL

(* For any number of requests at the same time, and whatever they cost, what  *)
(* was debited and whose usage row was not lost stays below the month's limit *)
(* of a user, or below what had been used when it was set, by at most the     *)
(* highest cost of a request for each in flight; no minute passes more of them*)
(* than the rate in force, notices of a low balance are no more than the      *)
(* requests that settle together, and a key is shown the models that it is    *)
(* served (enforceSpendLimits, enforceEffectivePolicyLimits,                  *)
(* emitLowBalanceNotification, resolveEffectivePolicy).                       *)
THEOREM LimitsAreHeld == Spec => []LimitsHold
<1>1. PartsInv => LimitsHold
  BY LimitInvHolds DEF PartsInv, LimitsHold
<1> QED BY <1>1, PartsStaySound, PTL
=============================================================================
