------------------------------ MODULE Members ------------------------------
(* The users of a relay and what they hold: sessions, a wallet row, an API    *)
(* key, the codes and tokens that are mailed to them, and the redeem codes    *)
(* they claim.  A handler is a run of one HTTP request; between two of its    *)
(* statements or transactions others may come, and it may be dropped.         *)
EXTENDS Integers, FiniteSets

CONSTANTS Emails, Codes, Handlers, Passwords,
          Settings,      \* worlds to begin in: [user, code, verify]
          NoEmail, NoCode,
          MaxClaims, MaxRequests

VARIABLES user,     \* [Emails -> users]; the type "none": no row
          wallet,   \* [Emails -> what redeem codes have credited, or -1: no row]
          session,  \* [Emails -> [Audiences -> sessions neither revoked nor past]]
          secret,   \* [Emails -> [Kinds -> [live, made, spent]]]: ids, and how many
          key,      \* [Emails -> api_keys.status, or "none"]
          code,     \* [Codes -> [status, max, count, claims, past]]: redeem_codes
          verify,   \* registration needs a code from a mail
          task,     \* [Handlers -> [stage, email, kind, id, row]]
          requests

vars == <<user, wallet, session, secret, key, code, verify, task, requests>>

Types       == {"personal_user", "operator", "platform_owner"}
Statuses    == {"active", "disabled", "pending"}
Audiences   == {"portal", "admin"}
Kinds       == {"registration", "password_reset", "email_verification"}
KeyStatuses == {"active", "disabled", "revoked"}

(* by: who made the row, or made its user an owner.                           *)
NoUser == [type |-> "none", status |-> "active", password |-> 0, verified |-> FALSE, by |-> "none"]
NoCodeRow == [status |-> "none", max |-> 1, count |-> 0, claims |-> {}, past |-> FALSE]

Idle == [stage |-> "idle", email |-> NoEmail, kind |-> "any", id |-> 0, row |-> NoUser, code |-> NoCode]

Exists(e) == user[e].type # "none"
Owners    == {e \in Emails : user[e].type = "platform_owner"}

(* workspaceForUserType                                                       *)
Workspace(type) == IF type = "personal_user" THEN "portal" ELSE "admin"

Makers   == {"none", "setup", "seed", "register", "admin"}
UserRows == [type : Types \cup {"none"}, status : Statuses, password : Passwords \cup {0},
             verified : BOOLEAN, by : Makers]
CodeRows == [status : {"none", "active", "disabled", "expired"}, max : 1 .. MaxClaims,
             count : 0 .. MaxClaims, claims : SUBSET Emails, past : BOOLEAN]

TypeOK ==
  /\ user \in [Emails -> UserRows] /\ code \in [Codes -> CodeRows]
  /\ \A e \in Emails : /\ wallet[e] \in -1 .. Cardinality(Codes)
                       /\ key[e] \in KeyStatuses \cup {"none"}
                       /\ session[e] \in [Audiences -> 0 .. MaxRequests + 1]
                       /\ \A k \in Kinds : secret[e][k].live \subseteq 1 .. secret[e][k].made
  /\ requests \in 0 .. MaxRequests

Init ==
  \E s \in Settings :
    /\ user = s.user /\ code = s.code /\ verify = s.verify
    /\ wallet = [e \in Emails |-> IF s.user[e].type = "personal_user" THEN 0 ELSE -1]
    /\ session = [e \in Emails |-> [a \in Audiences |->
                    IF s.user[e].type # "none" /\ a = Workspace(s.user[e].type) THEN 1 ELSE 0]]
    /\ secret = [e \in Emails |-> [k \in Kinds |-> [live |-> {}, made |-> 0, spent |-> 0]]]
    /\ key = [e \in Emails |-> "none"]
    /\ task = [h \in Handlers |-> Idle] /\ requests = 0

-----------------------------------------------------------------------------
(* What a request begins with.                                                *)
Request == requests < MaxRequests /\ requests' = requests + 1

Go(h, t)       == task' = [task EXCEPT ![h] = t]
Begin(h, t)    == Request /\ task[h] = Idle /\ Go(h, t)
Then(h, stage) == Go(h, [task[h] EXCEPT !.stage = stage])
In(h, stage)   == task[h].stage = stage /\ UNCHANGED requests

(* requireSession: the portal also lets administrators in.                    *)
Has(e, a)   == session[e][a] > 0 /\ user[e].status = "active"
InPortal(e) == Has(e, "portal") \/ (Has(e, "admin") /\ user[e].type \in {"operator", "platform_owner"})

(* hasAdminPermission: operators may reset passwords, not write users.        *)
Operating == \E e \in Emails : Has(e, "admin") /\ user[e].type \in {"operator", "platform_owner"}
Owning    == \E e \in Emails : Has(e, "admin") /\ user[e].type = "platform_owner"

Row(type, p, by) == [NoUser EXCEPT !.type = type, !.password = p, !.by = by]

(* A row of users, and a wallet for a personal user, in one transaction.      *)
Insert(e, row) ==
  /\ ~Exists(e)
  /\ user' = [user EXCEPT ![e] = row]
  /\ wallet' = [wallet EXCEPT ![e] = IF row.type = "personal_user" THEN 0 ELSE @]

(* The setup: a look without a lock, and another in the transaction that      *)
(* locks the table.                                                           *)
CheckSetup(h, e, p) ==
  /\ Begin(h, [Idle EXCEPT !.stage = "setup", !.email = e, !.row = Row("platform_owner", p, "setup")])
  /\ Owners = {}
  /\ UNCHANGED <<user, wallet, session, secret, key, code, verify>>

CreateOwner(h) ==
  /\ In(h, "setup") /\ Owners = {}
  /\ Insert(task[h].email, task[h].row)
  /\ Go(h, [task[h] EXCEPT !.stage = "load", !.kind = "admin"])
  /\ UNCHANGED <<session, secret, key, code, verify>>

(* SeedOwner and seedPersonalUser, when an instance starts.                   *)
Seed(e, type) ==
  /\ Request /\ type \in {"personal_user", "platform_owner"}
  /\ Insert(e, Row(type, 1, "seed"))
  /\ UNCHANGED <<session, secret, key, code, verify, task>>

-----------------------------------------------------------------------------
(* Login: the row is read and compared; the session is inserted later.        *)
Login(h, e, p, workspace) ==
  /\ Begin(h, [Idle EXCEPT !.stage = "load", !.email = e, !.kind = workspace, !.row.password = p])
  /\ UNCHANGED <<user, wallet, session, secret, key, code, verify>>

Load(h) ==
  LET e == task[h].email
  IN  /\ In(h, "load")
      /\ IF /\ Exists(e) /\ user[e].status = "active" /\ user[e].password = task[h].row.password
            /\ task[h].kind \in {"any", Workspace(user[e].type)}
         THEN Go(h, [task[h] EXCEPT !.stage = "open", !.kind = Workspace(user[e].type)])
         ELSE Go(h, Idle)
      /\ UNCHANGED <<user, wallet, session, secret, key, code, verify>>

OpenSession(h) ==
  /\ In(h, "open") /\ Go(h, Idle)
  /\ session' = [session EXCEPT ![task[h].email][task[h].kind] = @ + 1]
  /\ UNCHANGED <<user, wallet, secret, key, code, verify>>

(* A session is revoked or its time is over.                                  *)
Logout(e, a) ==
  /\ Request /\ session[e][a] > 0
  /\ session' = [session EXCEPT ![e][a] = @ - 1]
  /\ UNCHANGED <<user, wallet, secret, key, code, verify, task>>

-----------------------------------------------------------------------------
(* Codes and tokens: those before are used up, then a new one is inserted.    *)
(* A failing mail leaves it valid.                                            *)
Ask(h, e, kind) ==
  /\ Begin(h, [Idle EXCEPT !.stage = "retire", !.email = e, !.kind = kind])
  /\ UNCHANGED <<user, wallet, session, secret, key, code, verify>>

RequestCode(h, e)         == verify /\ ~Exists(e) /\ Ask(h, e, "registration")
RequestReset(h, e)        == user[e].type = "personal_user" /\ user[e].status = "active"
                             /\ Ask(h, e, "password_reset")
AdminReset(h, e)          == Operating /\ Exists(e) /\ Ask(h, e, "password_reset")
RequestVerification(h, e) == InPortal(e) /\ ~user[e].verified /\ Ask(h, e, "email_verification")

Retired(s) == [s EXCEPT !.live = {}]
Issued(s)  == [s EXCEPT !.made = @ + 1, !.live = @ \cup {s.made + 1}]

Used(s, id) == [s EXCEPT !.live = @ \ {id}, !.spent = @ + 1]

Retire(h) ==
  /\ In(h, "retire") /\ Then(h, "insert")
  /\ secret' = [secret EXCEPT ![task[h].email][task[h].kind] = Retired(@)]
  /\ UNCHANGED <<user, wallet, session, key, code, verify>>

Issue(h) ==
  /\ In(h, "insert") /\ Go(h, Idle)
  /\ secret' = [secret EXCEPT ![task[h].email][task[h].kind] = Issued(@)]
  /\ UNCHANGED <<user, wallet, session, key, code, verify>>

Expire(e, k) ==
  /\ \E id \in secret[e][k].live : secret' = [secret EXCEPT ![e][k].live = @ \ {id}]
  /\ UNCHANGED <<user, wallet, session, key, code, verify, task, requests>>

(* The statement that consumes a registration code finds its id first and     *)
(* checks nothing else of the row once it has it: two registrations with one  *)
(* code both go on, to a row of users with one e-mail.                        *)
Register(h, e, p) ==
  LET t == [Idle EXCEPT !.email = e, !.row = Row("personal_user", p, "register")]
  IN  /\ \/ ~verify /\ Begin(h, [t EXCEPT !.stage = "create"])
         \/ verify /\ \E id \in secret[e]["registration"].live :
                         Begin(h, [t EXCEPT !.stage = "consume", !.id = id])
      /\ UNCHANGED <<user, wallet, session, secret, key, code, verify>>

ConsumeCode(h) ==
  /\ In(h, "consume") /\ Then(h, "create")
  /\ secret' = [secret EXCEPT ![task[h].email]["registration"] = Used(@, task[h].id)]
  /\ UNCHANGED <<user, wallet, session, key, code, verify>>

CreateUser(h) ==
  LET e == task[h].email
  IN  /\ In(h, "create")
      /\ Insert(e, task[h].row)
      /\ secret' = [secret EXCEPT ![e]["email_verification"] = Issued(Retired(@))]
      /\ Go(h, [task[h] EXCEPT !.stage = "load", !.kind = "portal"])
      /\ UNCHANGED <<session, key, code, verify>>

(* One transaction: the token, the password, and every session of the user.   *)
ConfirmReset(e, p) ==
  /\ Request
  /\ \E id \in secret[e]["password_reset"].live :
        secret' = [secret EXCEPT ![e]["password_reset"] = Used(@, id)]
  /\ user' = [user EXCEPT ![e].password = p]
  /\ session' = [session EXCEPT ![e] = [a \in Audiences |-> 0]]
  /\ UNCHANGED <<wallet, key, code, verify, task>>

ConfirmEmail(h, e) ==
  /\ Begin(h, [Idle EXCEPT !.stage = "verify", !.email = e])
  /\ \E id \in secret[e]["email_verification"].live :
        secret' = [secret EXCEPT ![e]["email_verification"] = Used(@, id)]
  /\ UNCHANGED <<user, wallet, session, key, code, verify>>

MarkVerified(h) ==
  /\ In(h, "verify") /\ Go(h, Idle)
  /\ user' = [user EXCEPT ![task[h].email].verified = TRUE]
  /\ UNCHANGED <<wallet, session, secret, key, code, verify>>

-----------------------------------------------------------------------------
(* portalRedeem: ensureWalletForUser, then one transaction on the locked row  *)
(* of the code.                                                               *)
EnsureWallet(h, e, c) ==
  /\ InPortal(e)
  /\ Begin(h, [Idle EXCEPT !.stage = "redeem", !.email = e, !.code = c])
  /\ wallet' = [wallet EXCEPT ![e] = IF @ = -1 THEN 0 ELSE @]
  /\ UNCHANGED <<user, session, secret, key, code, verify>>

Redeemable(c, e) ==
  /\ code[c].status = "active" /\ ~code[c].past
  /\ code[c].count < code[c].max
  /\ e \notin code[c].claims

Claimed(c, e) == [code EXCEPT ![c].count = @ + 1, ![c].claims = @ \cup {e}]

(* The code's row is checked before it is locked; the unique claim remains.   *)
Redeem_CheckedBefore(h) ==
  LET e == task[h].email
      c == task[h].code
  IN  /\ In(h, "redeem") /\ e \notin code[c].claims /\ Go(h, Idle)
      /\ wallet' = [wallet EXCEPT ![e] = @ + 1]
      /\ code' = Claimed(c, e)
      /\ UNCHANGED <<user, session, secret, key, verify>>

Redeem(h) ==
  LET e == task[h].email
      c == task[h].code
  IN  /\ In(h, "redeem") /\ Redeemable(c, e) /\ Go(h, Idle)
      /\ wallet' = [wallet EXCEPT ![e] = @ + 1]
      /\ code' = Claimed(c, e)
      /\ UNCHANGED <<user, session, secret, key, verify>>

CreateRedeemCode(c, m) ==
  /\ Request /\ Owning /\ code[c].status = "none"
  /\ code' = [code EXCEPT ![c] = [NoCodeRow EXCEPT !.status = "active", !.max = m]]
  /\ UNCHANGED <<user, wallet, session, secret, key, verify, task>>

(* Every field is a statement of its own; the table refuses a max_claims      *)
(* below what was claimed.                                                    *)
PatchRedeemCode(c) ==
  /\ Request /\ Owning /\ code[c].status # "none"
  /\ \/ \E s \in {"active", "disabled", "expired"} : code' = [code EXCEPT ![c].status = s]
     \/ \E m \in 1 .. MaxClaims : m >= code[c].count /\ code' = [code EXCEPT ![c].max = m]
     \/ \E b \in BOOLEAN : code' = [code EXCEPT ![c].past = b]
  /\ UNCHANGED <<user, wallet, session, secret, key, verify, task>>

(* API keys.  A patch writes back every column of the row it has read, the    *)
(* status too, unless it was given another.                                   *)
CreateKey(e) ==
  /\ Request /\ InPortal(e) /\ key[e] = "none"
  /\ key' = [key EXCEPT ![e] = "active"]
  /\ UNCHANGED <<user, wallet, session, secret, code, verify, task>>

ReadKey(h, e) ==
  /\ InPortal(e) /\ key[e] # "none"
  /\ Begin(h, [Idle EXCEPT !.stage = "key", !.email = e, !.kind = key[e]])
  /\ UNCHANGED <<user, wallet, session, secret, key, code, verify>>

PatchKey(h) ==
  /\ In(h, "key") /\ Go(h, Idle)
  /\ \E s \in KeyStatuses : key' = [key EXCEPT ![task[h].email] = s]
  /\ UNCHANGED <<user, wallet, session, secret, code, verify>>

DeleteKey(e) ==
  /\ Request /\ InPortal(e) /\ key[e] # "none"
  /\ key' = [key EXCEPT ![e] = "revoked"]
  /\ UNCHANGED <<user, wallet, session, secret, code, verify, task>>

(* Users, by an owner.                                                        *)
AdminCreateUser(e, type, status) ==
  /\ Request /\ Owning /\ type \in {"personal_user", "operator"}
  /\ Insert(e, [Row(type, 1, "admin") EXCEPT !.status = status])
  /\ UNCHANGED <<session, secret, key, code, verify, task>>

ReadUser(h, e) ==
  /\ Owning /\ Exists(e)
  /\ Begin(h, [Idle EXCEPT !.stage = "user", !.email = e, !.row = user[e]])
  /\ UNCHANGED <<user, wallet, session, secret, key, code, verify>>

(* Type and status as they were read, or one of them as it was given.         *)
PatchUser(h) ==
  LET e == task[h].email
      row == task[h].row
      written(type, status) ==
        [user EXCEPT ![e].type = type, ![e].status = status,
                     ![e].by = IF type = "platform_owner" /\ user[e].type # type THEN "admin" ELSE @]
  IN  /\ In(h, "user") /\ Go(h, Idle)
      /\ \/ \E s \in Statuses : user' = written(row.type, s)
         \/ \E t \in Types : user' = written(t, row.status)
      /\ UNCHANGED <<wallet, session, secret, key, code, verify>>

(* A check that refuses, a statement that fails, an instance that dies.       *)
Drop(h) ==
  /\ task[h].stage # "idle" /\ Go(h, Idle)
  /\ UNCHANGED <<user, wallet, session, secret, key, code, verify, requests>>

-----------------------------------------------------------------------------
Asked(h) ==
  \E e \in Emails :
    \/ \E p \in Passwords : CheckSetup(h, e, p) \/ Register(h, e, p)
    \/ \E p \in Passwords, w \in {"any"} \cup Audiences : Login(h, e, p, w)
    \/ RequestCode(h, e) \/ RequestReset(h, e) \/ AdminReset(h, e) \/ RequestVerification(h, e)
    \/ ConfirmEmail(h, e) \/ ReadKey(h, e) \/ ReadUser(h, e)
    \/ \E c \in Codes : EnsureWallet(h, e, c)

Work(h) == \/ CreateOwner(h) \/ Load(h) \/ OpenSession(h) \/ Retire(h) \/ Issue(h)
           \/ ConsumeCode(h) \/ CreateUser(h) \/ MarkVerified(h) \/ Redeem(h)
           \/ PatchKey(h) \/ PatchUser(h) \/ Drop(h)

AtOnce ==
  \/ \E e \in Emails :
       \/ CreateKey(e) \/ DeleteKey(e)
       \/ \E a \in Audiences : Logout(e, a)
       \/ \E k \in Kinds : Expire(e, k)
       \/ \E p \in Passwords : ConfirmReset(e, p)
       \/ \E t \in Types, s \in Statuses : AdminCreateUser(e, t, s)
       \/ \E t \in Types : Seed(e, t)
  \/ \E c \in Codes : PatchRedeemCode(c) \/ \E m \in 1 .. MaxClaims : CreateRedeemCode(c, m)

Next == AtOnce \/ \E h \in Handlers : Asked(h) \/ Work(h)

Spec == Init /\ [][Next]_vars

-----------------------------------------------------------------------------
(* What may happen once happens once, whoever asks at the same time: a redeem *)
(* code is claimed once by a user and no more often than it may be, and every *)
(* claim, and nothing else, is credited; a token is used once; only one of    *)
(* the owners was made by the setup (portalRedeem, portalConfirmPasswordReset,*)
(* consumeUserSecurityToken, setupCreateOwner).                               *)
OnceEach ==
  /\ \A c \in Codes : code[c].count = Cardinality(code[c].claims) /\ code[c].count <= code[c].max
  /\ \A e \in Emails :
       /\ wallet[e] # -1 => wallet[e] = Cardinality({c \in Codes : e \in code[c].claims})
       /\ \A k \in Kinds \ {"registration"} :
            secret[e][k].spent + Cardinality(secret[e][k].live) <= secret[e][k].made
  /\ Cardinality({e \in Owners : user[e].by = "setup"}) <= 1
==============================================================================
