----------------------------- MODULE MCPayments -----------------------------
(* A Stripe top-up, and subscriptions whose plans carry no wallet credit; an  *)
(* order paid at another provider is in MCLive.                               *)
EXTENDS Payments, TLC

CONSTANTS t, s1, s2, h1, h2, a1

Worths == [o \in Orders |-> IF o \in {s1, s2} THEN 0 ELSE 1]

Symmetry == Permutations({h1, h2})

(* The safety run keeps to four scenarios, since all orders together have    *)
(* too many states: a top-up with two handlers; a top-up with two checkout   *)
(* sessions and no refund; two subscriptions that share a group, without     *)
(* failures; one subscription with renewals.                                 *)
Used == {o \in Orders : session[o][1] # "none"}

Kinds == {e.kind : e \in DOMAIN event}

Busy == Cardinality({h \in Handlers : handler[h] # Idle})

(* A second refund event, after a partial refund or of one that was pending,  *)
(* while at most one handler works.                                          *)
Refunds == Cardinality({e \in DOMAIN event : e.kind = "refund"})

TopUp == /\ Used \subseteq {t} /\ session[t][2] = "none"
         /\ Refunds > 1 => Busy <= 1

TwoSessions == /\ Used = {t} /\ session[t][2] # "none"
               /\ Kinds \subseteq {"completed", "failed", "expired"}
               /\ Busy <= 1
               /\ \A a \in Admins : admin[a] = Free

Group == /\ Used \subseteq {s1, s2}
         /\ \A o \in Used : session[o][1] \in {"open", "paid"} /\ session[o][2] = "none"
         /\ Kinds \subseteq {"completed"}
         /\ Busy <= 1
         /\ \A h \in Handlers : handler[h].stage # "failed"

Renewal == /\ Used = {s1} /\ session[s1][2] = "none"
           /\ Kinds \subseteq {"completed", "renewal", "deleted"}

InScenario == TopUp \/ TwoSessions \/ Group \/ Renewal

=============================================================================
