---------------------------- MODULE MCOAuthJobs ----------------------------
(* A job to authorize the account again and one to revoke it, two attempts   *)
(* each, and two workers.                                                    *)
EXTENDS OAuthJobs, TLC

CONSTANTS j1, j2, w1, w2

Kinds == (j1 :> "reauth") @@ (j2 :> "revoke")

OwnNames == [w \in Workers |-> w]

=============================================================================
