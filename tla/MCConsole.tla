------------------------------ MODULE MCConsole ------------------------------
(* Small worlds for each part of the console.                                 *)
EXTENDS Console, Sequences, TLC

(* AccountCare: one account that fails whatever is asked of it, with and      *)
(* without a channel, one wake-up job, one worker and one administrator.      *)
Failing == [channel |-> TRUE, last |-> "failed", ms |-> 0, tests |-> 1, badTests |-> 1,
            successes |-> 0, failures |-> 5, circuitFailures |-> 4,
            runtimeError |-> TRUE, testError |-> TRUE]

MCSamples == {Failing, [Failing EXCEPT !.channel = FALSE]}

(* Admission: two requests in flight and three in all, one key, one group,    *)
(* and a day or a write of an administrator.                                  *)
Rule == [action |-> "flag"]

Ask == [endpoint |-> "chat", estimate |-> 1, byo |-> FALSE, matched |-> {Rule}]

Row(endpoint, permission) ==
  [group |-> "g1", model |-> "m", endpoint |-> endpoint, permission |-> permission,
   rate |-> -1, times |-> 1]

Daily   == [day |-> 2, month |-> 1, dayN |-> 3, monthN |-> -1, low |-> 8, status |-> "active"]
Monthly == [day |-> -1, month |-> 4, dayN |-> 3, monthN |-> 3, low |-> 9, status |-> "active"]
NoRow   == [day |-> -1, month |-> -1, dayN |-> -1, monthN |-> -1, low |-> -1, status |-> "none"]

Grouped == [status |-> "active", priority |-> 1, month |-> 3, rate |-> 1, times |-> 1]

Start(own, groups, permissions) ==
  [limit  |-> ("user" :> own @@ "k1" :> NoRow), group |-> ("g1" :> Grouped),
   joined |-> groups, rows |-> permissions, rules |-> [u \in {Rule} |-> "active"]]

MCAsks   == {Ask}
MCRules  == {Rule}
MCRows   == {Row("", "allow"), Row("chat", "deny"), Row("embeddings", "deny")}
MCLimits == {Daily, Monthly}
MCGroupOrders == {Grouped}
MCStarts == {Start(Daily, <<>>, {}),
             Start(NoRow, <<"g1">>, {Row("", "allow")}),
             Start(NoRow, <<"g1">>, {Row("", "allow"), Row("chat", "deny")})}

(* Notifications: one event, two channels, two dispatchers.                   *)
MCKinds == [e \in Events |-> [type |-> "low_balance", severity |-> "warning"]]
MCEdits == {[status |-> "active", min |-> "warning", types |-> {"low_balance"}, sealed |-> TRUE],
            [status |-> "active", min |-> "critical", types |-> {}, sealed |-> FALSE]}

(* Members: two addresses, one redeem code and two handlers, with three       *)
(* requests after nobody is there, an owner and a user, or two users.         *)
Absent == [type |-> "none", status |-> "active", password |-> 0, verified |-> FALSE, by |-> "none"]
Joined == [Absent EXCEPT !.type = "personal_user", !.password = 1, !.by = "register"]
Unmade == [status |-> "active", max |-> 1, count |-> 0, claims |-> {}, past |-> FALSE]

People(u1, u2, c, v) ==
  [user |-> ("e1" :> u1 @@ "e2" :> u2), code |-> [x \in {"code"} |-> c], verify |-> v]

MCWorlds == {People(Absent, Absent, [Unmade EXCEPT !.status = "none"], TRUE),
             People([Absent EXCEPT !.type = "platform_owner", !.password = 1, !.by = "setup"],
                    Joined, Unmade, FALSE),
             People(Joined, Joined, Unmade, FALSE)}

(* Catalogue: two models, one endpoint, one channel and two administrators,   *)
(* with three requests after an empty catalogue or one with a model that is   *)
(* mapped to another by hand.                                                 *)
Body == [mode |-> "keep", expr |-> "keep", aliases |-> {}, status |-> "keep",
         visible |-> "keep", caps |-> {}]

Stock(ns, status) ==
  [model   |-> [n \in {"x", "y"} |-> IF n \in ns
                  THEN [status |-> "active", visible |-> "hidden", caps |-> {"chat"}]
                  ELSE [status |-> "none", visible |-> "hidden", caps |-> {}]],
   price   |-> [n \in {"x", "y"} |-> [mode |-> "standard", expr |-> IF n \in ns THEN "good" ELSE ""]],
   channel |-> [c \in {"c"} |-> status],
   ability |-> [k \in {"c"} \X {"x", "y"} \X {"chat"} |-> IF k[2] \in ns THEN "y" ELSE NoName]]

MCBodies == {[Body EXCEPT !.mode = "tiered_expr"], [Body EXCEPT !.expr = ""],
             [Body EXCEPT !.expr = "good"],
             [Body EXCEPT !.mode = "tiered_expr", !.expr = "good"],
             [Body EXCEPT !.aliases = {{"y"}}, !.status = "disabled"]}
MCListings == {{}, {[name |-> "x", endpoints |-> {}], [name |-> NoName, endpoints |-> {}]}}
MCStocks  == {Stock({}, "none"), Stock({"x"}, "active")}
=============================================================================
