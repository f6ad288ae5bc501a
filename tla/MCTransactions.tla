---------------------------- MODULE MCTransactions ----------------------------
(***************************************************************************)
(* An instance of TxRepository for TLC.                                    *)
(***************************************************************************)
EXTENDS TxProperties

CONSTANTS u1, u2, u3, u4, t1, t2, p1, p2, s1, s2

\* One team of all users but u4, who is not there yet, and an open PR of u1 that u2 reviews.
SeedOneReviewer ==
  [teams |-> {t1},
   users |-> [u \in UserIDs |-> IF u = u4 THEN Null ELSE [team |-> t1, active |-> TRUE]],
   prs |-> [p \in PRIDs |-> IF p = p1 THEN [status |-> "OPEN", author |-> u1,
                                            mergedAt |-> Null] ELSE Null],
   reviewers |-> {<<p1, u2>>},
   balance |-> [row \in PRIDs \X UserIDs |-> IF row = <<p1, u2>> THEN 1 ELSE 0]]

Make(method) == [NoCall EXCEPT !.method = method]

\* Calls that meet on the same rows, in both orders where order matters.
SomeCalls ==
  {[Make("create_team") EXCEPT !.team = t2, !.ids = {u2, u4}, !.on = {u2}],
   [Make("set_active") EXCEPT !.user = u4],
   [Make("deactivate") EXCEPT !.ids = {u2, u3, u4}],
   [Make("create_pr") EXCEPT !.pr = p2, !.user = u1, !.ids = {u2, u4}],
   [Make("merge") EXCEPT !.pr = p1],
   [Make("replace") EXCEPT !.pr = p1, !.user = u2, !.new = u3],
   [Make("replace") EXCEPT !.pr = p1, !.user = u2],
   [Make("get_team") EXCEPT !.team = t2],
   [Make("get_pr") EXCEPT !.pr = p1],
   [Make("active_members") EXCEPT !.team = t1, !.ids = {u1}],
   [Make("open_prs") EXCEPT !.ids = {u2}],
   [Make("get_user") EXCEPT !.user = u2],
   [Make("assignments") EXCEPT !.user = u2],
   Make("stats")}

\* One transaction of two calls, one of a single call.
TwoAndOne == [s \in Sessions |-> IF s = s1 THEN 2 ELSE 1]
==============================================================================
