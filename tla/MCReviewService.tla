--------------------------- MODULE MCReviewService ---------------------------
(***************************************************************************)
(* Instances of ReviewService for TLC: the databases the runs start from,  *)
(* the traffic sent to the goroutines, and their symmetry.                 *)
(***************************************************************************)
EXTENDS ReviewInvariant, TLC

CONSTANTS u1, u2, u3, u4, u5, t1, t2, p1, p2, r1, r2, r3

NoEvents == [p \in PRIDs |-> [u \in UserIDs |-> 0]]

\* A table of users: the members of each team, all active but those in inactive.
Staff(team, inactive) ==
  [u \in UserIDs |-> IF u \in DOMAIN team
                     THEN [team |-> team[u], active |-> u \notin inactive]
                     ELSE Null]

OpenPR(author) == [status |-> "OPEN", author |-> author, mergedAt |-> 0]

\* One team, one open PR by u1 with the reviewers given.
OnePR(staff, revs) ==
  [teams |-> {t1}, users |-> staff,
   prs |-> [p \in PRIDs |-> IF p = p1 THEN OpenPR(u1) ELSE Null],
   reviewers |-> [p \in PRIDs |-> IF p = p1 THEN revs ELSE {}],
   assigned |-> [p \in PRIDs |-> [u \in UserIDs |-> IF p = p1 /\ u \in revs THEN 1 ELSE 0]],
   unassigned |-> NoEvents]

NoPRs(staff) ==
  [teams |-> {t1}, users |-> staff, prs |-> [p \in PRIDs |-> Null],
   reviewers |-> [p \in PRIDs |-> {}], assigned |-> NoEvents, unassigned |-> NoEvents]

AllIn(t) == [u \in UserIDs |-> t]

SeedOneReviewer  == OnePR(Staff(AllIn(t1), {}), {u2})
SeedTwoReviewers == OnePR(Staff(AllIn(t1), {}), {u2, u3})

\* Nothing but users; u5 belongs to another team.
SeedTwoTeams ==
  [NoPRs(Staff([u \in UserIDs |-> IF u = u5 THEN t2 ELSE t1], {})) EXCEPT
     !.teams = {t1, t2}]

\* u2 reviews both PRs of u1, u3 the first one.
SeedTwoPRs ==
  [OnePR(Staff(AllIn(t1), {}), {u2, u3}) EXCEPT
     !.prs = [p \in PRIDs |-> OpenPR(u1)],
     !.reviewers = [p \in PRIDs |-> IF p = p1 THEN {u2, u3} ELSE {u2}],
     !.assigned = [p \in PRIDs |-> [u \in UserIDs |->
        IF u = u2 \/ (u = u3 /\ p = p1) THEN 1 ELSE 0]]]

SameFor(ops) == [r \in Requests |-> ops]

TrafficAll        == SameFor(Ops)
TrafficPRs        == SameFor({"create", "merge", "reassign"})
TrafficReassign   == SameFor({"reassign"})
TrafficDeactivate == SameFor({"deactivate"})
TrafficMergeReassign == SameFor({"merge", "reassign"})
TrafficReassignSetActive == SameFor({"reassign", "set_active"})

\* One goroutine replaces reviewers, the others merge.
TrafficOneReplacer ==
  [r \in Requests |-> IF r = r1 THEN {"reassign", "deactivate"} ELSE {"merge"}]

SymmetricRequests == Permutations(Requests)

\* The users of SeedTwoTeams differ by their team only.
SymmetricUsersAndRequests == Permutations({u1, u2, u3, u4}) \cup Permutations(Requests)
==============================================================================
