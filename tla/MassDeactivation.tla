-------------------------- MODULE MassDeactivation --------------------------
(***************************************************************************)
(* Service.MassDeactivate.  The whole of it runs in trMgr.Do, but every    *)
(* method of Storage takes its connection from the pool and not from the   *)
(* transaction the manager keeps in the context: DeactivateUsers and each  *)
(* ReplaceReviewer commit on their own, and the manager's transaction is   *)
(* an empty one around them.                                               *)
(***************************************************************************)
EXTENDS PullRequests

AcceptDeactivate(r, t, ids) ==
  Accept(r, [NoJob EXCEPT !.op = "deactivate", !.team = t, !.ids = ids], "md_team")

Members(t) == {u \in UserIDs : users[u] # Null /\ users[u].team = t}

\* An empty list of ids stands for all members; the inactive ones are left out.
DeactivationTargets(t, ids) ==
  {u \in (IF ids = {} THEN Members(t) ELSE ids) : users[u].active}

\* GetTeam reads the members and, if there are none, whether there is such a team;
\* the ids are validated against the members.  All of it before the transaction.
DeactivateReadTeam(r) ==
  /\ pc[r] = "md_team"
  /\ LET t == job[r].team
         ids == job[r].ids
     IN \/ /\ Members(t) = {}
           /\ Goto(r, "md_exists")
           /\ UNCHANGED <<job, tx>>
        \/ /\ Members(t) # {}
           /\ ~(ids \subseteq Members(t))
           /\ Reply(r, "NOT_FOUND")
        \/ /\ Members(t) # {}
           /\ ids \subseteq Members(t)
           /\ DeactivationTargets(t, ids) = {}
           /\ Reply(r, "OK")
        \/ /\ Members(t) # {}
           /\ ids \subseteq Members(t)
           /\ DeactivationTargets(t, ids) # {}
           /\ job' = [job EXCEPT ![r].targets = DeactivationTargets(t, ids),
                                 ![r].ids = DeactivationTargets(t, ids)]
           /\ Goto(r, "md_update")
           /\ UNCHANGED tx
  /\ UNCHANGED <<db, issued>>

\* No member was read: no id can be one of theirs, and nobody is deactivated.
DeactivateTeamExists(r) ==
  /\ pc[r] = "md_exists"
  /\ \/ /\ job[r].team \notin teams \/ job[r].ids # {}
        /\ Reply(r, "NOT_FOUND")
     \/ /\ job[r].team \in teams /\ job[r].ids = {}
        /\ Reply(r, "OK")
  /\ UNCHANGED <<db, issued>>

\* DeactivateUsers: one UPDATE that locks its rows one after the other, in the
\* order of the scan (any order), waiting for each; ids are the rows to come.
DeactivateUpdate(r) ==
  /\ pc[r] = "md_update"
  /\ \E u \in job[r].ids :
       /\ UserFree(r, u)
       /\ tx' = [tx EXCEPT ![r].users = [@ EXCEPT ![u] =
                   [users[u] EXCEPT !.active = FALSE]]]
       /\ job' = [job EXCEPT ![r].ids = @ \ {u}]
       /\ Goto(r, IF job[r].ids = {u} THEN "md_commit" ELSE "md_update")
  /\ UNCHANGED <<db, issued>>

\* The COMMIT of DeactivateUsers' own transaction, followed by the read of the
\* deactivated users.
DeactivateCommit(r) ==
  /\ pc[r] = "md_commit"
  /\ Publish(r)
  /\ Goto(r, "md_list")
  /\ UNCHANGED <<job, issued>>

\* ListOpenPRsByReviewer.
DeactivateListOpenPRs(r) ==
  /\ pc[r] = "md_list"
  /\ job' = [job EXCEPT ![r].work = [u \in UserIDs |->
       IF u \in job[r].targets
       THEN {p \in PRIDs : u \in reviewers[p] /\ prs[p].status = "OPEN"}
       ELSE {}]]
  /\ Goto(r, "md_next")
  /\ UNCHANGED <<db, tx, issued>>

\* The two loops: all PRs of a user before those of the next one.
CurrentUsers(r) ==
  IF job[r].user # Null /\ job[r].work[job[r].user] # {}
  THEN {job[r].user}
  ELSE {u \in UserIDs : job[r].work[u] # {}}

DeactivateNextPR(r) ==
  /\ pc[r] = "md_next"
  /\ \E u \in CurrentUsers(r) : \E p \in job[r].work[u] :
       job' = [job EXCEPT ![r] = [@ EXCEPT !.user = u, !.pr = p,
                                           !.work = [job[r].work EXCEPT ![u] = @ \ {p}]]]
  /\ Goto(r, "md_pr")
  /\ UNCHANGED <<db, tx, issued>>

DeactivateLoopEnds(r) ==
  /\ pc[r] = "md_next"
  /\ CurrentUsers(r) = {}
  /\ Goto(r, "md_finish")
  /\ UNCHANGED <<db, job, tx, issued>>

\* GetPullRequest: the row, then the reviewers.  The status is not looked at.
DeactivateReadPR(r) ==
  /\ pc[r] = "md_pr"
  /\ job' = [job EXCEPT ![r].author = prs[job[r].pr].author]
  /\ Goto(r, "md_reviewers")
  /\ UNCHANGED <<db, tx, issued>>

DeactivateReadReviewers(r) ==
  /\ pc[r] = "md_reviewers"
  /\ job' = [job EXCEPT ![r].seen = reviewers[job[r].pr]]
  /\ Goto(r, "md_candidates")
  /\ UNCHANGED <<db, tx, issued>>

\* Without a candidate the slot is freed: ReplaceReviewer gets an empty id.
DeactivatePick(r) ==
  /\ pc[r] = "md_candidates"
  /\ \E S \in RandomPicks(ActiveTeamMembers(job[r].team, Excluded(r)), 1) :
       job' = [job EXCEPT ![r].picked = S]
  /\ Goto(r, "rp_status")
  /\ UNCHANGED <<db, tx, issued>>

\* The manager commits its own, empty transaction.
DeactivateFinish(r) ==
  /\ pc[r] = "md_finish"
  /\ Reply(r, "OK")
  /\ UNCHANGED <<db, issued>>
==============================================================================
