---------------------------- MODULE PullRequests ----------------------------
(***************************************************************************)
(* The operations on pull requests: Service.CreatePullRequest,             *)
(* MergePullRequest and ReassignReviewer, statement by statement, with the *)
(* transaction Storage.ReplaceReviewer that reassignment shares with the   *)
(* mass deactivation of a team.  The service reads outside of any          *)
(* transaction what it later writes in one: these reads are steps of their *)
(* own, and whatever other requests commit in between is not seen.         *)
(***************************************************************************)
EXTENDS ReviewStore

------------------------------------------------------------------------------
\* POST /pullRequest/create

AcceptCreate(r, p, author) ==
  Accept(r, [NoJob EXCEPT !.op = "create", !.pr = p, !.user = author], "cp_author")

CreateReadAuthor(r) ==
  /\ pc[r] = "cp_author"
  /\ \/ /\ users[job[r].user] = Null
        /\ Reply(r, "NOT_FOUND")
     \/ /\ users[job[r].user] # Null
        /\ job' = [job EXCEPT ![r].team = users[job[r].user].team]
        /\ Goto(r, "cp_candidates")
        /\ UNCHANGED tx
  /\ UNCHANGED <<db, issued>>

\* Mutant: the author is a candidate too.
CreatePickAnybody(r) ==
  /\ pc[r] = "cp_candidates"
  /\ \E S \in RandomPicks(ActiveTeamMembers(job[r].team, {}), 2) :
       job' = [job EXCEPT ![r].picked = S]
  /\ Goto(r, "cp_exists")
  /\ UNCHANGED <<db, tx, issued>>

\* The author is excluded in the query, then up to two candidates are drawn.
CreatePickReviewers(r) ==
  /\ pc[r] = "cp_candidates"
  /\ \E S \in RandomPicks(ActiveTeamMembers(job[r].team, {job[r].user}), 2) :
       job' = [job EXCEPT ![r].picked = S]
  /\ Goto(r, "cp_exists")
  /\ UNCHANGED <<db, tx, issued>>

\* First statement of the transaction: SELECT EXISTS.
CreateCheckExists(r) ==
  /\ pc[r] = "cp_exists"
  /\ \/ /\ prs[job[r].pr] # Null
        /\ Reply(r, "PR_EXISTS")
     \/ /\ prs[job[r].pr] = Null
        /\ Goto(r, "cp_insert")
        /\ UNCHANGED <<job, tx>>
  /\ UNCHANGED <<db, issued>>

\* Mutant: the insert is an upsert.
CreateUpsertPR(r) ==
  /\ pc[r] = "cp_insert"
  /\ PRFree(r, job[r].pr)
  /\ tx' = [tx EXCEPT ![r].pr = [status |-> "OPEN", author |-> job[r].user, mergedAt |-> 0]]
  /\ Goto(r, "cp_reviewers")
  /\ UNCHANGED <<db, job, issued>>

\* INSERT INTO pull_requests: waits for a concurrent insert of the same key, and
\* violates the primary key if that one has committed.
CreateInsertPR(r) ==
  /\ pc[r] = "cp_insert"
  /\ PRFree(r, job[r].pr)
  /\ \/ /\ prs[job[r].pr] # Null
        /\ Reply(r, "INTERNAL_ERROR")
     \/ /\ prs[job[r].pr] = Null
        /\ tx' = [tx EXCEPT ![r].pr = [status |-> "OPEN", author |-> job[r].user,
                                       mergedAt |-> 0]]
        /\ Goto(r, "cp_reviewers")
        /\ UNCHANGED job
  /\ UNCHANGED <<db, issued>>

\* insertReviewers, in one batch; nothing is sent when no one was picked.  The
\* keys are new with the PR, so no other session can hold them.
CreateInsertReviewers(r) ==
  /\ pc[r] = "cp_reviewers"
  /\ tx' = [tx EXCEPT ![r].new = job[r].picked]
  /\ Goto(r, "commit")
  /\ UNCHANGED <<db, job, issued>>

------------------------------------------------------------------------------
\* POST /pullRequest/merge

AcceptMerge(r, p) ==
  Accept(r, [NoJob EXCEPT !.op = "merge", !.pr = p], "mg_status")

AlreadyMerged(p) == prs[p].status = "MERGED" /\ prs[p].mergedAt # 0

MergeReadStatus(r) ==
  /\ pc[r] = "mg_status"
  /\ \/ /\ prs[job[r].pr] = Null
        /\ Reply(r, "NOT_FOUND")
     \/ /\ prs[job[r].pr] # Null
        /\ Goto(r, IF AlreadyMerged(job[r].pr) THEN "commit" ELSE "mg_update")
        /\ UNCHANGED <<job, tx>>
  /\ UNCHANGED <<db, issued>>

\* Mutant: merged_at = NOW(), without COALESCE.
MergedRowNow(r, p) == [prs[p] EXCEPT !.status = "MERGED", !.mergedAt = job[r].now]

\* UPDATE ... SET status, merged_at = COALESCE(merged_at, NOW()): waits for the
\* row, and is then evaluated on its latest committed version.
MergedRow(r, p) ==
  [prs[p] EXCEPT !.status = "MERGED",
                 !.mergedAt = IF prs[p].mergedAt # 0 THEN prs[p].mergedAt ELSE job[r].now]

MergeUpdate(r) ==
  /\ pc[r] = "mg_update"
  /\ PRFree(r, job[r].pr)
  /\ tx' = [tx EXCEPT ![r].pr = MergedRow(r, job[r].pr)]
  /\ Goto(r, "commit")
  /\ UNCHANGED <<db, job, issued>>

------------------------------------------------------------------------------
\* POST /pullRequest/reassign

AcceptReassign(r, p, old) ==
  Accept(r, [NoJob EXCEPT !.op = "reassign", !.pr = p, !.user = old], "ra_pr")

\* GetPullRequest is two queries: the row, with the status that is checked ...
ReassignReadPR(r) ==
  /\ pc[r] = "ra_pr"
  /\ \/ /\ prs[job[r].pr] = Null
        /\ Reply(r, "NOT_FOUND")
     \/ /\ prs[job[r].pr] # Null /\ prs[job[r].pr].status = "MERGED"
        /\ Reply(r, "PR_MERGED")
     \/ /\ prs[job[r].pr] # Null /\ prs[job[r].pr].status # "MERGED"
        /\ job' = [job EXCEPT ![r].author = prs[job[r].pr].author]
        /\ Goto(r, "ra_reviewers")
        /\ UNCHANGED tx
  /\ UNCHANGED <<db, issued>>

\* ... and the assigned reviewers.
ReassignReadReviewers(r) ==
  /\ pc[r] = "ra_reviewers"
  /\ \/ /\ job[r].user \notin reviewers[job[r].pr]
        /\ Reply(r, "NOT_ASSIGNED")
     \/ /\ job[r].user \in reviewers[job[r].pr]
        /\ job' = [job EXCEPT ![r].seen = reviewers[job[r].pr]]
        /\ Goto(r, "ra_user")
        /\ UNCHANGED tx
  /\ UNCHANGED <<db, issued>>

\* GetUserByID finds the row: reviewer_id is a foreign key and users are never
\* deleted (ForeignKeysHold).
ReassignReadUser(r) ==
  /\ pc[r] = "ra_user"
  /\ job' = [job EXCEPT ![r].team = users[job[r].user].team]
  /\ Goto(r, "ra_candidates")
  /\ UNCHANGED <<db, tx, issued>>

\* Mutant: the author is not excluded.
ExcludedNotAuthor(r) == {job[r].user} \cup job[r].seen

\* uniqueIDs(exclude): the old reviewer, the author and every reviewer read.
Excluded(r) == {job[r].user, job[r].author} \cup job[r].seen

ReassignPick(r) ==
  /\ pc[r] = "ra_candidates"
  /\ LET candidates == ActiveTeamMembers(job[r].team, Excluded(r)) IN
     \/ /\ candidates = {}
        /\ Reply(r, "NO_CANDIDATE")
     \/ /\ candidates # {}
        /\ \E S \in RandomPicks(candidates, 1) : job' = [job EXCEPT ![r].picked = S]
        /\ Goto(r, "rp_status")
        /\ UNCHANGED tx
  /\ UNCHANGED <<db, issued>>

------------------------------------------------------------------------------
\* Storage.ReplaceReviewer, for a reassignment and for a mass deactivation.

\* Mutant: the loop is left without recording the user in Skipped.
SkipSilently(r) ==
  /\ job' = [job EXCEPT ![r].work = [@ EXCEPT ![job[r].user] = {}]]
  /\ tx' = [tx EXCEPT ![r] = NoTx]
  /\ Goto(r, "md_next")

\* An error of ReplaceReviewer: the reassignment returns it; the deactivation
\* records it in Skipped and leaves the loop over this user's PRs.
SkipUser(r) ==
  /\ job' = [job EXCEPT ![r].skipped = @ \cup {job[r].user},
                        ![r].work = [@ EXCEPT ![job[r].user] = {}]]
  /\ tx' = [tx EXCEPT ![r] = NoTx]
  /\ Goto(r, "md_next")

ReplaceFails(r, code) ==
  IF job[r].op = "deactivate" THEN SkipUser(r) ELSE Reply(r, code)

\* Mutant: the status is not checked again in the transaction.
ReplaceTrustStatus(r) ==
  /\ pc[r] = "rp_status"
  /\ Goto(r, "rp_assigned")
  /\ UNCHANGED <<db, job, tx, issued>>

ReplaceReadStatus(r) ==
  /\ pc[r] = "rp_status"
  /\ \/ /\ prs[job[r].pr].status = "MERGED"
        /\ ReplaceFails(r, "PR_MERGED")
     \/ /\ prs[job[r].pr].status # "MERGED"
        /\ Goto(r, "rp_assigned")
        /\ UNCHANGED <<job, tx>>
  /\ UNCHANGED <<db, issued>>

ReplaceCheckAssigned(r) ==
  /\ pc[r] = "rp_assigned"
  /\ \/ /\ job[r].user \notin reviewers[job[r].pr]
        /\ ReplaceFails(r, "NOT_ASSIGNED")
     \/ /\ job[r].user \in reviewers[job[r].pr]
        /\ Goto(r, "rp_delete")
        /\ UNCHANGED <<job, tx>>
  /\ UNCHANGED <<db, issued>>

\* Mutants: the old reviewer stays; the removal is not recorded.
ReplaceKeepOld(r) ==
  /\ pc[r] = "rp_delete"
  /\ tx' = [tx EXCEPT ![r].dropped = {job[r].user}]
  /\ Goto(r, IF job[r].picked = {} THEN "commit" ELSE "rp_insert")
  /\ UNCHANGED <<db, job, issued>>

ReplaceDeleteNoEvent(r) ==
  /\ pc[r] = "rp_delete"
  /\ ReviewerFree(r, job[r].pr, job[r].user)
  /\ tx' = [tx EXCEPT ![r].gone = {job[r].user} \cap reviewers[job[r].pr]]
  /\ Goto(r, IF job[r].picked = {} THEN "commit" ELSE "rp_insert")
  /\ UNCHANGED <<db, job, issued>>

\* removeReviewer: the DELETE waits for the row if it sees one, and may then find
\* it gone; the UNASSIGNED event is inserted either way.
ReplaceDelete(r) ==
  /\ pc[r] = "rp_delete"
  /\ job[r].user \in reviewers[job[r].pr] => ReviewerFree(r, job[r].pr, job[r].user)
  /\ tx' = [tx EXCEPT ![r].gone = {job[r].user} \cap reviewers[job[r].pr],
                      ![r].dropped = {job[r].user}]
  /\ Goto(r, IF job[r].picked = {} THEN "commit" ELSE "rp_insert")
  /\ UNCHANGED <<db, job, issued>>

\* Mutant: INSERT ... ON CONFLICT DO NOTHING, with the event inserted anyway.
ReplaceInsertIfNew(r) ==
  /\ pc[r] = "rp_insert"
  /\ \A u \in job[r].picked : ReviewerFree(r, job[r].pr, u)
  /\ tx' = [tx EXCEPT ![r].new = job[r].picked]
  /\ Goto(r, "commit")
  /\ UNCHANGED <<db, job, issued>>

\* insertReviewers: the INSERT waits for the key, and violates the primary key
\* if the new reviewer has become one in the meantime.
ReplaceInsert(r) ==
  /\ pc[r] = "rp_insert"
  /\ \A u \in job[r].picked : ReviewerFree(r, job[r].pr, u)
  /\ \/ /\ job[r].picked \cap reviewers[job[r].pr] # {}
        /\ ReplaceFails(r, "INTERNAL_ERROR")
     \/ /\ job[r].picked \cap reviewers[job[r].pr] = {}
        /\ tx' = [tx EXCEPT ![r].new = job[r].picked]
        /\ Goto(r, "commit")
        /\ UNCHANGED job
  /\ UNCHANGED <<db, issued>>

------------------------------------------------------------------------------
\* The read after the commit (GetPullRequest, GetTeam, GetUserByID) and the reply.
ReadBack(r) ==
  /\ pc[r] = "readback"
  /\ \/ /\ job[r].op = "deactivate"
        /\ Goto(r, "md_next")
        /\ UNCHANGED <<job, tx>>
     \/ /\ job[r].op # "deactivate"
        /\ Reply(r, "OK")
  /\ UNCHANGED <<db, issued>>
==============================================================================
