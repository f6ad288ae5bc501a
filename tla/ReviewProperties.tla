-------------------------- MODULE ReviewProperties --------------------------
(***************************************************************************)
(* What the service promises, and what its documents say it does.          *)
(***************************************************************************)
EXTENDS ReviewService

\* The variables have their types.
TypeOK ==
  /\ teams \in SUBSET TeamNames
  /\ users \in UserTable
  /\ prs \in PRTable
  /\ reviewers \in ReviewerTable
  /\ assigned \in EventCounts
  /\ unassigned \in EventCounts
  /\ pc \in [Requests -> Labels]
  /\ job \in [Requests -> Job]
  /\ tx \in [Requests -> TxState]
  /\ issued \in 0..MaxRequests

Exists(p) == prs[p] # Null
Merged(p) == Exists(p) /\ prs[p].status = "MERGED"

Answered(r, op, code) == pc[r] = "done" /\ job[r].op = op /\ job[r].res = code

------------------------------------------------------------------------------
\* Promises that hold whatever is interleaved and whatever fails.

\* The author of a PR is never one of its reviewers.  The author is excluded when
\* the candidates are queried, long before the rows are written, by sessions that
\* may be racing another creation of the same PR by somebody else.
NoSelfReview == \A p \in PRIDs : Exists(p) => prs[p].author \notin reviewers[p]

\* A PR stays in the table with its author, and once MERGED its row never changes:
\* a second merge, even one that has read OPEN, keeps the first merged_at.
MergedIsFinal ==
  [][\A p \in PRIDs : Exists(p) =>
       /\ Exists(p)'
       /\ prs'[p].author = prs[p].author
       /\ Merged(p) => prs'[p] = prs[p]]_vars

\* A session of ReplaceReviewer that has found p not to be MERGED.
Admitted(r, p) ==
  /\ job[r].op \in {"reassign", "deactivate"} /\ job[r].pr = p
  /\ pc[r] \in {"rp_assigned", "rp_delete", "rp_insert", "commit"}

Frozen(p) == Merged(p) /\ \A r \in Requests : ~Admitted(r, p)

\* The reviewers of a MERGED PR change at most by the replacements that were past
\* the check of the status when it was merged: once these are over, the PR is
\* frozen for good.
MergeFreezes ==
  [][\A p \in PRIDs : Frozen(p) => Frozen(p)' /\ reviewers'[p] = reviewers[p]]_vars

\* The labels from the draw of reviewers to their COMMIT.
Carrying == {"cp_exists", "cp_insert", "cp_reviewers", "rp_status", "rp_assigned",
             "rp_delete", "rp_insert", "commit"}

\* The requests that have drawn u as a reviewer and not yet committed him.
Drawers(u) == {r \in Requests : pc[r] \in Carrying /\ u \in job[r].picked}

\* Whom nobody has drawn when he is deactivated is assigned no more: no request draws
\* an inactive user (CreatePullRequest and ReassignReviewer query the candidates before
\* their transaction, MassDeactivate after its UPDATE), and he still becomes a reviewer
\* only of the PR of a request that had drawn him before, once for each of them.
DeactivationStopsDraws ==
  [][\A u \in UserIDs : users[u] # Null /\ ~users[u].active =>
       /\ Drawers(u)' \subseteq Drawers(u)
       /\ \A p \in PRIDs : u \in reviewers'[p] \ reviewers[p] =>
            \E r \in Drawers(u) \ Drawers(u)' : job[r].pr = p]_vars

\* The events of a PR never say that a user is assigned more often than the table
\* of reviewers does: each ASSIGNED event came with a row, and no row goes without
\* an UNASSIGNED event.
AuditNeverOverstates ==
  \A p \in PRIDs, u \in UserIDs :
    assigned[p][u] <= unassigned[p][u] + (IF u \in reviewers[p] THEN 1 ELSE 0)

\* What a client was told to have happened did happen, and outlives crashes: a
\* merged PR is MERGED, a created PR exists with the author sent, and no two
\* clients are told that they created the same PR or the same team.
RepliesAreTrue ==
  /\ \A r \in Requests :
       /\ Answered(r, "merge", "OK") => Merged(job[r].pr)
       /\ Answered(r, "create", "OK") =>
            Exists(job[r].pr) /\ prs[job[r].pr].author = job[r].user
       /\ Answered(r, "add_team", "OK") => job[r].team \in teams
  /\ \A r, s \in Requests :
       /\ Answered(r, "create", "OK") /\ Answered(s, "create", "OK")
            => r = s \/ job[r].pr # job[s].pr
       /\ Answered(r, "add_team", "OK") /\ Answered(s, "add_team", "OK")
            => r = s \/ job[r].team # job[s].team

\* The transactions a deadlock can get stuck in are those of team creations and mass
\* deactivations that update the same users in another order, and two replacements in
\* one PR: no creation, merge or SetUserActivity is ever the victim of the detector.
DeadlocksAreLocal ==
  \A r \in Requests : InDeadlock(r) =>
    \E s \in Requests \ {r} :
      \/ {pc[r], pc[s]} \subseteq {"at_upsert", "md_update"}
      \/ pc[r] = "rp_insert" /\ pc[s] = "rp_insert" /\ job[r].pr = job[s].pr

\* ReviewService implements PRLifecycle: a PR is opened and merged once, and every
\* change of its reviewers uses up an admission given while it was open, even when
\* the PR was created, merged and reassigned by requests that overlap.
Lifecycle == INSTANCE PRLifecycle
  WITH rows <- prs, reviewers <- reviewers,
       admitted <- [p \in PRIDs |-> {r \in Requests : Admitted(r, p)}],
       InitialRows <- Seed.prs, InitialReviewers <- Seed.reviewers

ImplementsLifecycle == Lifecycle!Spec

\* Every request is answered: no call waits forever for a row, and the loop over
\* the PRs of deactivated users ends.
EveryRequestAnswered ==
  \A r \in Requests : pc[r] \notin {"idle", "done"} ~> pc[r] \in {"idle", "done"}

------------------------------------------------------------------------------
\* Promises that hold as long as only one goroutine replaces reviewers.

\* At most two reviewers.
AtMostTwo == \A p \in PRIDs : Cardinality(reviewers[p]) <= 2

\* The events of a PR say exactly who its reviewers are.
AuditExact ==
  \A p \in PRIDs, u \in UserIDs :
    assigned[p][u] = unassigned[p][u] + (IF u \in reviewers[p] THEN 1 ELSE 0)

\* Reviewers belong to the team of the author, through any number of replacements
\* (as long as nobody changes teams): a replacement is a member of the team of the
\* reviewer replaced, or of the team that is being deactivated.
ReviewersFromAuthorsTeam ==
  \A p \in PRIDs : \A u \in reviewers[p] : users[u].team = users[prs[p].author].team

------------------------------------------------------------------------------
\* The promise of a mass deactivation that nothing but merges runs concurrently with.

\* After a mass deactivation was answered OK, no user it deactivated and did not
\* report as skipped reviews an open PR.
DeactivatedAreFreed ==
  \A r \in Requests : Answered(r, "deactivate", "OK") =>
    \A u \in job[r].targets \ job[r].skipped, p \in PRIDs :
      u \in reviewers[p] => Merged(p)

------------------------------------------------------------------------------
\* What the documents and comments say beyond that.

\* Nobody changes the reviewers of a MERGED PR.
MergedReviewersFixed ==
  [][\A p \in PRIDs : Merged(p) => reviewers'[p] = reviewers[p]]_vars

\* Whoever becomes a reviewer is active at that moment.
AssignedAreActive ==
  [][\A p \in PRIDs : \A u \in reviewers'[p] \ reviewers[p] : users[u].active]_vars

\* A mass deactivation is one transaction: one that failed has deactivated nobody.
DeactivationIsAtomic ==
  \A r \in Requests : Answered(r, "deactivate", "INTERNAL_ERROR") =>
    \A u \in job[r].targets : users[u].active

\* A mass deactivation reassigns the open PRs of the users it deactivates.
DeactivationReassignsAll ==
  \A r \in Requests : Answered(r, "deactivate", "OK") =>
    \A u \in job[r].targets, p \in PRIDs : u \in reviewers[p] => Merged(p)
==============================================================================
