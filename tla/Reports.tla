------------------------------- MODULE Reports -------------------------------
(***************************************************************************)
(* What clients are shown: GET /team/get, /users/getReview,                *)
(* /stats/assignments, and the PRs in the replies of the operations.       *)
(* Storage reads each of them by one or two queries outside of any         *)
(* transaction, so the second query may see commits the first did not.     *)
(* Readers run beside the requests of ReviewService and change none of its *)
(* variables.                                                              *)
(***************************************************************************)
EXTENDS ReviewProperties, FiniteSetsExt

CONSTANTS Readers,  \* the goroutines that serve the reports
          Kinds     \* the reports asked for: "team", "review", "stats", "pr"

ASSUME KindsType == Kinds \subseteq {"team", "review", "stats", "pr"}

VARIABLE view       \* what each reader has read

rvars == <<teams, users, prs, reviewers, assigned, unassigned, pc, job, tx, issued, view>>

Nobody  == [u \in UserIDs |-> 0]
Nowhere == [p \in PRIDs |-> 0]

\* at: the next query; subject: the team, user or PR asked for; members, inactive: of
\* a team; list, open: the PRs of a user; row, shown: a PR and its reviewers; perUser,
\* active, perPR: the counts of the statistics; res: the code of the reply.
\* Two members are about the past and no query depends on them.  frozen: the PR was
\* Frozen when its row was read; moved: the number of rows in the table of reviewers
\* has changed since the first query.
NoView == [kind |-> "none", at |-> "free", subject |-> Null,
           members |-> {}, inactive |-> {}, list |-> {}, open |-> {},
           row |-> Null, shown |-> {},
           perUser |-> Nobody, active |-> Nobody, perPR |-> Nowhere,
           res |-> "none", frozen |-> FALSE, moved |-> FALSE]

View == [kind : {"none", "team", "review", "stats", "pr"},
         at : {"free", "team_exists", "review_list", "stats_prs", "pr_reviewers", "done"},
         subject : UserIDs \cup TeamNames \cup PRIDs \cup {Null},
         members : SUBSET UserIDs, inactive : SUBSET UserIDs,
         list : SUBSET PRIDs, open : SUBSET PRIDs,
         row : PRRow \cup {Null}, shown : SUBSET UserIDs,
         perUser : [UserIDs -> Nat], active : [UserIDs -> Nat], perPR : [PRIDs -> Nat],
         res : {"none", "OK", "NOT_FOUND", "INTERNAL_ERROR"},
         frozen : BOOLEAN, moved : BOOLEAN]

Shows(v, new) == view' = [view EXCEPT ![v] = new]

\* A report is asked for on a free goroutine; its first query follows.
Asked(v, kind) == kind \in Kinds /\ view[v].at = "free"

------------------------------------------------------------------------------
\* GET /team/get: the members, then, if there are none, whether there is such a team.

TeamMembersQuery(v) ==
  /\ Asked(v, "team")
  /\ \E t \in TeamNames :
       LET found == TeamMembers(t, {}) IN
       Shows(v, [NoView EXCEPT !.kind = "team", !.subject = t, !.members = found,
                   !.inactive = {u \in found : ~users[u].active},
                   !.at = IF found = {} THEN "team_exists" ELSE "done",
                   !.res = IF found = {} THEN "none" ELSE "OK"])

TeamExistsQuery(v) ==
  /\ view[v].at = "team_exists"
  /\ Shows(v, [view[v] EXCEPT !.at = "done",
                 !.res = IF view[v].subject \in teams THEN "OK" ELSE "NOT_FOUND"])

------------------------------------------------------------------------------
\* GET /users/getReview: GetUserByID, then the join of his reviews with their PRs.

UserQuery(v) ==
  /\ Asked(v, "review")
  /\ \E u \in UserIDs :
       Shows(v, [NoView EXCEPT !.kind = "review", !.subject = u,
                   !.at = IF users[u] = Null THEN "done" ELSE "review_list",
                   !.res = IF users[u] = Null THEN "NOT_FOUND" ELSE "none"])

\* Mutant: the status is not read, the zero value counts as open.
ReviewListNoStatus(v) ==
  /\ view[v].at = "review_list"
  /\ LET found == {p \in PRIDs : Exists(p) /\ view[v].subject \in reviewers[p]} IN
     Shows(v, [view[v] EXCEPT !.at = "done", !.res = "OK", !.list = found, !.open = found])

ReviewListQuery(v) ==
  /\ view[v].at = "review_list"
  /\ LET found == {p \in PRIDs : Exists(p) /\ view[v].subject \in reviewers[p]} IN
     Shows(v, [view[v] EXCEPT !.at = "done", !.res = "OK", !.list = found,
                 !.open = {p \in found : prs[p].status = "OPEN"}])

------------------------------------------------------------------------------
\* GET /stats/assignments: the reviews of each user, all of them and those of open
\* PRs, then the reviewers of each PR.  Both are left joins.

ReviewsOf(u) == {p \in PRIDs : users[u] # Null /\ u \in reviewers[p]}

\* Mutant: SUM(CASE WHEN status = 'MERGED' THEN 0 ELSE 1 END), which counts the row a
\* left join makes for a user without reviews.
StatsNotMergedQuery(v) ==
  /\ Asked(v, "stats")
  /\ Shows(v, [NoView EXCEPT !.kind = "stats", !.at = "stats_prs",
       !.perUser = [u \in UserIDs |-> Cardinality(ReviewsOf(u))],
       !.active = [u \in UserIDs |->
          IF users[u] # Null /\ ReviewsOf(u) = {} THEN 1
          ELSE Cardinality({p \in ReviewsOf(u) : Exists(p) /\ ~Merged(p)})]])

StatsUsersQuery(v) ==
  /\ Asked(v, "stats")
  /\ Shows(v, [NoView EXCEPT !.kind = "stats", !.at = "stats_prs",
       !.perUser = [u \in UserIDs |-> Cardinality(ReviewsOf(u))],
       !.active = [u \in UserIDs |->
          Cardinality({p \in ReviewsOf(u) : Exists(p) /\ prs[p].status = "OPEN"})]])

\* Mutant: only the open PRs are counted.
StatsOpenPRsQuery(v) ==
  /\ view[v].at = "stats_prs"
  /\ Shows(v, [view[v] EXCEPT !.at = "done", !.res = "OK",
       !.perPR = [p \in PRIDs |->
          IF Exists(p) /\ ~Merged(p) THEN Cardinality(reviewers[p]) ELSE 0]])

StatsPRsQuery(v) ==
  /\ view[v].at = "stats_prs"
  /\ Shows(v, [view[v] EXCEPT !.at = "done", !.res = "OK",
       !.perPR = [p \in PRIDs |-> IF Exists(p) THEN Cardinality(reviewers[p]) ELSE 0]])

------------------------------------------------------------------------------
\* GetPullRequest, whose result is the reply of create, merge and reassign: the row,
\* then the reviewers.  It is called after a commit, of a PR that is there.

PRRowQuery(v) ==
  /\ Asked(v, "pr")
  /\ \E p \in PRIDs :
       /\ Exists(p)
       /\ Shows(v, [NoView EXCEPT !.kind = "pr", !.subject = p, !.at = "pr_reviewers",
                      !.row = prs[p], !.frozen = Frozen(p)])

PRReviewersQuery(v) ==
  /\ view[v].at = "pr_reviewers"
  /\ Shows(v, [view[v] EXCEPT !.at = "done", !.res = "OK",
                              !.shown = reviewers[view[v].subject]])

------------------------------------------------------------------------------

\* A query fails.
QueryError(v) ==
  /\ "error" \in Faults
  /\ view[v].at \notin {"free", "done"}
  /\ Shows(v, [view[v] EXCEPT !.at = "done", !.res = "INTERNAL_ERROR"])

Read(v) ==
  \/ TeamMembersQuery(v) \/ TeamExistsQuery(v) \/ UserQuery(v) \/ ReviewListQuery(v)
  \/ StatsUsersQuery(v) \/ StatsPRsQuery(v) \/ PRRowQuery(v) \/ PRReviewersQuery(v)
  \/ QueryError(v)

Total(counts, S) == MapThenSumSet(LAMBDA x : counts[x], S)

\* The number of rows in the table of reviewers.
ReviewerRows == Total([p \in PRIDs |-> Cardinality(reviewers[p])], PRIDs)

\* What a step of the service means for the reports under way.
Notice ==
  view' = [v \in Readers |->
             IF view[v].at = "stats_prs" /\ ReviewerRows' # ReviewerRows
             THEN [view[v] EXCEPT !.moved = TRUE]
             ELSE view[v]]

\* The process dies with its readers.
Forget ==
  view' = [v \in Readers |-> IF view[v].at = "done" THEN view[v] ELSE NoView]

ReportsInit == Init /\ view = [v \in Readers |-> NoView]

ReportsNext ==
  \/ \E r \in Requests : (Arrive(r) \/ Step(r) \/ Failure(r)) /\ Notice
  \/ Crash /\ Forget
  \/ Terminating /\ UNCHANGED view
  \/ \E v \in Readers : Read(v) /\ UNCHANGED vars

ReportsSpec == ReportsInit /\ [][ReportsNext]_rvars

------------------------------------------------------------------------------
\* What the reports promise although their queries are not one transaction.

\* The views have their types, and each is consistent in itself: what is shown as a
\* part (inactive members, open PRs, reviews of open PRs) is no more than the whole.
ViewTypeOK ==
  /\ view \in [Readers -> View]
  /\ \A v \in Readers :
       /\ view[v].inactive \subseteq view[v].members
       /\ view[v].open \subseteq view[v].list
       /\ \A u \in UserIDs : view[v].active[u] <= view[v].perUser[u]

Shown(v, kind) == view[v].kind = kind /\ view[v].res = "OK"

\* No report shows a user as a reviewer of his own PR: neither the reply whose author
\* and reviewers come from two queries, nor the list of the PRs of a user.
NobodyShownReviewingHimself ==
  \A v \in Readers :
    /\ Shown(v, "pr") => view[v].row.author \notin view[v].shown
    /\ Shown(v, "review") => \A p \in view[v].list : prs[p].author # view[v].subject

\* A reply that shows MERGED, read when no replacement was past its check, shows the
\* row and the reviewers the PR has ever after: whatever commits between the two
\* queries or later does not make it stale.
FrozenViewsStayTrue ==
  \A v \in Readers :
    Shown(v, "pr") /\ view[v].frozen =>
      /\ view[v].row = prs[view[v].subject]
      /\ view[v].shown = reviewers[view[v].subject]

\* A PR that one reader was shown MERGED is in no list of open PRs that another one
\* reads later.
MergedNeverShownOpenLater ==
  [][\A v \in Readers :
       view'[v] # view[v] /\ Shown(v, "review")' =>
         \A p \in view'[v].open, w \in Readers :
           view[w].subject = p /\ view[w].row # Null => view[w].row.status = "OPEN"]_rvars

\* The two halves of the statistics count the same reviews, unless the number of
\* reviews changed between the two queries.
StatsAgree ==
  \A v \in Readers :
    Shown(v, "stats") /\ ~view[v].moved =>
      Total(view[v].perUser, UserIDs) = Total(view[v].perPR, PRIDs)
==============================================================================
