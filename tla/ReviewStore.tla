----------------------------- MODULE ReviewStore -----------------------------
(***************************************************************************)
(* The PostgreSQL database of the PR reviewer service and the sessions     *)
(* that the request goroutines hold on it.                                 *)
(*                                                                         *)
(* A table is a function from primary keys to rows, Null where there is no *)
(* row (migrations/001_init.up.sql).  Storage.WithTx opens transactions    *)
(* with default options, so they run at READ COMMITTED: a statement reads  *)
(* the rows committed when it runs, a write stays private to its session   *)
(* (tx) until COMMIT, and a statement that needs a row or an index key     *)
(* another session has written waits until that session is over.           *)
(***************************************************************************)
EXTENDS Naturals, FiniteSets

CONSTANTS UserIDs,      \* users.user_id
          TeamNames,    \* teams.team_name
          PRIDs,        \* pull_requests.pull_request_id
          Requests,     \* the goroutines net/http serves requests on
          Null,         \* no row, no value
          Seed,         \* what the database holds when the process starts
          MaxRequests   \* bound: requests accepted in one behaviour

\* Rows.  merged_at is the number of the request that merged the PR, 0 when
\* the column is NULL; created_at, updated_at and the names are left out.
UserRow == [team : TeamNames, active : BOOLEAN]
PRRow   == [status : {"OPEN", "MERGED"}, author : UserIDs, mergedAt : Nat]

UserTable     == [UserIDs -> UserRow \cup {Null}]
PRTable       == [PRIDs -> PRRow \cup {Null}]
ReviewerTable == [PRIDs -> SUBSET UserIDs]
EventCounts   == [PRIDs -> [UserIDs -> Nat]]

Database == [teams : SUBSET TeamNames, users : UserTable, prs : PRTable,
             reviewers : ReviewerTable,
             assigned : EventCounts, unassigned : EventCounts]

ASSUME NullAssumption ==
  /\ Null \notin UserIDs /\ Null \notin TeamNames /\ Null \notin PRIDs
  /\ Null \notin UserRow /\ Null \notin PRRow

ASSUME BoundAssumption == MaxRequests \in Nat

ASSUME SeedType == Seed \in Database

\* The seed is a database an earlier run can have left: it satisfies the
\* foreign keys and what Properties of ReviewService promise of any run.
ASSUME SeedConsistent ==
  /\ \A u \in UserIDs : Seed.users[u] # Null => Seed.users[u].team \in Seed.teams
  /\ \A p \in PRIDs :
       IF Seed.prs[p] = Null
       THEN Seed.reviewers[p] = {}
       ELSE /\ Seed.users[Seed.prs[p].author] # Null
            /\ Seed.prs[p].author \notin Seed.reviewers[p]
            /\ \A u \in Seed.reviewers[p] : Seed.users[u] # Null
            /\ (Seed.prs[p].status = "MERGED") <=> (Seed.prs[p].mergedAt # 0)
  /\ \A p \in PRIDs, u \in UserIDs :
       Seed.assigned[p][u] <= Seed.unassigned[p][u]
                                + (IF u \in Seed.reviewers[p] THEN 1 ELSE 0)

VARIABLES
  \* committed rows
  teams,       \* teams
  users,       \* users
  prs,         \* pull_requests
  reviewers,   \* pull_request_reviewers, as the set of reviewer_id of a PR
  assigned,    \* review_assignment_events of type ASSIGNED, counted by (PR, user)
  unassigned,  \* review_assignment_events of type UNASSIGNED, likewise
  \* the process
  pc,          \* the call each request makes next
  job,         \* its arguments and local variables
  tx,          \* what its open transaction has written
  issued       \* number of requests accepted so far

db   == <<teams, users, prs, reviewers, assigned, unassigned>>
vars == <<teams, users, prs, reviewers, assigned, unassigned, pc, job, tx, issued>>

\* A transaction that has written nothing; also the state outside of one.
NoTx == [team |-> Null, users |-> [u \in UserIDs |-> Null], pr |-> Null,
         gone |-> {}, new |-> {}, dropped |-> {}]

\* team: the row inserted into teams; users: the row versions written in users;
\* pr: the row version written in pull_requests; gone and new: the rows deleted
\* from and inserted into pull_request_reviewers; dropped: the UNASSIGNED events.
\* The last four are about the PR the request works on.
TxState == [team : TeamNames \cup {Null}, users : UserTable, pr : PRRow \cup {Null},
            gone : SUBSET UserIDs, new : SUBSET UserIDs, dropped : SUBSET UserIDs]

------------------------------------------------------------------------------
\* Row and key locks.  A session holds what its open transaction has written.

HoldsTeam(r, t)        == tx[r].team = t
HoldsUser(r, u)        == tx[r].users[u] # Null
HoldsPR(r, p)          == job[r].pr = p /\ tx[r].pr # Null
HoldsReviewer(r, p, u) == job[r].pr = p /\ u \in tx[r].gone \cup tx[r].new

TeamFree(r, t)        == \A s \in Requests \ {r} : ~HoldsTeam(s, t)
UserFree(r, u)        == \A s \in Requests \ {r} : ~HoldsUser(s, u)
PRFree(r, p)          == \A s \in Requests \ {r} : ~HoldsPR(s, p)
ReviewerFree(r, p, u) == \A s \in Requests \ {r} : ~HoldsReviewer(s, p, u)

\* COMMIT: the row versions session r has written become the current ones.
Publish(r) ==
  /\ teams' = teams \cup ({tx[r].team} \ {Null})
  /\ users' = [u \in UserIDs |-> IF tx[r].users[u] # Null THEN tx[r].users[u]
                                                          ELSE users[u]]
  /\ prs' = [p \in PRIDs |-> IF HoldsPR(r, p) THEN tx[r].pr ELSE prs[p]]
  /\ reviewers' = [p \in PRIDs |->
       IF p = job[r].pr THEN (reviewers[p] \ tx[r].gone) \cup tx[r].new
                        ELSE reviewers[p]]
  /\ assigned' = [p \in PRIDs |-> [u \in UserIDs |->
       assigned[p][u] + (IF p = job[r].pr /\ u \in tx[r].new THEN 1 ELSE 0)]]
  /\ unassigned' = [p \in PRIDs |-> [u \in UserIDs |->
       unassigned[p][u] + (IF p = job[r].pr /\ u \in tx[r].dropped THEN 1 ELSE 0)]]
  /\ tx' = [tx EXCEPT ![r] = NoTx]

\* Mutants: the team is not looked at; the inactive members are offered too.
ActiveUsers(team, exclude) ==
  {u \in UserIDs \ exclude : users[u] # Null /\ users[u].active}

TeamMembers(team, exclude) ==
  {u \in UserIDs \ exclude : users[u] # Null /\ users[u].team = team}

\* ListActiveTeamMembers: the active users of a team, some excluded.
ActiveTeamMembers(team, exclude) ==
  {u \in UserIDs \ exclude : users[u] # Null /\ users[u].team = team /\ users[u].active}

\* pickRandomIDs: the first limit elements of a random permutation.
RandomPicks(candidates, limit) ==
  {S \in SUBSET candidates :
     IF Cardinality(candidates) <= limit THEN S = candidates
                                         ELSE Cardinality(S) = limit}

------------------------------------------------------------------------------
\* Requests.

Ops == {"add_team", "set_active", "create", "merge", "reassign", "deactivate"}

Codes == {"OK", "TEAM_EXISTS", "NOT_FOUND", "PR_EXISTS", "PR_MERGED", "NOT_ASSIGNED",
          "NO_CANDIDATE", "INTERNAL_ERROR"}

\* The database call (or other point) a request is about to execute.
Labels == {"idle", "done", "commit", "readback",
           "at_exists", "at_insert", "at_upsert",
           "sa_update",
           "cp_author", "cp_candidates", "cp_exists", "cp_insert", "cp_reviewers",
           "mg_status", "mg_update",
           "ra_pr", "ra_reviewers", "ra_user", "ra_candidates",
           "rp_status", "rp_assigned", "rp_delete", "rp_insert",
           "md_team", "md_exists", "md_update", "md_commit", "md_list", "md_next",
           "md_pr", "md_reviewers", "md_candidates", "md_finish"}

\* ids, on: user ids of the request, and those of them sent as active;
\* author, seen: the author and the assigned reviewers read from the PR;
\* picked: the reviewers chosen; work: openPRs still to go through, by user;
\* targets, skipped: the users to deactivate, and those reported as skipped;
\* now: NOW() in this request; res: the code of the reply.
NoJob == [op |-> "none", pr |-> Null, user |-> Null, team |-> Null,
          ids |-> {}, on |-> {}, author |-> Null, seen |-> {}, picked |-> {},
          work |-> [u \in UserIDs |-> {}], targets |-> {}, skipped |-> {},
          now |-> 0, res |-> "none"]

Job == [op : Ops \cup {"none"}, pr : PRIDs \cup {Null}, user : UserIDs \cup {Null},
        team : TeamNames \cup {Null}, ids : SUBSET UserIDs, on : SUBSET UserIDs,
        author : UserIDs \cup {Null}, seen : SUBSET UserIDs, picked : SUBSET UserIDs,
        work : [UserIDs -> SUBSET PRIDs], targets : SUBSET UserIDs,
        skipped : SUBSET UserIDs, now : Nat, res : Codes \cup {"none"}]

\* A request is accepted on a free goroutine: j holds its arguments.
Accept(r, j, first) ==
  /\ pc[r] \in {"idle", "done"}
  /\ issued < MaxRequests
  /\ issued' = issued + 1
  /\ job' = [job EXCEPT ![r] = [j EXCEPT !.now = issued + 1]]
  /\ pc' = [pc EXCEPT ![r] = first]
  /\ UNCHANGED <<db, tx>>

Goto(r, label) == pc' = [pc EXCEPT ![r] = label]

\* Mutant: an error leaves the transaction open (WithTx without the deferred Rollback).
ReplyInTx(r, code) ==
  /\ Goto(r, "done")
  /\ job' = [job EXCEPT ![r] = [NoJob EXCEPT !.op = job[r].op, !.res = code]]
  /\ UNCHANGED tx

\* The handler returns: an open transaction is rolled back, locals are dropped.
Reply(r, code) ==
  /\ Goto(r, "done")
  /\ tx' = [tx EXCEPT ![r] = NoTx]
  /\ job' = [job EXCEPT ![r] =
       [NoJob EXCEPT !.op = job[r].op, !.pr = job[r].pr, !.user = job[r].user,
                     !.team = job[r].team, !.targets = job[r].targets,
                     !.skipped = job[r].skipped, !.res = code]]

\* Storage.WithTx after its function returned nil: tx.Commit.
Commit(r) ==
  /\ pc[r] = "commit"
  /\ Publish(r)
  /\ Goto(r, "readback")
  /\ UNCHANGED <<job, issued>>
==============================================================================
