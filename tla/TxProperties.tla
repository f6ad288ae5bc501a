----------------------------- MODULE TxProperties -----------------------------
(***************************************************************************)
(* What a transaction of Storage.WithTransaction may rely on.              *)
(***************************************************************************)
EXTENDS TxRepository

Places == {"idle", "ready", "aborted", "committed", "failed",
           "team_exists", "team_insert", "team_upsert", "set_active", "deactivate",
           "pr_exists", "pr_insert", "merge_status", "merge_update",
           "status", "assigned", "delete", "insert", "read", "read_more"}

\* The variables have their types.
TypeOK ==
  /\ db \in Database
  /\ wrote \in [Sessions -> Writes]
  /\ at \in [Sessions -> Places]
  /\ call \in [Sessions -> Call]
  /\ answer = [s \in Sessions |-> [first |-> answer[s].first, second |-> answer[s].second]]
  /\ calls \in [Sessions -> Nat]

------------------------------------------------------------------------------

\* The row or rows that a query answered with show what the transaction has written.
FirstShows(s) ==
  LET c == call[s]
      w == wrote[s]
      got == answer[s].first
  IN /\ OfPR(c) /\ w.prs[c.pr] # Null => got = w.prs[c.pr]
     /\ OfUser(c) /\ w.users[c.user] # Null => got = w.users[c.user]
     /\ OfTeam(c) => \A u \in UserIDs : w.users[u] # Null =>
                       (<<u, w.users[u]>> \in got <=> w.users[u].team = c.team)
     /\ c.method = "active_members" =>
          \A u \in got : w.users[u] # Null => w.users[u].active /\ w.users[u].team = c.team
     /\ c.method = "open_prs" =>
          \A u \in c.ids : \A p \in got[u] : w.prs[p] # Null => w.prs[p].status = "OPEN"

\* So do the reviewers of a PR.
SecondShows(s) ==
  OfPR(call[s]) => \A u \in UserIDs :
    LET row == <<call[s].pr, u>>
        got == answer[s].second
    IN /\ row \in wrote[s].new => u \in got
       /\ row \in wrote[s].gone \ wrote[s].new => u \notin got

\* What a method answers agrees with what the transaction has written before: the row
\* of a PR it has created or merged, the reviewers it has put in and taken out, the
\* users it has deactivated or moved (GetPullRequest, GetUserByID, GetTeam,
\* ListActiveTeamMembers and ListOpenPRsByReviewer on s.tx).
ReadsItsOwnWrites ==
  \A s \in Sessions : answer[s].first # Null =>
    /\ at[s] \in {"ready", "read_more"} => FirstShows(s)
    /\ at[s] = "ready" => SecondShows(s)

\* A transaction that has merged a PR does not change its reviewers any more
\* (ReplaceReviewer reads the status in the transaction).
OwnMergeBinds ==
  \A s \in Sessions : at[s] \in {"assigned", "delete", "insert"} =>
    LET row == wrote[s].prs[call[s].pr] IN row = Null \/ row.status = "OPEN"

\* The events of committed transactions never say that a user is assigned more often
\* than the table of reviewers does.
EventsBacked ==
  \A row \in PRIDs \X UserIDs :
    db.balance[row] <= (IF row \in db.reviewers THEN 1 ELSE 0)

\* A PR stays in the table with its author, and once MERGED its row never changes,
\* whatever a transaction had read before it committed.
MergedStays ==
  [][\A p \in PRIDs : db.prs[p] # Null =>
       /\ db'.prs[p] # Null
       /\ db'.prs[p].author = db.prs[p].author
       /\ db.prs[p].status = "MERGED" => db'.prs[p] = db.prs[p]]_vars

\* Every transaction ends: what it has locked itself never keeps it waiting, and those
\* that wait for each other are broken up.
EveryTransactionEnds == \A s \in Sessions : Open(s) ~> ~Open(s)

------------------------------------------------------------------------------
\* The inductive invariant behind the theorems.

\* A call in progress is of the method its place belongs to, with its arguments and no
\* answer yet, and the rows it has seen and goes on to change are still there.
CallOK(s) ==
  /\ at[s] \in {"team_exists", "team_insert", "team_upsert"} => call[s].method = "create_team"
  /\ at[s] \in {"set_active", "deactivate"} => call[s].method = at[s]
  /\ at[s] \in {"pr_exists", "pr_insert"} => call[s].method = "create_pr"
  /\ at[s] \in {"merge_status", "merge_update"} => call[s].method = "merge"
  /\ at[s] \in {"status", "assigned", "delete"} => call[s].method = "replace"
  /\ at[s] = "insert" => call[s].method \in {"create_pr", "replace"}
  /\ at[s] = "insert" /\ call[s].method = "replace" => call[s].new \in UserIDs
  /\ at[s] \notin {"idle", "ready", "aborted", "committed", "failed"} => Given(call[s])
  /\ at[s] \notin {"ready", "read_more", "aborted"} => answer[s].first = Null
  /\ at[s] = "merge_update" => View(s).prs[call[s].pr] # Null
  /\ at[s] = "deactivate" => \A u \in call[s].ids : View(s).users[u] # Null

CallInv == \A s \in Sessions : CallOK(s)

\* No row or key is held by two transactions.
LocksInv == \A s, x \in Sessions : s # x => Held(s) \cap Held(x) = {}

\* A version of a PR that a transaction holds was made from the committed one.
VersionsInv ==
  \A s \in Sessions, p \in PRIDs :
    db.prs[p] # Null /\ wrote[s].prs[p] # Null =>
      /\ wrote[s].prs[p].author = db.prs[p].author
      /\ db.prs[p].status = "MERGED" => wrote[s].prs[p] = db.prs[p]

\* A merged row says when.
MergedInv ==
  \A p \in PRIDs : \A row \in {db.prs[p]} \cup {wrote[s].prs[p] : s \in Sessions} :
    row # Null /\ row.status = "MERGED" => row.mergedAt # Null

\* What the events of an open transaction add is backed by the rows it has written.
EventsInv ==
  \A s \in Sessions, row \in PRIDs \X UserIDs :
    LET held == row \in wrote[s].gone \cup wrote[s].new IN
    /\ held => db.balance[row] + wrote[s].balance[row]
                 <= (IF row \in wrote[s].new THEN 1 ELSE 0)
    /\ ~held => wrote[s].balance[row] <= 0

RowInv == LocksInv /\ VersionsInv /\ MergedInv /\ EventsInv /\ EventsBacked

TxInv == TypeOK /\ CallInv /\ RowInv
==============================================================================
