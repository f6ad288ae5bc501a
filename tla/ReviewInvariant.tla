--------------------------- MODULE ReviewInvariant ---------------------------
(***************************************************************************)
(* The inductive invariant behind the theorems.                            *)
(***************************************************************************)
EXTENDS ReviewProperties

\* The operations a request can be in at a label.
OpsAt(label) ==
  CASE label \in {"at_exists", "at_insert", "at_upsert"} -> {"add_team"}
    [] label = "sa_update" -> {"set_active"}
    [] label \in {"cp_author", "cp_candidates", "cp_exists", "cp_insert",
                  "cp_reviewers"} -> {"create"}
    [] label \in {"mg_status", "mg_update"} -> {"merge"}
    [] label \in {"ra_pr", "ra_reviewers", "ra_user", "ra_candidates"} -> {"reassign"}
    [] label \in {"rp_status", "rp_assigned", "rp_delete", "rp_insert"} ->
         {"reassign", "deactivate"}
    [] label \in {"md_team", "md_exists", "md_update", "md_commit", "md_list", "md_next",
                  "md_pr", "md_reviewers", "md_candidates", "md_finish"} -> {"deactivate"}
    [] label = "commit" -> Ops \ {"set_active"}
    [] label = "readback" -> Ops
    [] OTHER -> Ops \cup {"none"}

Known == {u \in UserIDs : users[u] # Null}

\* A request is at a label of its operation, and its arguments are there.
Arguments(r) ==
  /\ job[r].op \in OpsAt(pc[r])
  /\ job[r].op \in {"add_team", "deactivate"} => job[r].team \in TeamNames
  /\ job[r].op \in {"set_active", "create", "reassign"} => job[r].user \in UserIDs
  /\ job[r].op \in {"create", "merge", "reassign"} => job[r].pr \in PRIDs
  /\ InLoop(r) => job[r].user \in UserIDs /\ job[r].pr \in PRIDs

\* The labels from the one at which the status is read in ReplaceReviewer on.
Replacing == {"rp_status", "rp_assigned", "rp_delete", "rp_insert"}

\* Labels at which the PR of the request has been found in the table.
Found == {"mg_update", "ra_reviewers", "ra_user", "ra_candidates", "md_pr",
          "md_reviewers", "md_candidates"} \cup Replacing

\* What a request has read is still there: rows are never deleted.
ReadsLast(r) ==
  /\ pc[r] \in Found => Exists(job[r].pr)
  /\ \A u \in UserIDs : \A p \in job[r].work[u] : Exists(p)
  /\ pc[r] = "ra_user" => job[r].user \in Known
  /\ pc[r] = "md_update" => job[r].ids \subseteq Known
  /\ job[r].picked \subseteq Known

\* The row a session has written for its PR is new or keeps the author; the
\* reviewers it has inserted, of a PR that is there, do not include the author.
Written(r) ==
  LET p == job[r].pr IN
  /\ tx[r].pr # Null =>
       /\ p \in PRIDs
       /\ pc[r] \in {"cp_reviewers", "commit"}
       /\ job[r].op \in {"create", "merge"}
       /\ job[r].op = "create" => ~Exists(p) /\ tx[r].pr.author = job[r].user
       /\ job[r].op = "merge" => Exists(p) /\ tx[r].pr.author = prs[p].author
  /\ pc[r] = "cp_reviewers" => tx[r].pr # Null
  /\ tx[r].new # {} =>
       /\ p \in PRIDs
       /\ pc[r] = "commit"
       /\ tx[r].new \subseteq Known
       /\ IF job[r].op = "create" THEN tx[r].pr # Null /\ job[r].user \notin tx[r].new
                                  ELSE Exists(p) /\ prs[p].author \notin tx[r].new

\* The author is not among the reviewers picked.
AuthorExcluded(r) ==
  /\ job[r].op = "create" => job[r].user \notin job[r].picked
  /\ pc[r] \in Found \ {"mg_update", "md_pr"} => job[r].author = prs[job[r].pr].author
  /\ pc[r] \in Replacing => job[r].author \notin job[r].picked

RequestOK(r) == Arguments(r) /\ ReadsLast(r) /\ Written(r) /\ AuthorExcluded(r)

\* No two sessions hold the row of a PR.
OneWriter ==
  \A r, s \in Requests, p \in PRIDs : HoldsPR(r, p) /\ HoldsPR(s, p) => r = s

\* The foreign keys of pull_request_reviewers.
ForeignKeysHold ==
  \A p \in PRIDs : reviewers[p] # {} => Exists(p) /\ reviewers[p] \subseteq Known

\* Types, foreign keys and the author.
IInv ==
  /\ TypeOK
  /\ \A r \in Requests : RequestOK(r)
  /\ OneWriter
  /\ ForeignKeysHold
  /\ NoSelfReview

------------------------------------------------------------------------------
\* What merging and the audit rest on, besides IInv.

\* A session that has written about reviewers creates the PR, or is a replacement
\* past its check of the status.
SessionOK(r) ==
  tx[r].gone \cup tx[r].new \cup tx[r].dropped # {} =>
    \/ /\ job[r].op = "create" /\ pc[r] = "commit"
       /\ tx[r].gone = {} /\ tx[r].dropped = {}
    \/ /\ job[r].op \in {"reassign", "deactivate"} /\ pc[r] \in {"rp_insert", "commit"}
       /\ Exists(job[r].pr)

\* The row a creation inserts.
NewRow(r) == [status |-> "OPEN", author |-> job[r].user, mergedAt |-> 0]

\* The row a session has written follows the committed one, which cannot change as
\* long as the session holds it.
RowFollows(r) ==
  tx[r].pr # Null =>
    tx[r].pr = IF job[r].op = "create" THEN NewRow(r) ELSE MergedRow(r, job[r].pr)

\* A request on its way has the time it was accepted at.
Timed(r) == pc[r] \notin {"idle", "done"} => job[r].now # 0

\* status and merged_at agree.
MergedHasTime ==
  \A p \in PRIDs : Exists(p) => ((prs[p].status = "MERGED") <=> (prs[p].mergedAt # 0))

MergeInv ==
  /\ \A r \in Requests : SessionOK(r) /\ RowFollows(r) /\ Timed(r)
  /\ MergedHasTime

\* The reviewers open transactions have inserted are new, and no two transactions
\* have written the same row of pull_request_reviewers.
Touched(r) == tx[r].gone \cup tx[r].new

KeysDisjoint ==
  /\ \A r \in Requests, p \in PRIDs : job[r].pr = p => tx[r].new \cap reviewers[p] = {}
  /\ \A r, s \in Requests :
       r # s /\ job[r].pr \in PRIDs /\ job[r].pr = job[s].pr => Touched(r) \cap Touched(s) = {}

\* Every row a transaction has deleted has its UNASSIGNED event in it.
RemovalsRecorded == \A r \in Requests : tx[r].gone \subseteq tx[r].dropped

AuditInv == KeysDisjoint /\ RemovalsRecorded /\ AuditNeverOverstates

\* No more reviewers are picked than the operation has slots, all of those picked
\* are inserted at once, and only the reviewer replaced is deleted.
SlotsOK(r) ==
  /\ Cardinality(job[r].picked) <= IF job[r].op = "create" THEN 2 ELSE 1
  /\ tx[r].new \in {{}, job[r].picked}
  /\ tx[r].gone \subseteq {job[r].user}

SlotInv == \A r \in Requests : SlotsOK(r)

\* The commit of r is behind it and its answer is OK, if there is one.
Succeeds(r) == pc[r] = "readback" \/ (pc[r] = "done" /\ job[r].res = "OK")

\* From its last write to its answer, what a request is going to acknowledge is there
\* or in its open transaction.
ReplyOK(r) ==
  /\ job[r].op = "create" =>
       /\ Succeeds(r) => Exists(job[r].pr) /\ prs[job[r].pr].author = job[r].user
       /\ pc[r] = "commit" => tx[r].pr # Null
  /\ job[r].op = "merge" /\ (Succeeds(r) \/ (pc[r] = "commit" /\ tx[r].pr = Null))
       => Merged(job[r].pr)
  /\ job[r].op = "add_team" =>
       /\ Succeeds(r) => job[r].team \in teams
       /\ pc[r] \in {"at_upsert", "commit"} => tx[r].team = job[r].team
  /\ tx[r].team # Null =>
       /\ job[r].op = "add_team"
       /\ pc[r] \in {"at_upsert", "commit"}
       /\ tx[r].team \notin teams

\* No two sessions hold the key of a team, and what is created was not there.
OneCreator ==
  \A r, s \in Requests : r # s =>
    /\ tx[r].team # Null => tx[r].team # tx[s].team
    /\ job[r].op = "create" /\ job[s].op = "create" /\ Succeeds(r) /\ Succeeds(s)
         => job[r].pr # job[s].pr
    /\ job[r].op = "add_team" /\ job[s].op = "add_team" /\ Succeeds(r) /\ Succeeds(s)
         => job[r].team # job[s].team

ReplyInv == (\A r \in Requests : ReplyOK(r)) /\ OneCreator

\* A session writes users only while members of a new team are inserted or a mass
\* deactivation updates them, and draws reviewers only when that is over.
WritesUsers(r) == \E u \in UserIDs : tx[r].users[u] # Null

UsersOK(r) ==
  /\ WritesUsers(r) =>
       \/ pc[r] \in {"at_upsert", "md_update", "md_commit"}
       \/ pc[r] = "commit" /\ job[r].op = "add_team"
  /\ job[r].picked # {} =>
       /\ job[r].op \in {"create", "reassign", "deactivate"}
       /\ pc[r] \notin {"md_team", "md_exists", "md_update", "md_commit"}

UserInv == \A r \in Requests : UsersOK(r)

StrongInv == IInv /\ MergeInv /\ AuditInv /\ SlotInv /\ ReplyInv /\ UserInv

------------------------------------------------------------------------------
\* What holds besides as long as only one goroutine replaces reviewers.

Replacements == {"reassign", "deactivate"}

OneReplacer ==
  \A r, s \in Requests :
    Traffic[r] \cap Replacements # {} /\ Traffic[s] \cap Replacements # {} => r = s

\* An earlier run of that kind has left the seed.
SeedExact ==
  \A p \in PRIDs :
    /\ Cardinality(Seed.reviewers[p]) <= 2
    /\ \A u \in UserIDs : Seed.assigned[p][u] =
         Seed.unassigned[p][u] + (IF u \in Seed.reviewers[p] THEN 1 ELSE 0)

\* From the check on, the reviewer replaced is assigned and then deleted: nobody else
\* removes him.
SoleOK(r) ==
  /\ job[r].op \in Traffic[r] \cup {"none"}
  /\ pc[r] = "rp_delete" => job[r].user \in reviewers[job[r].pr]
  /\ pc[r] \in {"rp_insert", "commit"} /\ job[r].op \in Replacements
       => tx[r].gone = {job[r].user}
  /\ tx[r].gone # {} => tx[r].gone \subseteq reviewers[job[r].pr]
  /\ tx[r].dropped = tx[r].gone

SoleInv == (\A r \in Requests : SoleOK(r)) /\ AtMostTwo /\ AuditExact

------------------------------------------------------------------------------
\* What holds besides as long as nobody changes teams.

NobodyMoves == \A r \in Requests : "add_team" \notin Traffic[r]

TeamOf(u) == Seed.users[u].team

SeedFromTeam ==
  \A p \in PRIDs : \A u \in Seed.reviewers[p] : TeamOf(u) = TeamOf(Seed.prs[p].author)

\* The users of a request on its way are of the team of the author of its PR: the
\* reviewer replaced, those deactivated who review it, those picked and inserted.
FromTeam(r) ==
  /\ job[r].op \in Traffic[r] \cup {"none"}
  /\ job[r].op = "create" =>
       /\ pc[r] = "cp_candidates" => job[r].team = TeamOf(job[r].user)
       /\ \A u \in job[r].picked : TeamOf(u) = TeamOf(job[r].user)
  /\ pc[r] \in {"ra_user", "ra_candidates"} =>
       TeamOf(job[r].user) = TeamOf(prs[job[r].pr].author)
  /\ pc[r] = "ra_candidates" => job[r].team = TeamOf(job[r].user)
  /\ job[r].op = "deactivate" =>
       /\ \A u \in job[r].targets : TeamOf(u) = job[r].team
       /\ \A u \in UserIDs : \A p \in job[r].work[u] : TeamOf(prs[p].author) = job[r].team
  /\ pc[r] \in {"md_pr", "md_reviewers", "md_candidates"} =>
       TeamOf(prs[job[r].pr].author) = job[r].team
  /\ pc[r] \in Replacing =>
       \A u \in job[r].picked : TeamOf(u) = TeamOf(prs[job[r].pr].author)
  /\ job[r].op \in Replacements =>
       \A u \in tx[r].new : TeamOf(u) = TeamOf(prs[job[r].pr].author)
  /\ \A u \in UserIDs : tx[r].users[u] # Null => tx[r].users[u].team = TeamOf(u)

TeamInv ==
  /\ \A r \in Requests : FromTeam(r)
  /\ \A u \in UserIDs : users[u].team = TeamOf(u)
  /\ \A p \in PRIDs : \A u \in reviewers[p] : TeamOf(u) = TeamOf(prs[p].author)

------------------------------------------------------------------------------
\* What holds besides as long as nothing but merges runs beside a mass deactivation.

OnlyMergesBeside ==
  \A r, s \in Requests :
    r # s /\ "deactivate" \in Traffic[r] => Traffic[s] \subseteq {"merge"}

\* The body of the loop up to the COMMIT of ReplaceReviewer.
AtPR == {"md_pr", "md_reviewers", "md_candidates", "commit"} \cup Replacing

\* The row the request is about to replace, or is replacing.
AtHand(r, u, p) == pc[r] \in AtPR /\ job[r].user = u /\ job[r].pr = p

\* A mass deactivation on its way, or answered OK: those whose row it has updated are
\* inactive; each review of an open PR is still in the lists, or at hand and then
\* deleted before the COMMIT; and nobody deactivated is drawn.
FreedOK(r) ==
  job[r].op = "deactivate" =>
    /\ pc[r] \in {"md_team", "md_exists"} => job[r].targets = {}
    /\ pc[r] \in {"md_update", "md_commit"} =>
         \A u \in job[r].targets \ job[r].ids :
           tx[r].users[u] # Null /\ ~tx[r].users[u].active
    /\ pc[r] = "md_commit" => job[r].ids = {}
    /\ pc[r] \in AtPR \cup {"md_list", "md_next", "md_finish", "readback"} =>
         \A u \in job[r].targets : ~users[u].active
    /\ pc[r] \in AtPR \cup {"md_next", "md_finish", "readback"}
          \/ (pc[r] = "done" /\ job[r].res = "OK") =>
         \A u \in job[r].targets \ job[r].skipped, p \in PRIDs :
           u \in reviewers[p] /\ ~Merged(p) => p \in job[r].work[u] \/ AtHand(r, u, p)
    /\ pc[r] \in {"rp_insert", "commit"} =>
         {job[r].user} \cap reviewers[job[r].pr] \subseteq tx[r].gone
    /\ pc[r] = "md_finish" \/ (pc[r] = "done" /\ job[r].res = "OK") =>
         \A u \in UserIDs : job[r].work[u] = {}
    /\ job[r].picked \cap job[r].targets = {}

FreedInv ==
  \A r \in Requests : job[r].op \in Traffic[r] \cup {"none"} /\ FreedOK(r)
==============================================================================
