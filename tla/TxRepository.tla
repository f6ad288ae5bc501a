----------------------------- MODULE TxRepository -----------------------------
(***************************************************************************)
(* Storage.WithTransaction and txStorage, the repository inside one        *)
(* transaction.  A caller runs any of its methods one after the other;     *)
(* each is a few statements at READ COMMITTED, which read what is          *)
(* committed and what the transaction itself has written, and wait for the *)
(* rows and keys other transactions hold.  The caller is the environment:  *)
(* the service has none yet.                                               *)
(***************************************************************************)
EXTENDS Integers, FiniteSets

CONSTANTS UserIDs, TeamNames, PRIDs,
          Null,       \* no row, no value
          Sessions,   \* the calls of WithTransaction
          Seed,       \* what the database holds at first
          Calls,      \* the calls of methods the callers make
          MaxCalls    \* bound: calls in the transaction of each session

\* Rows; merged_at is the transaction whose start it is, "before" the first of them, or
\* Null when it is NULL.
UserRow == [team : TeamNames, active : BOOLEAN]
PRRow   == [status : {"OPEN", "MERGED"}, author : UserIDs,
            mergedAt : Sessions \cup {Null, "before"}]

\* reviewers: the rows of pull_request_reviewers; balance: the ASSIGNED less the
\* UNASSIGNED events of a PR and a user.
Database == [teams : SUBSET TeamNames,
             users : [UserIDs -> UserRow \cup {Null}],
             prs : [PRIDs -> PRRow \cup {Null}],
             reviewers : SUBSET (PRIDs \X UserIDs),
             balance : [PRIDs \X UserIDs -> Int]]

\* What a transaction has written: row versions, the reviewers it has deleted and
\* inserted, and its events.
Writes == [teams : SUBSET TeamNames,
           users : [UserIDs -> UserRow \cup {Null}],
           prs : [PRIDs -> PRRow \cup {Null}],
           gone : SUBSET (PRIDs \X UserIDs), new : SUBSET (PRIDs \X UserIDs),
           balance : [PRIDs \X UserIDs -> Int]]

Reads == {"get_team", "get_user", "active_members", "get_pr", "assignments", "open_prs",
          "stats"}

Methods == Reads \cup {"create_team", "set_active", "deactivate", "create_pr", "merge",
                       "replace"}

Call == [method : Methods, team : TeamNames \cup {Null}, pr : PRIDs \cup {Null},
         user : UserIDs \cup {Null}, new : UserIDs \cup {Null},
         ids : SUBSET UserIDs, on : SUBSET UserIDs]

\* The arguments that the method of c has are given.
Given(c) ==
  /\ c.method \in {"get_team", "active_members", "create_team"} => c.team \in TeamNames
  /\ c.method \in {"get_pr", "create_pr", "merge", "replace"} => c.pr \in PRIDs
  /\ c.method \in {"get_user", "assignments", "set_active", "create_pr", "replace"} =>
       c.user \in UserIDs

ASSUME CallsType == Calls \subseteq Call /\ \A c \in Calls : Given(c)

ASSUME BoundType == MaxCalls \in [Sessions -> Nat]

ASSUME NullAssumption ==
  /\ Null \notin UserIDs /\ Null \notin TeamNames /\ Null \notin PRIDs
  /\ Null \notin Sessions /\ Null \notin UserRow /\ Null \notin PRRow

ASSUME SeedType ==
  /\ Seed \in Database
  /\ \A p \in PRIDs : Seed.prs[p] # Null /\ Seed.prs[p].status = "MERGED" =>
                       Seed.prs[p].mergedAt # Null
  /\ \A row \in PRIDs \X UserIDs :
       Seed.balance[row] <= (IF row \in Seed.reviewers THEN 1 ELSE 0)

VARIABLES
  db,      \* the committed rows
  wrote,   \* what each open transaction has written
  at,      \* where each session is
  call,    \* the method it is in or has returned from last, with its arguments
  answer,  \* what its queries have returned, first and second
  calls    \* how many methods it has called

vars == <<db, wrote, at, call, answer, calls>>

Nothing == [teams |-> {}, users |-> [u \in UserIDs |-> Null],
            prs |-> [p \in PRIDs |-> Null], gone |-> {}, new |-> {},
            balance |-> [row \in PRIDs \X UserIDs |-> 0]]

NoCall == [method |-> "get_team", team |-> Null, pr |-> Null, user |-> Null,
           new |-> Null, ids |-> {}, on |-> {}]

NoAnswer == [first |-> Null, second |-> Null]

Init ==
  /\ db = Seed
  /\ wrote = [s \in Sessions |-> Nothing]
  /\ at = [s \in Sessions |-> "idle"]
  /\ call = [s \in Sessions |-> NoCall]
  /\ answer = [s \in Sessions |-> NoAnswer]
  /\ calls = [s \in Sessions |-> 0]

------------------------------------------------------------------------------
\* What a statement reads, and what it waits for.

\* The rows d with the writes w on top: what a statement of the writer of w sees,
\* and what COMMIT leaves behind.
Over(d, w) ==
  [teams |-> d.teams \cup w.teams,
   users |-> [u \in UserIDs |-> IF w.users[u] # Null THEN w.users[u] ELSE d.users[u]],
   prs |-> [p \in PRIDs |-> IF w.prs[p] # Null THEN w.prs[p] ELSE d.prs[p]],
   reviewers |-> (d.reviewers \ w.gone) \cup w.new,
   balance |-> [row \in PRIDs \X UserIDs |-> d.balance[row] + w.balance[row]]]

\* Mutant: the statements run on the pool, outside of the transaction.
CommittedOnly(s) == db

View(s) == Over(db, wrote[s])

\* The rows and keys s has written, which it holds until its end.
Held(s) ==
  {<<"team", t>> : t \in wrote[s].teams}
  \cup {<<"user", u>> : u \in {v \in UserIDs : wrote[s].users[v] # Null}}
  \cup {<<"pr", p>> : p \in {q \in PRIDs : wrote[s].prs[q] # Null}}
  \cup {<<"reviewer", row>> : row \in wrote[s].gone \cup wrote[s].new}

\* Mutant: a statement waits for the rows of its own transaction too, as one on another
\* connection of the pool would.
FreeOfAll(s, key) == \A x \in Sessions : key \notin Held(x)

Free(s, key) == \A x \in Sessions \ {s} : key \notin Held(x)

\* The row ReplaceReviewer deletes, and the rows insertReviewers is called with.
Old(s) == <<call[s].pr, call[s].user>>

New(s) ==
  {call[s].pr} \X (IF call[s].method = "create_pr" THEN call[s].ids ELSE {call[s].new})

\* What the next statement of s writes that another transaction may hold.
Needs(s) ==
  CASE at[s] = "team_insert" -> {<<"team", call[s].team>>}
    [] at[s] \in {"team_upsert", "deactivate"} -> {<<"user", u>> : u \in call[s].ids}
    [] at[s] = "set_active" -> {<<"user", call[s].user>>}
    [] at[s] \in {"pr_insert", "merge_update"} -> {<<"pr", call[s].pr>>}
    [] at[s] = "delete" -> {<<"reviewer", Old(s)>> : x \in {Old(s)} \cap View(s).reviewers}
    [] at[s] = "insert" -> {<<"reviewer", row>> : row \in New(s)}
    [] OTHER -> {}

Waits(s, x) == s # x /\ Needs(s) \cap Held(x) # {}

Goto(s, place) == at' = [at EXCEPT ![s] = place]

Write(s, w) == wrote' = [wrote EXCEPT ![s] = w]

\* The method returns an error and the transaction stays open.
Refused(s) == Goto(s, "ready") /\ UNCHANGED <<db, wrote, call, answer, calls>>

\* A statement has failed: PostgreSQL refuses all that follow but the end.
Abort(s) == Goto(s, "aborted") /\ UNCHANGED <<db, wrote, call, answer, calls>>

------------------------------------------------------------------------------
\* CreateTeam

TeamExists(s) ==
  /\ at[s] = "team_exists"
  /\ \/ call[s].team \in View(s).teams /\ Goto(s, "ready")
     \/ call[s].team \notin View(s).teams /\ Goto(s, "team_insert")
  /\ UNCHANGED <<db, wrote, call, answer, calls>>

TeamInsert(s) ==
  /\ at[s] = "team_insert"
  /\ Free(s, <<"team", call[s].team>>)
  /\ \/ call[s].team \in View(s).teams /\ Abort(s)
     \/ /\ call[s].team \notin View(s).teams
        /\ Write(s, [wrote[s] EXCEPT !.teams = @ \cup {call[s].team}])
        /\ Goto(s, IF call[s].ids = {} THEN "read" ELSE "team_upsert")
        /\ UNCHANGED <<db, call, answer, calls>>

\* The members one after the other, in any order.
TeamUpsert(s) ==
  /\ at[s] = "team_upsert"
  /\ \E u \in call[s].ids :
       /\ Free(s, <<"user", u>>)
       /\ Write(s, [wrote[s] EXCEPT !.users[u] =
                   [team |-> call[s].team, active |-> u \in call[s].on]])
       /\ call' = [call EXCEPT ![s].ids = @ \ {u}]
       /\ Goto(s, IF call[s].ids = {u} THEN "read" ELSE "team_upsert")
  /\ UNCHANGED <<db, answer, calls>>

------------------------------------------------------------------------------
\* SetUserActivity and DeactivateUsers

\* An UPDATE of a row that is not there is an error; it does not wait.
SetActive(s) ==
  /\ at[s] = "set_active"
  /\ LET u == call[s].user IN
     \/ View(s).users[u] = Null /\ Refused(s)
     \/ /\ View(s).users[u] # Null
        /\ Free(s, <<"user", u>>)
        /\ Write(s, [wrote[s] EXCEPT !.users[u] =
                    [View(s).users[u] EXCEPT !.active = u \in call[s].on]])
        /\ Goto(s, "read")
        /\ UNCHANGED <<db, call, answer, calls>>

\* One UPDATE that locks its rows one after the other, in any order.
DeactivateRow(s) ==
  /\ at[s] = "deactivate"
  /\ \E u \in call[s].ids :
       /\ Free(s, <<"user", u>>)
       /\ Write(s, [wrote[s] EXCEPT !.users[u] =
                   [View(s).users[u] EXCEPT !.active = FALSE]])
       /\ call' = [call EXCEPT ![s].ids = @ \ {u}]
       /\ Goto(s, IF call[s].ids = {u} THEN "read" ELSE "deactivate")
  /\ UNCHANGED <<db, answer, calls>>

------------------------------------------------------------------------------
\* CreatePullRequest and UpdatePRStatus

PRExists(s) ==
  /\ at[s] = "pr_exists"
  /\ \/ View(s).prs[call[s].pr] # Null /\ Goto(s, "ready")
     \/ View(s).prs[call[s].pr] = Null /\ Goto(s, "pr_insert")
  /\ UNCHANGED <<db, wrote, call, answer, calls>>

\* The primary key, and the foreign key of the author.
PRInsert(s) ==
  /\ at[s] = "pr_insert"
  /\ Free(s, <<"pr", call[s].pr>>)
  /\ LET insertable == View(s).prs[call[s].pr] = Null /\ View(s).users[call[s].user] # Null IN
     \/ ~insertable /\ Abort(s)
     \/ /\ insertable
        /\ Write(s, [wrote[s] EXCEPT !.prs[call[s].pr] =
                    [status |-> "OPEN", author |-> call[s].user, mergedAt |-> Null]])
        /\ Goto(s, IF call[s].ids = {} THEN "read" ELSE "insert")
        /\ UNCHANGED <<db, call, answer, calls>>

\* Mutant: INSERT ... ON CONFLICT DO NOTHING, with the events inserted anyway.
InsertIfNew(s) ==
  /\ at[s] = "insert"
  /\ \A row \in New(s) : Free(s, <<"reviewer", row>>) /\ View(s).users[row[2]] # Null
  /\ Write(s, [wrote[s] EXCEPT !.new = @ \cup New(s),
                               !.balance = [row \in PRIDs \X UserIDs |->
                                 @[row] + (IF row \in New(s) THEN 1 ELSE 0)]])
  /\ Goto(s, "read")
  /\ UNCHANGED <<db, call, answer, calls>>

\* insertReviewers: the primary key, the foreign key of the reviewer, and the ASSIGNED
\* events.
InsertReviewers(s) ==
  /\ at[s] = "insert"
  /\ \A row \in New(s) : Free(s, <<"reviewer", row>>)
  /\ LET insertable == \A row \in New(s) :
           row \notin View(s).reviewers /\ View(s).users[row[2]] # Null
     IN \/ ~insertable /\ Abort(s)
        \/ /\ insertable
           /\ Write(s, [wrote[s] EXCEPT !.new = @ \cup New(s),
                                        !.balance = [row \in PRIDs \X UserIDs |->
                                          @[row] + (IF row \in New(s) THEN 1 ELSE 0)]])
           /\ Goto(s, "read")
           /\ UNCHANGED <<db, call, answer, calls>>

\* The status is MERGED in every call there is; with OPEN the method only reads.
MergeStatus(s) ==
  /\ at[s] = "merge_status"
  /\ LET row == View(s).prs[call[s].pr] IN
     \/ row = Null /\ Goto(s, "ready")
     \/ /\ row # Null
        /\ Goto(s, IF row.status = "MERGED" /\ row.mergedAt # Null THEN "read"
                                                                ELSE "merge_update")
  /\ UNCHANGED <<db, wrote, call, answer, calls>>

\* Mutant: merged_at = NOW(), without COALESCE.
MergedNow(s, row) == [row EXCEPT !.status = "MERGED", !.mergedAt = s]

\* merged_at = COALESCE(merged_at, NOW()).
MergedRow(s, row) ==
  [row EXCEPT !.status = "MERGED", !.mergedAt = IF @ # Null THEN @ ELSE s]

\* Mutant: the row another transaction is merging is not waited for.
MergeNoWait(s) ==
  /\ at[s] = "merge_update"
  /\ Write(s, [wrote[s] EXCEPT !.prs[call[s].pr] = MergedRow(s, View(s).prs[call[s].pr])])
  /\ Goto(s, "read")
  /\ UNCHANGED <<db, call, answer, calls>>

MergeUpdate(s) ==
  /\ at[s] = "merge_update"
  /\ Free(s, <<"pr", call[s].pr>>)
  /\ Write(s, [wrote[s] EXCEPT !.prs[call[s].pr] = MergedRow(s, View(s).prs[call[s].pr])])
  /\ Goto(s, "read")
  /\ UNCHANGED <<db, call, answer, calls>>

------------------------------------------------------------------------------
\* ReplaceReviewer

\* Mutant: the status is read on the pool.
ReplaceStatusOfPool(s) ==
  /\ at[s] = "status"
  /\ LET row == db.prs[call[s].pr] IN
     Goto(s, IF row = Null \/ row.status = "MERGED" THEN "ready" ELSE "assigned")
  /\ UNCHANGED <<db, wrote, call, answer, calls>>

ReplaceStatus(s) ==
  /\ at[s] = "status"
  /\ LET row == View(s).prs[call[s].pr] IN
     Goto(s, IF row = Null \/ row.status = "MERGED" THEN "ready" ELSE "assigned")
  /\ UNCHANGED <<db, wrote, call, answer, calls>>

ReplaceAssigned(s) ==
  /\ at[s] = "assigned"
  /\ Goto(s, IF Old(s) \in View(s).reviewers THEN "delete" ELSE "ready")
  /\ UNCHANGED <<db, wrote, call, answer, calls>>

\* removeReviewer: a row it sees is waited for, and may then be gone; the UNASSIGNED
\* event is inserted either way.  A row taken out and put back by whoever was waited
\* for counts as the same row.
ReplaceDelete(s) ==
  /\ at[s] = "delete"
  /\ Old(s) \in View(s).reviewers => Free(s, <<"reviewer", Old(s)>>)
  /\ Write(s, [wrote[s] EXCEPT !.gone = @ \cup ({Old(s)} \cap View(s).reviewers),
                               !.new = @ \ {Old(s)},
                               !.balance[Old(s)] = @ - 1])
  /\ Goto(s, IF call[s].new = Null THEN "read" ELSE "insert")
  /\ UNCHANGED <<db, call, answer, calls>>

------------------------------------------------------------------------------
\* The methods that read, and the reads the others end with.

MembersIn(v, t) == {u \in UserIDs : v.users[u] # Null /\ v.users[u].team = t}

ReviewsIn(v, u) == {p \in PRIDs : <<p, u>> \in v.reviewers}

OpenIn(v, prset) == {p \in prset : v.prs[p].status = "OPEN"}

OfTeam(c) == c.method \in {"get_team", "create_team"}
OfUser(c) == c.method \in {"get_user", "set_active"}
OfPR(c)   == c.method \in {"get_pr", "create_pr", "merge", "replace"}

FirstQuery(v, c) ==
  CASE OfTeam(c) -> {<<u, v.users[u]>> : u \in MembersIn(v, c.team)}
    [] OfUser(c) -> v.users[c.user]
    [] OfPR(c) -> v.prs[c.pr]
    [] c.method = "deactivate" -> {<<u, v.users[u]>> : u \in {x \in c.on : v.users[x] # Null}}
    [] c.method = "active_members" ->
         {u \in MembersIn(v, c.team) \ c.ids : v.users[u].active}
    [] c.method = "assignments" -> {<<p, v.prs[p]>> : p \in ReviewsIn(v, c.user)}
    [] c.method = "open_prs" -> [u \in c.ids |-> OpenIn(v, ReviewsIn(v, u))]
    [] c.method = "stats" ->
         [u \in {x \in UserIDs : v.users[x] # Null} |->
            <<Cardinality(ReviewsIn(v, u)), Cardinality(OpenIn(v, ReviewsIn(v, u)))>>]

\* Whether there is such a team, the reviewers of the PR, or the totals by PR.
SecondQuery(v, c) ==
  CASE OfTeam(c) -> c.team \in v.teams
    [] OfPR(c) -> {u \in UserIDs : <<c.pr, u>> \in v.reviewers}
    [] c.method = "stats" ->
         [p \in {x \in PRIDs : v.prs[x] # Null} |->
            Cardinality({u \in UserIDs : <<p, u>> \in v.reviewers})]

\* GetTeam asks for the team only when it found no members; a row that is not there
\* is an error.
Read(s) ==
  /\ at[s] = "read"
  /\ LET found == FirstQuery(View(s), call[s])
         more  == \/ OfPR(call[s]) /\ found # Null
                  \/ OfTeam(call[s]) /\ found = {}
                  \/ call[s].method = "stats"
     IN /\ answer' = [answer EXCEPT ![s].first = found]
        /\ Goto(s, IF more THEN "read_more" ELSE "ready")
  /\ UNCHANGED <<db, wrote, call, calls>>

ReadMore(s) ==
  /\ at[s] = "read_more"
  /\ answer' = [answer EXCEPT ![s].second = SecondQuery(View(s), call[s])]
  /\ Goto(s, "ready")
  /\ UNCHANGED <<db, wrote, call, calls>>

------------------------------------------------------------------------------
\* The transaction.

\* BeginTx, and the caller's function with a new txStorage.
Begin(s) ==
  /\ at[s] = "idle"
  /\ Goto(s, "ready")
  /\ UNCHANGED <<db, wrote, call, answer, calls>>

FirstPlace(c) ==
  CASE c.method \in Reads -> "read"
    [] c.method = "create_team" -> "team_exists"
    [] c.method = "set_active" -> "set_active"
    [] c.method = "deactivate" -> IF c.ids = {} THEN "read" ELSE "deactivate"
    [] c.method = "create_pr" -> "pr_exists"
    [] c.method = "merge" -> "merge_status"
    [] c.method = "replace" -> "status"

\* The function calls a method.  The UPDATE of DeactivateUsers goes through the rows
\* it sees when it starts; on keeps all the ids for the query after it.
CallMethod(s) ==
  /\ at[s] = "ready"
  /\ calls[s] < MaxCalls[s]
  /\ \E c \in Calls :
       LET there == {u \in c.ids : View(s).users[u] # Null}
           d == IF c.method = "deactivate" THEN [c EXCEPT !.ids = there, !.on = c.ids] ELSE c
       IN call' = [call EXCEPT ![s] = d] /\ Goto(s, FirstPlace(d))
  /\ answer' = [answer EXCEPT ![s] = NoAnswer]
  /\ calls' = [calls EXCEPT ![s] = @ + 1]
  /\ UNCHANGED <<db, wrote>>

End(s, how) ==
  /\ Goto(s, how)
  /\ Write(s, Nothing)
  /\ call' = [call EXCEPT ![s] = NoCall]
  /\ answer' = [answer EXCEPT ![s] = NoAnswer]
  /\ calls' = [calls EXCEPT ![s] = 0]

\* The function returns nil and tx.Commit succeeds; its answer may be lost.
CommitTx(s) ==
  /\ at[s] = "ready"
  /\ db' = Over(db, wrote[s])
  /\ End(s, "committed") \/ End(s, "failed")

\* It returns an error or panics; or it returns nil in spite of a statement that
\* failed, and COMMIT is answered with a rollback.
Rollback(s) ==
  /\ at[s] \in {"ready", "aborted"}
  /\ End(s, "failed")
  /\ UNCHANGED db

Open(s) == at[s] \notin {"idle", "committed", "failed"}

\* The connection or the deadline of the context is lost in a statement.
StatementError(s) ==
  /\ Open(s) /\ at[s] \notin {"ready", "aborted"}
  /\ Abort(s)

InDeadlock(s) ==
  \E D \in SUBSET Sessions :
    s \in D /\ \A x \in D : (\E y \in D : Waits(x, y)) /\ (\E y \in D : Waits(y, x))

DeadlockAbort(s) == InDeadlock(s) /\ Abort(s)

\* The process dies with all its connections.
Crash ==
  /\ \E s \in Sessions : Open(s)
  /\ at' = [s \in Sessions |-> IF Open(s) THEN "failed" ELSE at[s]]
  /\ wrote' = [s \in Sessions |-> Nothing]
  /\ call' = [s \in Sessions |-> NoCall]
  /\ answer' = [s \in Sessions |-> NoAnswer]
  /\ calls' = [s \in Sessions |-> 0]
  /\ UNCHANGED db

\* Every transaction is over.
Terminating == (\A s \in Sessions : at[s] \in {"committed", "failed"}) /\ UNCHANGED vars

Statement(s) ==
  \/ TeamExists(s) \/ TeamInsert(s) \/ TeamUpsert(s)
  \/ SetActive(s) \/ DeactivateRow(s)
  \/ PRExists(s) \/ PRInsert(s) \/ InsertReviewers(s) \/ MergeStatus(s) \/ MergeUpdate(s)
  \/ ReplaceStatus(s) \/ ReplaceAssigned(s) \/ ReplaceDelete(s)
  \/ Read(s) \/ ReadMore(s)

Finish(s) == CommitTx(s) \/ Rollback(s)

Next ==
  \/ \E s \in Sessions : \/ Begin(s) \/ CallMethod(s) \/ Statement(s) \/ Finish(s)
                         \/ StatementError(s) \/ DeadlockAbort(s)
  \/ Crash
  \/ Terminating

Spec == Init /\ [][Next]_vars

\* Statements return once their locks are free, PostgreSQL breaks deadlocks, and the
\* function returns.
Fairness ==
  \A s \in Sessions : WF_vars(Statement(s) \/ Finish(s)) /\ WF_vars(DeadlockAbort(s))

FairSpec == Spec /\ Fairness
==============================================================================
