------------------------- MODULE ReviewServiceProofs -------------------------
(***************************************************************************)
(* Proofs that the invariant of ReviewInvariant is inductive, and of what  *)
(* follows from it, for any tables, requests, traffic and faults.          *)
(***************************************************************************)
EXTENDS ReviewInvariant, TLAPS

\* Values of the right type.
LEMMA NoJobType == NoJob \in Job
BY DEF NoJob, Job

\* A transaction that has written nothing is one.
LEMMA NoTxType == NoTx \in TxState
BY DEF NoTx, TxState, UserTable

\* A row is not Null.
LEMMA NullIsNoRow ==
  /\ Null \notin UserIDs /\ Null \notin TeamNames /\ Null \notin PRIDs
  /\ Null \notin UserRow /\ Null \notin PRRow
BY NullAssumption

\* The process starts in a state that satisfies the invariant.
LEMMA InitInv == Init => IInv
<1> SUFFICES ASSUME Init PROVE IInv
  OBVIOUS
<1>1. TypeOK
  BY SeedType, BoundAssumption, NoJobType, NoTxType DEF Init, TypeOK, Database, Labels
<1>2. \A r \in Requests : RequestOK(r)
  BY DEF Init, RequestOK, Arguments, OpsAt, InLoop, ReadsLast, Found, Replacing, Written,
         AuthorExcluded, NoJob, NoTx
<1>3. OneWriter
  BY DEF Init, OneWriter, HoldsPR, NoTx
<1>4. ForeignKeysHold /\ NoSelfReview
  BY SeedType, SeedConsistent
  DEF Init, ForeignKeysHold, NoSelfReview, Exists, Known, Database, ReviewerTable
<1> QED
  BY <1>1, <1>2, <1>3, <1>4 DEF IInv

\* The PR of a request that has been found in the table.
LEMMA FoundPR ==
  ASSUME NEW r \in Requests, Arguments(r), pc[r] \in Found
  PROVE  job[r].pr \in PRIDs
BY DEF Arguments, OpsAt, InLoop, Found, Replacing, Ops

\* A row is never deleted and never changes its author.
DbGrows ==
  /\ \A p \in PRIDs : Exists(p) => Exists(p)' /\ prs'[p].author = prs[p].author
  /\ Known \subseteq Known'

\* A request that takes no step is as well off in a database that has grown, if
\* nobody created the PR it is creating.
LEMMA Bystander ==
  ASSUME NEW s \in Requests, TypeOK, RequestOK(s), DbGrows,
         \A p \in PRIDs : HoldsPR(s, p) /\ ~Exists(p) => ~Exists(p)',
         pc'[s] = pc[s], job'[s] = job[s], tx'[s] = tx[s]
  PROVE  RequestOK(s)'
<1>1. Arguments(s)'
  BY DEF RequestOK, Arguments, InLoop
<1>2. ReadsLast(s)'
  BY FoundPR DEF RequestOK, ReadsLast, DbGrows, TypeOK, Job
<1>3. Written(s)'
  BY DEF RequestOK, Written, DbGrows, HoldsPR
<1>4. AuthorExcluded(s)'
  BY FoundPR DEF RequestOK, AuthorExcluded, ReadsLast, DbGrows
<1> QED
  BY <1>1, <1>2, <1>3, <1>4 DEF RequestOK

\* Only request r moves.
OnlyMoves(r) ==
  \A s \in Requests \ {r} : pc'[s] = pc[s] /\ job'[s] = job[s] /\ tx'[s] = tx[s]

\* A step of one request that leaves the committed rows alone.
LEMMA LocalStep ==
  ASSUME IInv, NEW r \in Requests, UNCHANGED db, OnlyMoves(r), TypeOK', RequestOK(r)',
         tx'[r].pr # Null => \A s \in Requests \ {r} : ~HoldsPR(s, job'[r].pr)
  PROVE  IInv'
<1>1. ASSUME NEW s \in Requests PROVE RequestOK(s)'
  <2>1. CASE s = r
    BY <2>1
  <2>2. CASE s # r
    <3>1. DbGrows /\ \A p \in PRIDs : ~Exists(p) => ~Exists(p)'
      BY DEF DbGrows, Exists, Known, db
    <3> QED
      BY <2>2, <3>1, Bystander DEF IInv, OnlyMoves
  <2> QED
    BY <2>1, <2>2
<1>2. OneWriter'
  BY DEF IInv, OneWriter, HoldsPR, OnlyMoves
<1>3. ForeignKeysHold' /\ NoSelfReview'
  BY DEF IInv, ForeignKeysHold, NoSelfReview, Exists, Known, db
<1> QED
  BY <1>1, <1>2, <1>3 DEF IInv

\* A step that writes no row of pull_requests needs no look at the other sessions.
LEMMA QuietStep ==
  ASSUME IInv, NEW r \in Requests, UNCHANGED db, OnlyMoves(r), TypeOK', RequestOK(r)',
         tx'[r].pr = Null
  PROVE  IInv'
BY LocalStep

\* The local variables of a request that has been answered.
Answer(r, code) ==
  [NoJob EXCEPT !.op = job[r].op, !.pr = job[r].pr, !.user = job[r].user,
                !.team = job[r].team, !.targets = job[r].targets,
                !.skipped = job[r].skipped, !.res = code]

\* They are well-typed, and nothing is left of what it was going to do.
LEMMA AnswerJob ==
  ASSUME NEW r \in Requests, job[r] \in Job, NEW code \in Codes
  PROVE  /\ Answer(r, code) \in Job
         /\ Answer(r, code).op = job[r].op /\ Answer(r, code).pr = job[r].pr
         /\ Answer(r, code).user = job[r].user /\ Answer(r, code).team = job[r].team
         /\ Answer(r, code).picked = {}
         /\ Answer(r, code).work = [u \in UserIDs |-> {}]
<1>1. Answer(r, code) \in Job
  BY NoJobType DEF Answer, Job
<1>2. /\ Answer(r, code).op = job[r].op /\ Answer(r, code).pr = job[r].pr
      /\ Answer(r, code).user = job[r].user /\ Answer(r, code).team = job[r].team
  BY DEF Answer, NoJob
<1>3. Answer(r, code).picked = {} /\ Answer(r, code).work = [u \in UserIDs |-> {}]
  BY DEF Answer, NoJob
<1> QED
  BY <1>1, <1>2, <1>3

\* An answered request satisfies the invariant.
LEMMA AnsweredOK ==
  ASSUME NEW r \in Requests, job[r] \in Job, RequestOK(r), NEW code \in Codes,
         job'[r] = Answer(r, code), pc'[r] = "done", tx'[r] = NoTx
  PROVE  RequestOK(r)'
<1>1. /\ Answer(r, code).op = job[r].op /\ Answer(r, code).pr = job[r].pr
      /\ Answer(r, code).user = job[r].user /\ Answer(r, code).team = job[r].team
      /\ Answer(r, code).picked = {}
      /\ \A u \in UserIDs : Answer(r, code).work[u] = {}
  BY AnswerJob
<1>2. Arguments(r)'
  <2>1. job[r].op \in Ops \cup {"none"}
    BY DEF Job
  <2> QED
    BY <1>1, <2>1 DEF RequestOK, Arguments, OpsAt, InLoop
<1>3. ReadsLast(r)'
  BY <1>1 DEF ReadsLast, Found, Replacing
<1>4. Written(r)'
  BY DEF Written, NoTx
<1>5. AuthorExcluded(r)'
  BY <1>1 DEF AuthorExcluded, Found, Replacing
<1> QED
  BY <1>2, <1>3, <1>4, <1>5 DEF RequestOK

\* The reply of a handler.
LEMMA ReplyStep ==
  ASSUME IInv, NEW r \in Requests, NEW code \in Codes, Reply(r, code),
         UNCHANGED <<db, issued>>
  PROVE  IInv'
<1>1. job[r] \in Job /\ RequestOK(r)
  BY DEF IInv, TypeOK
<1>2. job' = [job EXCEPT ![r] = Answer(r, code)]
  BY DEF Reply, Answer
<1>3. TypeOK' /\ pc'[r] = "done" /\ job'[r] = Answer(r, code) /\ tx'[r] = NoTx /\ OnlyMoves(r)
  BY <1>1, <1>2, AnswerJob, NoTxType DEF IInv, TypeOK, Reply, Goto, OnlyMoves, Labels, db
<1>4. RequestOK(r)'
  BY <1>1, <1>3, AnsweredOK
<1> QED
  BY <1>3, <1>4, QuietStep DEF NoTx, db

\* An error in the loop of a mass deactivation.
LEMMA SkipStep ==
  ASSUME IInv, NEW r \in Requests, SkipUser(r), InLoop(r), UNCHANGED <<db, issued>>
  PROVE  IInv'
<1> DEFINE j == [job[r] EXCEPT !.skipped = @ \cup {job[r].user},
                               !.work = [@ EXCEPT ![job[r].user] = {}]]
<1>1. job[r] \in Job /\ RequestOK(r) /\ job[r].user \in UserIDs
  BY DEF IInv, TypeOK, RequestOK, Arguments
<1>2. j \in Job
  BY <1>1 DEF Job
<1>3. TypeOK' /\ pc'[r] = "md_next" /\ job'[r] = j /\ tx'[r] = NoTx /\ OnlyMoves(r)
  BY <1>2, NoTxType DEF IInv, TypeOK, SkipUser, Goto, OnlyMoves, Labels, db
<1>4. RequestOK(r)'
  BY <1>1, <1>2, <1>3
  DEF RequestOK, Arguments, OpsAt, InLoop, ReadsLast, Found, Replacing, Written,
      AuthorExcluded, NoTx, Job, Exists, Known, db
<1> QED
  BY <1>3, <1>4, QuietStep DEF NoTx, db

\* A call that fails, as the service handles it.
LEMMA CallFailsStep ==
  ASSUME IInv, NEW r \in Requests, CallFails(r), UNCHANGED <<db, issued>>
  PROVE  IInv'
BY ReplyStep, SkipStep DEF CallFails, Codes

------------------------------------------------------------------------------
\* Arrivals.

\* A request that is accepted with well-typed arguments.
LEMMA AcceptStep ==
  ASSUME IInv, NEW r \in Requests, NEW j \in Job, NEW l \in Labels, Accept(r, j, l),
         j.picked = {}, \A u \in UserIDs : j.work[u] = {}, j.op \in OpsAt(l),
         l \in {"at_exists", "sa_update", "cp_author", "mg_status", "ra_pr", "md_team"},
         j.op \in {"add_team", "deactivate"} => j.team \in TeamNames,
         j.op \in {"set_active", "create", "reassign"} => j.user \in UserIDs,
         j.op \in {"create", "merge", "reassign"} => j.pr \in PRIDs
  PROVE  IInv'
<1>1. tx[r].pr = Null /\ tx[r].new = {}
  BY DEF IInv, RequestOK, Written, Accept
<1>a. issued + 1 \in Nat /\ issued + 1 \in 0..MaxRequests
  BY BoundAssumption DEF IInv, TypeOK, Accept
<1>2. [j EXCEPT !.now = issued + 1] \in Job
  BY <1>a DEF Job
<1>3. TypeOK' /\ pc'[r] = l /\ job'[r] = [j EXCEPT !.now = issued + 1]
      /\ OnlyMoves(r) /\ UNCHANGED <<db, tx>>
  BY <1>2, <1>a DEF IInv, TypeOK, Accept, OnlyMoves, db
<1>4. RequestOK(r)'
  BY <1>1, <1>3
  DEF RequestOK, Arguments, InLoop, ReadsLast, Found, Replacing, Written, AuthorExcluded, Job
<1> QED
  BY <1>1, <1>3, <1>4, QuietStep DEF db

\* Every arrival.
LEMMA ArriveStep == ASSUME IInv, NEW r \in Requests, Arrive(r) PROVE IInv'
<1>1. CASE ArriveAddTeam(r)
  <2> PICK t \in TeamNames, members \in SUBSET UserIDs : \E on \in SUBSET members :
             AcceptAddTeam(r, t, members, on)
    BY <1>1 DEF ArriveAddTeam
  <2> PICK on \in SUBSET members : AcceptAddTeam(r, t, members, on)
    OBVIOUS
  <2> DEFINE j == [NoJob EXCEPT !.op = "add_team", !.team = t, !.ids = members, !.on = on]
  <2>1. j \in Job /\ j.op = "add_team" /\ j.team = t /\ j.picked = {}
        /\ \A u \in UserIDs : j.work[u] = {}
    BY NoJobType DEF Job, Ops, NoJob
  <2>2. Accept(r, j, "at_exists")
    BY DEF AcceptAddTeam
  <2>3. j.op \in OpsAt("at_exists") /\ "at_exists" \in Labels
    BY <2>1 DEF OpsAt, Labels
  <2> HIDE DEF j
  <2> QED
    BY <2>1, <2>2, <2>3, AcceptStep
<1>2. CASE ArriveSetActive(r)
  <2> PICK u \in UserIDs, active \in BOOLEAN : AcceptSetActive(r, u, active)
    BY <1>2 DEF ArriveSetActive
  <2> DEFINE on == IF active THEN {u} ELSE {}
  <2> DEFINE j == [NoJob EXCEPT !.op = "set_active", !.user = u, !.on = on]
  <2>a. on \in SUBSET UserIDs
    OBVIOUS
  <2>b. Accept(r, j, "sa_update")
    BY DEF AcceptSetActive
  <2> HIDE DEF on
  <2>1. j \in Job /\ j.op = "set_active" /\ j.user = u /\ j.picked = {}
        /\ \A v \in UserIDs : j.work[v] = {}
    BY NoJobType, <2>a DEF Job, Ops, NoJob
  <2>2. j.op \in OpsAt("sa_update") /\ "sa_update" \in Labels
    BY <2>1 DEF OpsAt, Labels
  <2> HIDE DEF j
  <2> QED
    BY <2>1, <2>2, <2>b, AcceptStep
<1>3. CASE ArriveCreate(r)
  <2> PICK p \in PRIDs, author \in UserIDs : AcceptCreate(r, p, author)
    BY <1>3 DEF ArriveCreate
  <2> DEFINE j == [NoJob EXCEPT !.op = "create", !.pr = p, !.user = author]
  <2>1. j \in Job /\ j.op = "create" /\ j.pr = p /\ j.user = author /\ j.picked = {}
        /\ \A u \in UserIDs : j.work[u] = {}
    BY NoJobType DEF Job, Ops, NoJob
  <2>2. Accept(r, j, "cp_author")
    BY DEF AcceptCreate
  <2>3. j.op \in OpsAt("cp_author") /\ "cp_author" \in Labels
    BY <2>1 DEF OpsAt, Labels
  <2> HIDE DEF j
  <2> QED
    BY <2>1, <2>2, <2>3, AcceptStep
<1>4. CASE ArriveMerge(r)
  <2> PICK p \in PRIDs : AcceptMerge(r, p)
    BY <1>4 DEF ArriveMerge
  <2> DEFINE j == [NoJob EXCEPT !.op = "merge", !.pr = p]
  <2>1. j \in Job /\ j.op = "merge" /\ j.pr = p /\ j.picked = {}
        /\ \A u \in UserIDs : j.work[u] = {}
    BY NoJobType DEF Job, Ops, NoJob
  <2>2. Accept(r, j, "mg_status")
    BY DEF AcceptMerge
  <2>3. j.op \in OpsAt("mg_status") /\ "mg_status" \in Labels
    BY <2>1 DEF OpsAt, Labels
  <2> HIDE DEF j
  <2> QED
    BY <2>1, <2>2, <2>3, AcceptStep
<1>5. CASE ArriveReassign(r)
  <2> PICK p \in PRIDs, old \in UserIDs : AcceptReassign(r, p, old)
    BY <1>5 DEF ArriveReassign
  <2> DEFINE j == [NoJob EXCEPT !.op = "reassign", !.pr = p, !.user = old]
  <2>1. j \in Job /\ j.op = "reassign" /\ j.pr = p /\ j.user = old /\ j.picked = {}
        /\ \A u \in UserIDs : j.work[u] = {}
    BY NoJobType DEF Job, Ops, NoJob
  <2>2. Accept(r, j, "ra_pr")
    BY DEF AcceptReassign
  <2>3. j.op \in OpsAt("ra_pr") /\ "ra_pr" \in Labels
    BY <2>1 DEF OpsAt, Labels
  <2> HIDE DEF j
  <2> QED
    BY <2>1, <2>2, <2>3, AcceptStep
<1>6. CASE ArriveDeactivate(r)
  <2> PICK t \in TeamNames, ids \in SUBSET UserIDs : AcceptDeactivate(r, t, ids)
    BY <1>6 DEF ArriveDeactivate
  <2> DEFINE j == [NoJob EXCEPT !.op = "deactivate", !.team = t, !.ids = ids]
  <2>1. j \in Job /\ j.op = "deactivate" /\ j.team = t /\ j.picked = {}
        /\ \A u \in UserIDs : j.work[u] = {}
    BY NoJobType DEF Job, Ops, NoJob
  <2>2. Accept(r, j, "md_team")
    BY DEF AcceptDeactivate
  <2>3. j.op \in OpsAt("md_team") /\ "md_team" \in Labels
    BY <2>1 DEF OpsAt, Labels
  <2> HIDE DEF j
  <2> QED
    BY <2>1, <2>2, <2>3, AcceptStep
<1> QED
  BY <1>1, <1>2, <1>3, <1>4, <1>5, <1>6 DEF Arrive

------------------------------------------------------------------------------
\* Creation of a PR.

\* CreatePullRequest.
LEMMA CreateStepInv == ASSUME IInv, NEW r \in Requests, CreateStep(r) PROVE IInv'
<1> USE DEF RequestOK
<1>0. job[r] \in Job /\ tx[r] \in TxState /\ RequestOK(r)
  BY DEF IInv, TypeOK
<1>1. CASE CreateReadAuthor(r)
  <2>1. CASE users[job[r].user] = Null
    BY <1>1, <2>1, ReplyStep DEF CreateReadAuthor, Codes
  <2>2. CASE users[job[r].user] # Null
    <3>1. job[r].user \in UserIDs /\ job[r].op = "create"
      BY <1>0, <1>1 DEF CreateReadAuthor, Arguments, OpsAt
    <3>a. users[job[r].user] \in UserRow
      BY <2>2, <3>1 DEF IInv, TypeOK, UserTable
    <3> DEFINE j == [job[r] EXCEPT !.team = users[job[r].user].team]
    <3>b. j \in Job
      BY <1>0, <3>a DEF Job, UserRow
    <3>c. job' = [job EXCEPT ![r] = j] /\ pc' = [pc EXCEPT ![r] = "cp_candidates"]
          /\ UNCHANGED <<db, tx, issued>>
      BY <1>1, <2>2 DEF CreateReadAuthor, Goto, Reply
    <3>2. TypeOK' /\ OnlyMoves(r)
      BY <3>b, <3>c DEF IInv, TypeOK, OnlyMoves, Labels, db
    <3>d. /\ job'[r] = j /\ j.op = "create" /\ j.user = job[r].user /\ j.pr = job[r].pr
          /\ j.picked = job[r].picked /\ j.work = job[r].work
          /\ pc[r] = "cp_author" /\ pc'[r] = "cp_candidates"
      BY <1>0, <1>1, <3>1, <3>c DEF CreateReadAuthor, IInv, TypeOK, Job
    <3> HIDE DEF j
    <3>3. RequestOK(r)' /\ tx'[r].pr = Null
      <4>1. Arguments(r)'
        BY <1>0, <3>1, <3>d DEF Arguments, OpsAt, InLoop
      <4>2. ReadsLast(r)'
        BY <1>0, <3>c, <3>d DEF ReadsLast, Found, Replacing, Exists, Known, db
      <4>3. Written(r)' /\ tx'[r].pr = Null
        BY <1>0, <3>c, <3>d DEF Written
      <4>4. AuthorExcluded(r)'
        BY <1>0, <3>1, <3>d DEF AuthorExcluded, Found, Replacing
      <4> QED
        BY <4>1, <4>2, <4>3, <4>4 DEF RequestOK
    <3> QED
      BY <1>1, <2>2, <3>2, <3>3, QuietStep DEF CreateReadAuthor
  <2> QED
    BY <2>1, <2>2
<1>2. CASE CreatePickReviewers(r)
  <2>1. job[r].op = "create"
    BY <1>0, <1>2 DEF CreatePickReviewers, Arguments, OpsAt
  <2>2. PICK S \in RandomPicks(ActiveTeamMembers(job[r].team, {job[r].user}), 2) :
           job' = [job EXCEPT ![r].picked = S]
    BY <1>2 DEF CreatePickReviewers
  <2>3. S \subseteq Known /\ S \subseteq UserIDs /\ job[r].user \notin S
    BY DEF RandomPicks, ActiveTeamMembers, Known
  <2> DEFINE j == [job[r] EXCEPT !.picked = S]
  <2>b. j \in Job
    BY <1>0, <2>3 DEF Job
  <2>c. job' = [job EXCEPT ![r] = j] /\ pc' = [pc EXCEPT ![r] = "cp_exists"]
        /\ UNCHANGED <<db, tx, issued>>
    BY <1>2, <2>2 DEF CreatePickReviewers, Goto
  <2>4. TypeOK' /\ OnlyMoves(r)
    BY <2>b, <2>c DEF IInv, TypeOK, OnlyMoves, Labels, db
  <2>a. /\ job'[r].op = "create" /\ job'[r].user = job[r].user /\ job'[r].pr = job[r].pr
        /\ job'[r].picked = S /\ job'[r].work = job[r].work
        /\ pc[r] = "cp_candidates" /\ pc'[r] = "cp_exists" /\ UNCHANGED <<db, tx>>
    BY <1>0, <1>2, <2>1, <2>2 DEF CreatePickReviewers, Goto, IInv, TypeOK, Job
  <2>5. RequestOK(r)' /\ tx'[r].pr = Null
    <3>1. Arguments(r)'
      BY <1>0, <2>1, <2>a DEF Arguments, OpsAt, InLoop
    <3>2. ReadsLast(r)'
      BY <1>0, <2>3, <2>a DEF ReadsLast, Found, Replacing, Exists, Known, db
    <3>3. Written(r)' /\ tx'[r].pr = Null
      BY <1>0, <2>a DEF Written
    <3>4. AuthorExcluded(r)'
      BY <2>3, <2>a DEF AuthorExcluded, Found, Replacing
    <3> QED
      BY <3>1, <3>2, <3>3, <3>4 DEF RequestOK
  <2> QED
    BY <1>2, <2>4, <2>5, QuietStep DEF CreatePickReviewers
<1>3. CASE CreateCheckExists(r)
  <2>1. CASE prs[job[r].pr] # Null
    BY <1>3, <2>1, ReplyStep DEF CreateCheckExists, Codes
  <2>2. CASE prs[job[r].pr] = Null
    <3>1. TypeOK' /\ OnlyMoves(r)
      BY <1>0, <1>3, <2>2
      DEF CreateCheckExists, IInv, TypeOK, OnlyMoves, Goto, Labels, db
    <3>2. RequestOK(r)' /\ tx'[r].pr = Null
      BY <1>0, <1>3, <2>2
      DEF CreateCheckExists, IInv, TypeOK, Goto, db, Arguments, OpsAt, InLoop, ReadsLast,
          Found, Replacing, Written, AuthorExcluded, Exists, Known
    <3> QED
      BY <1>3, <2>2, <3>1, <3>2, QuietStep DEF CreateCheckExists
  <2> QED
    BY <2>1, <2>2
<1>4. CASE CreateInsertPR(r)
  <2>1. CASE prs[job[r].pr] # Null
    BY <1>4, <2>1, ReplyStep DEF CreateInsertPR, Codes
  <2>2. CASE prs[job[r].pr] = Null
    <3>1. job[r].op = "create" /\ job[r].user \in UserIDs /\ job[r].pr \in PRIDs
      BY <1>0, <1>4 DEF CreateInsertPR, Arguments, OpsAt
    <3> DEFINE row == [status |-> "OPEN", author |-> job[r].user, mergedAt |-> 0]
    <3>2. row \in PRRow /\ row # Null /\ row.author = job[r].user
      BY <3>1, NullIsNoRow DEF PRRow
    <3>3. tx' = [tx EXCEPT ![r].pr = row] /\ pc' = [pc EXCEPT ![r] = "cp_reviewers"]
          /\ UNCHANGED <<db, job, issued>>
      BY <1>4, <2>2 DEF CreateInsertPR, Goto
    <3>4. TypeOK' /\ OnlyMoves(r)
      BY <1>0, <3>2, <3>3 DEF IInv, TypeOK, OnlyMoves, Labels, TxState, db
    <3>5. RequestOK(r)'
      BY <1>0, <1>4, <2>2, <3>1, <3>2, <3>3
      DEF CreateInsertPR, IInv, TypeOK, db, Arguments, OpsAt, InLoop, ReadsLast,
          Found, Replacing, Written, AuthorExcluded, Exists, Known, TxState
    <3>6. \A s \in Requests \ {r} : ~HoldsPR(s, job'[r].pr)
      BY <1>4, <3>3 DEF CreateInsertPR, PRFree
    <3> QED
      BY <3>3, <3>4, <3>5, <3>6, LocalStep
  <2> QED
    BY <2>1, <2>2
<1>5. CASE CreateInsertReviewers(r)
  <2>1. job[r].op = "create" /\ job[r].pr \in PRIDs
    BY <1>0, <1>5 DEF CreateInsertReviewers, Arguments, OpsAt
  <2>2. tx' = [tx EXCEPT ![r].new = job[r].picked] /\ pc' = [pc EXCEPT ![r] = "commit"]
        /\ UNCHANGED <<db, job, issued>>
    BY <1>5 DEF CreateInsertReviewers, Goto
  <2>3. TypeOK' /\ OnlyMoves(r)
    BY <1>0, <2>2 DEF IInv, TypeOK, OnlyMoves, Labels, TxState, Job, db
  <2>4. RequestOK(r)'
    BY <1>0, <1>5, <2>1, <2>2
    DEF CreateInsertReviewers, IInv, TypeOK, db, Arguments, OpsAt, InLoop, ReadsLast,
        Found, Replacing, Written, AuthorExcluded, Exists, Known, TxState, Ops
  <2>5. \A s \in Requests \ {r} : ~HoldsPR(s, job'[r].pr)
    BY <1>0, <1>5, <2>1, <2>2
    DEF CreateInsertReviewers, IInv, OneWriter, HoldsPR, Written
  <2> QED
    BY <2>2, <2>3, <2>4, <2>5, LocalStep
<1> QED
  BY <1>1, <1>2, <1>3, <1>4, <1>5 DEF CreateStep

------------------------------------------------------------------------------
\* Merge of a PR.

\* UpdatePRStatus.
LEMMA MergeStepInv == ASSUME IInv, NEW r \in Requests, MergeStep(r) PROVE IInv'
<1>0. job[r] \in Job /\ tx[r] \in TxState /\ RequestOK(r)
  BY DEF IInv, TypeOK
<1>1. CASE MergeReadStatus(r)
  <2>1. CASE prs[job[r].pr] = Null
    BY <1>1, <2>1, ReplyStep DEF MergeReadStatus, Codes
  <2>2. CASE prs[job[r].pr] # Null
    <3>1. job[r].op = "merge" /\ tx[r].pr = Null /\ tx[r].new = {}
      BY <1>0, <1>1 DEF MergeReadStatus, RequestOK, Arguments, OpsAt, Written
    <3>2. pc' = [pc EXCEPT ![r] = IF AlreadyMerged(job[r].pr) THEN "commit" ELSE "mg_update"]
          /\ UNCHANGED <<db, job, tx, issued>>
      BY <1>1, <2>2 DEF MergeReadStatus, Goto
    <3>3. TypeOK' /\ OnlyMoves(r)
      BY <3>2 DEF IInv, TypeOK, OnlyMoves, Labels, db
    <3>4. RequestOK(r)'
      BY <1>0, <1>1, <2>2, <3>1, <3>2
      DEF MergeReadStatus, IInv, TypeOK, db, RequestOK, Arguments, OpsAt, InLoop, ReadsLast,
          Found, Replacing, Written, AuthorExcluded, Exists, Known, Ops
    <3> QED
      BY <3>1, <3>2, <3>3, <3>4, QuietStep
  <2> QED
    BY <2>1, <2>2
<1>2. CASE MergeUpdate(r)
  <2>1. job[r].op = "merge" /\ job[r].pr \in PRIDs /\ Exists(job[r].pr) /\ tx[r].new = {}
    BY <1>0, <1>2
    DEF MergeUpdate, RequestOK, Arguments, OpsAt, ReadsLast, Found, Written
  <2> DEFINE row == MergedRow(r, job[r].pr)
  <2>2. prs[job[r].pr] \in PRRow
    BY <2>1 DEF IInv, TypeOK, PRTable, Exists
  <2>3. row \in PRRow /\ row.author = prs[job[r].pr].author /\ row # Null
    BY <1>0, <2>2, NullIsNoRow DEF MergedRow, PRRow, Job
  <2>4. tx' = [tx EXCEPT ![r].pr = row] /\ pc' = [pc EXCEPT ![r] = "commit"]
        /\ UNCHANGED <<db, job, issued>>
    BY <1>2 DEF MergeUpdate, Goto
  <2> HIDE DEF row
  <2>5. TypeOK' /\ OnlyMoves(r)
    BY <1>0, <2>3, <2>4 DEF IInv, TypeOK, OnlyMoves, Labels, TxState, db
  <2>6. RequestOK(r)'
    BY <1>0, <1>2, <2>1, <2>3, <2>4
    DEF MergeUpdate, IInv, TypeOK, db, RequestOK, Arguments, OpsAt, InLoop, ReadsLast, Found,
        Replacing, Written, AuthorExcluded, Exists, Known, TxState, Ops
  <2>7. \A s \in Requests \ {r} : ~HoldsPR(s, job'[r].pr)
    BY <1>2, <2>4 DEF MergeUpdate, PRFree
  <2> QED
    BY <2>4, <2>5, <2>6, <2>7, LocalStep
<1> QED
  BY <1>1, <1>2 DEF MergeStep

------------------------------------------------------------------------------
\* Reassignment of a reviewer.

\* The reads and the choice of ReassignReviewer.
LEMMA ReassignStepInv == ASSUME IInv, NEW r \in Requests, ReassignStep(r) PROVE IInv'
<1>0. job[r] \in Job /\ tx[r] \in TxState /\ RequestOK(r)
  BY DEF IInv, TypeOK
<1>a. job[r].op = "reassign" /\ job[r].pr \in PRIDs /\ job[r].user \in UserIDs
  BY <1>0
  DEF ReassignStep, ReassignReadPR, ReassignReadReviewers, ReassignReadUser, ReassignPick,
      RequestOK, Arguments, OpsAt
<1>b. tx[r].pr = Null /\ tx[r].new = {}
  BY <1>0
  DEF ReassignStep, ReassignReadPR, ReassignReadReviewers, ReassignReadUser, ReassignPick,
      RequestOK, Written
<1>1. CASE ReassignReadPR(r)
  <2>1. CASE prs[job[r].pr] = Null \/ prs[job[r].pr].status = "MERGED"
    BY <1>1, <2>1, ReplyStep DEF ReassignReadPR, Codes
  <2>2. CASE prs[job[r].pr] # Null /\ prs[job[r].pr].status # "MERGED"
    <3> DEFINE j == [job[r] EXCEPT !.author = prs[job[r].pr].author]
    <3>1. prs[job[r].pr] \in PRRow
      BY <1>a, <2>2 DEF IInv, TypeOK, PRTable
    <3>2. j \in Job
      BY <1>0, <3>1 DEF Job, PRRow
    <3>3. job' = [job EXCEPT ![r] = j] /\ pc' = [pc EXCEPT ![r] = "ra_reviewers"]
          /\ UNCHANGED <<db, tx, issued>>
      BY <1>1, <2>2 DEF ReassignReadPR, Goto
    <3>4. TypeOK' /\ OnlyMoves(r)
      BY <3>2, <3>3 DEF IInv, TypeOK, OnlyMoves, Labels, db
    <3>a. /\ job'[r] = j /\ j.op = "reassign" /\ j.user = job[r].user /\ j.pr = job[r].pr
          /\ j.picked = job[r].picked /\ j.work = job[r].work
          /\ j.author = prs[job[r].pr].author /\ pc'[r] = "ra_reviewers"
      BY <1>0, <1>a, <3>3 DEF IInv, TypeOK, Job
    <3> HIDE DEF j
    <3>5. RequestOK(r)'
      <4>1. Arguments(r)'
        BY <1>a, <3>a DEF Arguments, OpsAt, InLoop
      <4>2. ReadsLast(r)'
        BY <1>0, <2>2, <3>3, <3>a DEF RequestOK, ReadsLast, Exists, Known, db
      <4>3. Written(r)'
        BY <1>b, <3>3, <3>a DEF Written
      <4>4. AuthorExcluded(r)'
        BY <3>3, <3>a DEF AuthorExcluded, Replacing, db
      <4> QED
        BY <4>1, <4>2, <4>3, <4>4 DEF RequestOK
    <3> QED
      BY <1>b, <3>3, <3>4, <3>5, QuietStep
  <2> QED
    BY <2>1, <2>2
<1>2. CASE ReassignReadReviewers(r)
  <2>1. CASE job[r].user \notin reviewers[job[r].pr]
    BY <1>2, <2>1, ReplyStep DEF ReassignReadReviewers, Codes
  <2>2. CASE job[r].user \in reviewers[job[r].pr]
    <3> DEFINE j == [job[r] EXCEPT !.seen = reviewers[job[r].pr]]
    <3>1. j \in Job
      BY <1>0, <1>a DEF Job, IInv, TypeOK, ReviewerTable
    <3>2. job[r].user \in Known
      BY <1>a, <2>2 DEF IInv, ForeignKeysHold
    <3>3. job' = [job EXCEPT ![r] = j] /\ pc' = [pc EXCEPT ![r] = "ra_user"]
          /\ UNCHANGED <<db, tx, issued>>
      BY <1>2, <2>2 DEF ReassignReadReviewers, Goto
    <3>4. TypeOK' /\ OnlyMoves(r)
      BY <3>1, <3>3 DEF IInv, TypeOK, OnlyMoves, Labels, db
    <3>a. /\ job'[r] = j /\ j.op = "reassign" /\ j.user = job[r].user /\ j.pr = job[r].pr
          /\ j.picked = job[r].picked /\ j.work = job[r].work /\ j.author = job[r].author
          /\ pc[r] = "ra_reviewers" /\ pc'[r] = "ra_user"
      BY <1>0, <1>2, <1>a, <3>3 DEF ReassignReadReviewers, IInv, TypeOK, Job
    <3> HIDE DEF j
    <3>5. RequestOK(r)'
      <4>1. Arguments(r)'
        BY <1>a, <3>a DEF Arguments, OpsAt, InLoop
      <4>2. ReadsLast(r)'
        BY <1>0, <3>2, <3>3, <3>a DEF RequestOK, ReadsLast, Found, Exists, Known, db
      <4>3. Written(r)'
        BY <1>b, <3>3, <3>a DEF Written
      <4>4. AuthorExcluded(r)'
        BY <1>0, <3>3, <3>a DEF RequestOK, AuthorExcluded, Found, Replacing, db
      <4> QED
        BY <4>1, <4>2, <4>3, <4>4 DEF RequestOK
    <3> QED
      BY <1>b, <3>3, <3>4, <3>5, QuietStep
  <2> QED
    BY <2>1, <2>2
<1>3. CASE ReassignReadUser(r)
  <2> DEFINE j == [job[r] EXCEPT !.team = users[job[r].user].team]
  <2>1. users[job[r].user] \in UserRow
    BY <1>0, <1>3, <1>a
    DEF ReassignReadUser, RequestOK, ReadsLast, Known, IInv, TypeOK, UserTable
  <2>2. j \in Job
    BY <1>0, <2>1 DEF Job, UserRow
  <2>3. job' = [job EXCEPT ![r] = j] /\ pc' = [pc EXCEPT ![r] = "ra_candidates"]
        /\ UNCHANGED <<db, tx, issued>>
    BY <1>3 DEF ReassignReadUser, Goto
  <2>4. TypeOK' /\ OnlyMoves(r)
    BY <2>2, <2>3 DEF IInv, TypeOK, OnlyMoves, Labels, db
  <2>a. /\ job'[r] = j /\ j.op = "reassign" /\ j.user = job[r].user /\ j.pr = job[r].pr
        /\ j.picked = job[r].picked /\ j.work = job[r].work /\ j.author = job[r].author
        /\ pc[r] = "ra_user" /\ pc'[r] = "ra_candidates"
    BY <1>0, <1>3, <1>a, <2>3 DEF ReassignReadUser, IInv, TypeOK, Job
  <2> HIDE DEF j
  <2>5. RequestOK(r)'
    <3>1. Arguments(r)'
      BY <1>a, <2>a DEF Arguments, OpsAt, InLoop
    <3>2. ReadsLast(r)'
      BY <1>0, <2>3, <2>a DEF RequestOK, ReadsLast, Found, Exists, Known, db
    <3>3. Written(r)'
      BY <1>b, <2>3, <2>a DEF Written
    <3>4. AuthorExcluded(r)'
      BY <1>0, <2>3, <2>a DEF RequestOK, AuthorExcluded, Found, Replacing, db
    <3> QED
      BY <3>1, <3>2, <3>3, <3>4 DEF RequestOK
  <2> QED
    BY <1>b, <2>3, <2>4, <2>5, QuietStep
<1>4. CASE ReassignPick(r)
  <2> DEFINE candidates == ActiveTeamMembers(job[r].team, Excluded(r))
  <2>1. CASE candidates = {}
    BY <1>4, <2>1, ReplyStep DEF ReassignPick, Codes
  <2>2. CASE candidates # {}
    <3>1. PICK S \in RandomPicks(candidates, 1) : job' = [job EXCEPT ![r].picked = S]
      BY <1>4, <2>2 DEF ReassignPick
    <3>2. S \subseteq Known /\ S \subseteq UserIDs /\ job[r].author \notin S
      BY DEF RandomPicks, ActiveTeamMembers, Excluded, Known
    <3>3. pc' = [pc EXCEPT ![r] = "rp_status"] /\ UNCHANGED <<db, tx, issued>>
      BY <1>4, <2>2 DEF ReassignPick, Goto
    <3> DEFINE j == [job[r] EXCEPT !.picked = S]
    <3>a. j \in Job /\ job' = [job EXCEPT ![r] = j]
      BY <1>0, <3>1, <3>2 DEF Job
    <3>b. /\ job'[r] = j /\ j.op = "reassign" /\ j.user = job[r].user /\ j.pr = job[r].pr
          /\ j.picked = S /\ j.work = job[r].work /\ j.author = job[r].author
          /\ pc[r] = "ra_candidates" /\ pc'[r] = "rp_status"
      BY <1>0, <1>4, <1>a, <3>3, <3>a DEF ReassignPick, IInv, TypeOK, Job
    <3> HIDE DEF j
    <3>4. TypeOK' /\ OnlyMoves(r)
      BY <3>3, <3>a DEF IInv, TypeOK, OnlyMoves, Labels, db
    <3>5. RequestOK(r)'
      <4>1. Arguments(r)'
        BY <1>a, <3>b DEF Arguments, OpsAt, InLoop
      <4>2. ReadsLast(r)'
        BY <1>0, <3>2, <3>3, <3>b DEF RequestOK, ReadsLast, Found, Exists, Known, db
      <4>3. Written(r)'
        BY <1>b, <3>3, <3>b DEF Written
      <4>4. AuthorExcluded(r)'
        BY <1>0, <3>2, <3>3, <3>b DEF RequestOK, AuthorExcluded, Found, db
      <4> QED
        BY <4>1, <4>2, <4>3, <4>4 DEF RequestOK
    <3> QED
      BY <1>b, <3>3, <3>4, <3>5, QuietStep
  <2> QED
    BY <2>1, <2>2
<1> QED
  BY <1>1, <1>2, <1>3, <1>4 DEF ReassignStep

------------------------------------------------------------------------------
\* The transaction ReplaceReviewer.

\* An error in it, for whoever called it.
LEMMA ReplaceFailsStep ==
  ASSUME IInv, NEW r \in Requests, pc[r] \in Replacing, NEW code \in Codes,
         ReplaceFails(r, code), UNCHANGED <<db, issued>>
  PROVE  IInv'
<1>1. CASE job[r].op = "deactivate"
  BY <1>1, SkipStep DEF ReplaceFails, InLoop, Replacing
<1>2. CASE job[r].op # "deactivate"
  BY <1>2, ReplyStep DEF ReplaceFails
<1> QED
  BY <1>1, <1>2

\* ReplaceReviewer.
LEMMA ReplaceStepInv == ASSUME IInv, NEW r \in Requests, ReplaceStep(r) PROVE IInv'
<1>0. job[r] \in Job /\ tx[r] \in TxState /\ RequestOK(r)
  BY DEF IInv, TypeOK
<1>a. pc[r] \in Replacing
  BY DEF ReplaceStep, ReplaceReadStatus, ReplaceCheckAssigned, ReplaceDelete, ReplaceInsert,
         Replacing
<1>b. job[r].op \in {"reassign", "deactivate"} /\ job[r].pr \in PRIDs
      /\ job[r].user \in UserIDs /\ Exists(job[r].pr) /\ tx[r].pr = Null /\ tx[r].new = {}
  BY <1>0, <1>a
  DEF RequestOK, Arguments, OpsAt, InLoop, Replacing, ReadsLast, Found, Written
<1>c. prs[job[r].pr].author \notin job[r].picked /\ job[r].picked \subseteq Known
  BY <1>0, <1>a DEF RequestOK, ReadsLast, AuthorExcluded, Found, Replacing
<1>1. CASE ReplaceReadStatus(r)
  <2>1. CASE prs[job[r].pr].status = "MERGED"
    BY <1>1, <1>a, <2>1, ReplaceFailsStep DEF ReplaceReadStatus, Codes
  <2>2. CASE prs[job[r].pr].status # "MERGED"
    <3>1. pc' = [pc EXCEPT ![r] = "rp_assigned"] /\ UNCHANGED <<db, job, tx, issued>>
      BY <1>1, <2>2 DEF ReplaceReadStatus, Goto
    <3>2. TypeOK' /\ OnlyMoves(r)
      BY <3>1 DEF IInv, TypeOK, OnlyMoves, Labels, db
    <3>3. RequestOK(r)'
      BY <1>0, <1>a, <1>b, <3>1
      DEF IInv, TypeOK, db, RequestOK, Arguments, OpsAt, InLoop, ReadsLast, Found, Replacing,
          Written, AuthorExcluded, Exists, Known
    <3> QED
      BY <1>b, <3>1, <3>2, <3>3, QuietStep
  <2> QED
    BY <2>1, <2>2
<1>2. CASE ReplaceCheckAssigned(r)
  <2>1. CASE job[r].user \notin reviewers[job[r].pr]
    BY <1>2, <1>a, <2>1, ReplaceFailsStep DEF ReplaceCheckAssigned, Codes
  <2>2. CASE job[r].user \in reviewers[job[r].pr]
    <3>1. pc' = [pc EXCEPT ![r] = "rp_delete"] /\ UNCHANGED <<db, job, tx, issued>>
      BY <1>2, <2>2 DEF ReplaceCheckAssigned, Goto
    <3>2. TypeOK' /\ OnlyMoves(r)
      BY <3>1 DEF IInv, TypeOK, OnlyMoves, Labels, db
    <3>3. RequestOK(r)'
      BY <1>0, <1>a, <1>b, <3>1
      DEF IInv, TypeOK, db, RequestOK, Arguments, OpsAt, InLoop, ReadsLast, Found, Replacing,
          Written, AuthorExcluded, Exists, Known
    <3> QED
      BY <1>b, <3>1, <3>2, <3>3, QuietStep
  <2> QED
    BY <2>1, <2>2
<1>3. CASE ReplaceDelete(r)
  <2> DEFINE t == [tx[r] EXCEPT !.gone = {job[r].user} \cap reviewers[job[r].pr],
                                !.dropped = {job[r].user}]
  <2>1. t \in TxState /\ t.pr = Null /\ t.new = {}
    BY <1>0, <1>b DEF TxState
  <2>2. tx' = [tx EXCEPT ![r] = t]
        /\ pc' = [pc EXCEPT ![r] = IF job[r].picked = {} THEN "commit" ELSE "rp_insert"]
        /\ UNCHANGED <<db, job, issued>>
    BY <1>3 DEF ReplaceDelete, Goto
  <2> HIDE DEF t
  <2>3. TypeOK' /\ OnlyMoves(r)
    BY <2>1, <2>2 DEF IInv, TypeOK, OnlyMoves, Labels, db
  <2>4. RequestOK(r)'
    BY <1>0, <1>a, <1>b, <2>1, <2>2
    DEF IInv, TypeOK, db, RequestOK, Arguments, OpsAt, InLoop, ReadsLast, Found, Replacing,
        Written, AuthorExcluded, Exists, Known, Ops
  <2>5. tx'[r].pr = Null
    BY <2>1, <2>2 DEF IInv, TypeOK
  <2> QED
    BY <2>2, <2>3, <2>4, <2>5, QuietStep
<1>4. CASE ReplaceInsert(r)
  <2>1. CASE job[r].picked \cap reviewers[job[r].pr] # {}
    BY <1>4, <1>a, <2>1, ReplaceFailsStep DEF ReplaceInsert, Codes
  <2>2. CASE job[r].picked \cap reviewers[job[r].pr] = {}
    <3> DEFINE t == [tx[r] EXCEPT !.new = job[r].picked]
    <3>1. t \in TxState /\ t.pr = Null /\ t.new = job[r].picked
      BY <1>0, <1>b DEF TxState, Job
    <3>2. tx' = [tx EXCEPT ![r] = t] /\ pc' = [pc EXCEPT ![r] = "commit"]
          /\ UNCHANGED <<db, job, issued>>
      BY <1>4, <2>2 DEF ReplaceInsert, Goto
    <3> HIDE DEF t
    <3>3. TypeOK' /\ OnlyMoves(r)
      BY <3>1, <3>2 DEF IInv, TypeOK, OnlyMoves, Labels, db
    <3>4. RequestOK(r)'
      BY <1>0, <1>a, <1>b, <1>c, <3>1, <3>2
      DEF IInv, TypeOK, db, RequestOK, Arguments, OpsAt, InLoop, ReadsLast, Found, Replacing,
          Written, AuthorExcluded, Exists, Known, Ops
    <3>5. tx'[r].pr = Null
      BY <3>1, <3>2 DEF IInv, TypeOK
    <3> QED
      BY <3>2, <3>3, <3>4, <3>5, QuietStep
  <2> QED
    BY <2>1, <2>2
<1> QED
  BY <1>1, <1>2, <1>3, <1>4 DEF ReplaceStep

\* The read after the commit.
LEMMA ReadBackInv == ASSUME IInv, NEW r \in Requests, ReadBack(r) PROVE IInv'
<1>0. job[r] \in Job /\ tx[r] \in TxState /\ RequestOK(r)
  BY DEF IInv, TypeOK
<1>1. CASE job[r].op = "deactivate"
  <2>1. pc' = [pc EXCEPT ![r] = "md_next"] /\ UNCHANGED <<db, job, tx, issued>>
    BY <1>1 DEF ReadBack, Goto
  <2>2. tx[r].pr = Null /\ tx[r].new = {}
    BY <1>0 DEF ReadBack, RequestOK, Written
  <2>3. TypeOK' /\ OnlyMoves(r)
    BY <2>1 DEF IInv, TypeOK, OnlyMoves, Labels, db
  <2>4. RequestOK(r)'
    BY <1>0, <1>1, <2>1, <2>2
    DEF ReadBack, IInv, TypeOK, db, RequestOK, Arguments, OpsAt, InLoop, ReadsLast, Found,
        Replacing, Written, AuthorExcluded, Exists, Known
  <2> QED
    BY <2>1, <2>2, <2>3, <2>4, QuietStep
<1>2. CASE job[r].op # "deactivate"
  BY <1>2, ReplyStep DEF ReadBack, Codes
<1> QED
  BY <1>1, <1>2

------------------------------------------------------------------------------
\* Mass deactivation, all but its COMMIT.

\* What a request holds at the labels of the deactivation.
LEMMA DeactivateFacts ==
  ASSUME IInv, NEW r \in Requests,
         pc[r] \in {"md_team", "md_exists", "md_update", "md_commit", "md_list", "md_next",
                    "md_pr", "md_reviewers", "md_candidates", "md_finish"}
  PROVE  /\ job[r] \in Job /\ tx[r] \in TxState /\ RequestOK(r)
         /\ job[r].op = "deactivate" /\ job[r].team \in TeamNames
         /\ tx[r].pr = Null /\ tx[r].new = {}
         /\ pc[r] \in {"md_pr", "md_reviewers", "md_candidates"} =>
              job[r].user \in UserIDs /\ job[r].pr \in PRIDs /\ Exists(job[r].pr)
<1>1. job[r] \in Job /\ tx[r] \in TxState /\ RequestOK(r)
  BY DEF IInv, TypeOK
<1>2. job[r].op = "deactivate"
  BY <1>1 DEF RequestOK, Arguments, OpsAt
<1>3. tx[r].pr = Null /\ tx[r].new = {}
  BY <1>1 DEF RequestOK, Written
<1> QED
  BY <1>1, <1>2, <1>3 DEF RequestOK, Arguments, ReadsLast, InLoop, Found

\* A step of the deactivation that changes at most its local variables.
LEMMA DeactivateLocal ==
  ASSUME IInv, NEW r \in Requests,
         pc[r] \in {"md_team", "md_list", "md_next", "md_pr", "md_reviewers", "md_candidates"},
         NEW j \in Job,
         NEW l \in {"md_exists", "md_update", "md_next", "md_pr", "md_reviewers", "md_candidates",
                    "rp_status", "md_finish"},
         job' = [job EXCEPT ![r] = j], pc' = [pc EXCEPT ![r] = l],
         UNCHANGED <<db, tx, issued>>,
         j.op = "deactivate", j.team \in TeamNames,
         l \in Found => j.user \in UserIDs /\ j.pr \in PRIDs /\ Exists(j.pr),
         \A u \in UserIDs : \A p \in j.work[u] : Exists(p),
         l = "md_update" => j.ids \subseteq Known,
         j.picked \subseteq Known,
         l \in Found \ {"md_pr"} => j.author = prs[j.pr].author,
         l = "rp_status" => j.author \notin j.picked
  PROVE  IInv'
<1>1. tx[r].pr = Null /\ tx[r].new = {}
  BY DeactivateFacts
<1>2. TypeOK' /\ pc'[r] = l /\ job'[r] = j /\ OnlyMoves(r)
  BY DEF IInv, TypeOK, OnlyMoves, Labels, db
<1>3. Arguments(r)' /\ ReadsLast(r)'
  BY <1>2 DEF Arguments, OpsAt, InLoop, ReadsLast, Found, Replacing, Exists, Known, db
<1>4. Written(r)' /\ AuthorExcluded(r)'
  BY <1>1, <1>2 DEF Written, AuthorExcluded, Found, Replacing, db
<1> QED
  BY <1>1, <1>2, <1>3, <1>4, QuietStep DEF RequestOK

\* MassDeactivate.
LEMMA DeactivateStepInv ==
  ASSUME IInv, NEW r \in Requests, DeactivateStep(r), ~DeactivateCommit(r)
  PROVE  IInv'
<1>0. \A u \in UserIDs : \A p \in job[r].work[u] : Exists(p)
  BY DEF IInv, RequestOK, ReadsLast
<1>a. job[r].picked \subseteq Known
  BY DEF IInv, RequestOK, ReadsLast
<1>1. CASE DeactivateReadTeam(r)
  <2> DEFINE t == job[r].team
             ids == job[r].ids
             targets == DeactivationTargets(t, ids)
  <2>a. CASE Members(t) = {}
    <3>1. pc[r] = "md_team" /\ pc' = [pc EXCEPT ![r] = "md_exists"]
          /\ UNCHANGED <<db, tx, issued>> /\ job' = [job EXCEPT ![r] = job[r]]
      BY <1>1, <2>a DEF DeactivateReadTeam, Goto, IInv, TypeOK
    <3> QED
      BY <1>0, <1>a, <3>1, DeactivateFacts, DeactivateLocal DEF Found, Replacing
  <2>1. CASE Members(t) # {} /\ ~(ids \subseteq Members(t) /\ targets # {})
    BY <1>1, <2>1, ReplyStep DEF DeactivateReadTeam, Codes
  <2>2. CASE Members(t) # {} /\ ids \subseteq Members(t) /\ targets # {}
    <3>1. targets \subseteq Known /\ targets \subseteq UserIDs
      BY <2>2 DEF DeactivationTargets, Members, Known
    <3> DEFINE j == [job[r] EXCEPT !.targets = targets, !.ids = targets]
    <3>2. CASE Reply(r, "OK") \/ Reply(r, "NOT_FOUND")
      BY <1>1, <3>2, ReplyStep DEF DeactivateReadTeam, Codes
    <3>3. CASE ~(Reply(r, "OK") \/ Reply(r, "NOT_FOUND"))
      <4>1. pc[r] = "md_team" /\ job' = [job EXCEPT ![r] = j]
            /\ pc' = [pc EXCEPT ![r] = "md_update"] /\ UNCHANGED <<db, tx, issued>>
        BY <1>1, <2>2, <3>3 DEF DeactivateReadTeam, Goto
      <4>a. job[r] \in Job
        BY DEF IInv, TypeOK
      <4> HIDE DEF targets
      <4>2. j \in Job /\ j.op = job[r].op /\ j.team = t /\ j.ids = targets
            /\ j.work = job[r].work /\ j.picked = job[r].picked
        BY <3>1, <4>a DEF Job
      <4> HIDE DEF j, targets
      <4> QED
        BY <1>0, <1>a, <3>1, <4>1, <4>2, DeactivateFacts, DeactivateLocal DEF Found, Replacing
    <3> QED
      BY <3>2, <3>3
  <2> QED
    BY <2>a, <2>1, <2>2
<1>b. CASE DeactivateTeamExists(r)
  BY <1>b, ReplyStep DEF DeactivateTeamExists, Codes
<1>2. CASE DeactivateUpdate(r)
  <2>1. PICK u \in job[r].ids :
          /\ tx' = [tx EXCEPT ![r].users = [@ EXCEPT ![u] =
                      [users[u] EXCEPT !.active = FALSE]]]
          /\ job' = [job EXCEPT ![r].ids = @ \ {u}]
          /\ Goto(r, IF job[r].ids = {u} THEN "md_commit" ELSE "md_update")
    BY <1>2 DEF DeactivateUpdate
  <2>2. pc[r] = "md_update" /\ job[r] \in Job /\ tx[r] \in TxState /\ RequestOK(r)
        /\ job[r].op = "deactivate" /\ tx[r].pr = Null /\ tx[r].new = {}
    BY <1>2, DeactivateFacts DEF DeactivateUpdate
  <2> DEFINE row == [users[u] EXCEPT !.active = FALSE]
             t == [tx[r] EXCEPT !.users = [tx[r].users EXCEPT ![u] = row]]
             j == [job[r] EXCEPT !.ids = job[r].ids \ {u}]
  <2>3. u \in Known /\ u \in UserIDs /\ users[u] \in UserRow
    BY <2>2 DEF RequestOK, ReadsLast, Known, IInv, TypeOK, UserTable
  <2>4. row \in UserRow
    BY <2>3 DEF UserRow
  <2> HIDE DEF row
  <2>5. t \in TxState /\ t.pr = Null /\ t.new = {}
    BY <2>2, <2>3, <2>4 DEF TxState, UserTable
  <2>6. j \in Job
    BY <2>2 DEF Job
  <2>7. tx' = [tx EXCEPT ![r] = t] /\ job' = [job EXCEPT ![r] = j]
        /\ pc' = [pc EXCEPT ![r] = IF job[r].ids = {u} THEN "md_commit" ELSE "md_update"]
        /\ UNCHANGED <<db, issued>>
    BY <1>2, <2>1, <2>2 DEF DeactivateUpdate, Goto, row
  <2> HIDE DEF t
  <2>8. TypeOK' /\ OnlyMoves(r)
    BY <2>5, <2>6, <2>7 DEF IInv, TypeOK, OnlyMoves, Labels, db
  <2>a. /\ job'[r] = j /\ tx'[r] = t /\ pc'[r] \in {"md_update", "md_commit"}
        /\ j.op = "deactivate" /\ j.team = job[r].team /\ j.picked = job[r].picked
        /\ j.work = job[r].work /\ j.ids \subseteq job[r].ids
    BY <2>2, <2>7 DEF IInv, TypeOK, Job
  <2> HIDE DEF j
  <2>9. RequestOK(r)'
    <3>1. Arguments(r)'
      BY <2>2, <2>a DEF RequestOK, Arguments, OpsAt, InLoop
    <3>2. ReadsLast(r)'
      BY <2>2, <2>7, <2>a DEF RequestOK, ReadsLast, Found, Replacing, Exists, Known, db
    <3>3. Written(r)'
      BY <2>5, <2>a DEF Written
    <3>4. AuthorExcluded(r)'
      BY <2>a DEF AuthorExcluded, Found, Replacing
    <3> QED
      BY <3>1, <3>2, <3>3, <3>4 DEF RequestOK
  <2>10. tx'[r].pr = Null
    BY <2>5, <2>7 DEF IInv, TypeOK
  <2> QED
    BY <2>7, <2>8, <2>9, <2>10, QuietStep
<1>3. CASE DeactivateListOpenPRs(r)
  <2> DEFINE work == [u \in UserIDs |->
               IF u \in job[r].targets
               THEN {p \in PRIDs : u \in reviewers[p] /\ prs[p].status = "OPEN"}
               ELSE {}]
             j == [job[r] EXCEPT !.work = work]
  <2>1. work \in [UserIDs -> SUBSET PRIDs] /\ \A u \in UserIDs : \A p \in work[u] : Exists(p)
    BY DEF IInv, ForeignKeysHold
  <2>2. pc[r] = "md_list" /\ job' = [job EXCEPT ![r] = j]
        /\ pc' = [pc EXCEPT ![r] = "md_next"] /\ UNCHANGED <<db, tx, issued>>
    BY <1>3 DEF DeactivateListOpenPRs, Goto
  <2> HIDE DEF work
  <2>3. j \in Job /\ j.op = job[r].op /\ j.team = job[r].team /\ j.work = work
        /\ j.picked = job[r].picked
    BY <2>1, <2>2, DeactivateFacts DEF Job
  <2> HIDE DEF j
  <2> QED
    BY <1>a, <2>1, <2>2, <2>3, DeactivateFacts, DeactivateLocal DEF Found, Replacing
<1>4. CASE DeactivateNextPR(r)
  <2>1. PICK u \in CurrentUsers(r) : \E p \in job[r].work[u] :
          job' = [job EXCEPT ![r] = [@ EXCEPT !.user = u, !.pr = p,
                                              !.work = [job[r].work EXCEPT ![u] = @ \ {p}]]]
    BY <1>4 DEF DeactivateNextPR
  <2>2. PICK p \in job[r].work[u] :
          job' = [job EXCEPT ![r] = [@ EXCEPT !.user = u, !.pr = p,
                                              !.work = [job[r].work EXCEPT ![u] = @ \ {p}]]]
    BY <2>1
  <2> DEFINE work == [job[r].work EXCEPT ![u] = job[r].work[u] \ {p}]
             j == [job[r] EXCEPT !.user = u, !.pr = p, !.work = work]
  <2>3. pc[r] = "md_next" /\ pc' = [pc EXCEPT ![r] = "md_pr"] /\ UNCHANGED <<db, tx, issued>>
    BY <1>4 DEF DeactivateNextPR, Goto
  <2>4. u \in UserIDs /\ p \in PRIDs /\ Exists(p)
    BY <1>0, <2>3, DeactivateFacts DEF CurrentUsers, Job
  <2>5. work \in [UserIDs -> SUBSET PRIDs] /\ \A v \in UserIDs : \A q \in work[v] : Exists(q)
    BY <1>0, <2>3, <2>4, DeactivateFacts DEF Job
  <2>a. job \in [Requests -> Job] /\ job[r] \in Job
    BY DEF IInv, TypeOK
  <2>6. job' = [job EXCEPT ![r] = j]
    BY <2>2, <2>a
  <2> HIDE DEF work
  <2>7. j \in Job /\ j.op = job[r].op /\ j.team = job[r].team /\ j.work = work
        /\ j.picked = job[r].picked /\ j.user = u /\ j.pr = p
    BY <2>4, <2>5, <2>a DEF Job
  <2> HIDE DEF j
  <2> QED
    BY <1>a, <2>3, <2>4, <2>5, <2>6, <2>7, DeactivateFacts, DeactivateLocal
    DEF Found, Replacing
<1>5. CASE DeactivateLoopEnds(r)
  <2>1. pc[r] = "md_next" /\ pc' = [pc EXCEPT ![r] = "md_finish"]
        /\ UNCHANGED <<db, tx, issued>> /\ job' = [job EXCEPT ![r] = job[r]]
    BY <1>5 DEF DeactivateLoopEnds, Goto, IInv, TypeOK
  <2> QED
    BY <1>0, <1>a, <2>1, DeactivateFacts, DeactivateLocal DEF Found, Replacing
<1>6. CASE DeactivateReadPR(r)
  <2> DEFINE j == [job[r] EXCEPT !.author = prs[job[r].pr].author]
  <2>1. pc[r] = "md_pr" /\ job' = [job EXCEPT ![r] = j]
        /\ pc' = [pc EXCEPT ![r] = "md_reviewers"] /\ UNCHANGED <<db, tx, issued>>
    BY <1>6 DEF DeactivateReadPR, Goto
  <2>2. prs[job[r].pr] \in PRRow
    BY <2>1, DeactivateFacts DEF IInv, TypeOK, PRTable, Exists
  <2>3. j \in Job /\ j.op = job[r].op /\ j.team = job[r].team /\ j.work = job[r].work
        /\ j.picked = job[r].picked /\ j.user = job[r].user /\ j.pr = job[r].pr
        /\ j.author = prs[job[r].pr].author
    BY <2>1, <2>2, DeactivateFacts DEF Job, PRRow
  <2> HIDE DEF j
  <2> QED
    BY <1>0, <1>a, <2>1, <2>3, DeactivateFacts, DeactivateLocal DEF Found, Replacing
<1>7. CASE DeactivateReadReviewers(r)
  <2> DEFINE j == [job[r] EXCEPT !.seen = reviewers[job[r].pr]]
  <2>1. pc[r] = "md_reviewers" /\ job' = [job EXCEPT ![r] = j]
        /\ pc' = [pc EXCEPT ![r] = "md_candidates"] /\ UNCHANGED <<db, tx, issued>>
    BY <1>7 DEF DeactivateReadReviewers, Goto
  <2>a. job[r] \in Job /\ reviewers[job[r].pr] \in SUBSET UserIDs
    BY <2>1, DeactivateFacts DEF IInv, TypeOK, ReviewerTable
  <2>2. j \in Job /\ j.op = job[r].op /\ j.team = job[r].team /\ j.work = job[r].work
        /\ j.picked = job[r].picked /\ j.user = job[r].user /\ j.pr = job[r].pr
        /\ j.author = job[r].author
    BY <2>a DEF Job
  <2>3. job[r].author = prs[job[r].pr].author
    BY <2>1, DeactivateFacts DEF RequestOK, AuthorExcluded, Found
  <2> HIDE DEF j
  <2> QED
    BY <1>0, <1>a, <2>1, <2>2, <2>3, DeactivateFacts, DeactivateLocal DEF Found, Replacing
<1>8. CASE DeactivatePick(r)
  <2>1. PICK S \in RandomPicks(ActiveTeamMembers(job[r].team, Excluded(r)), 1) :
          job' = [job EXCEPT ![r].picked = S]
    BY <1>8 DEF DeactivatePick
  <2>2. S \subseteq Known /\ S \subseteq UserIDs /\ job[r].author \notin S
    BY DEF RandomPicks, ActiveTeamMembers, Excluded, Known
  <2> DEFINE j == [job[r] EXCEPT !.picked = S]
  <2>3. pc[r] = "md_candidates" /\ job' = [job EXCEPT ![r] = j]
        /\ pc' = [pc EXCEPT ![r] = "rp_status"] /\ UNCHANGED <<db, tx, issued>>
    BY <1>8, <2>1 DEF DeactivatePick, Goto
  <2>4. j \in Job /\ j.op = job[r].op /\ j.team = job[r].team /\ j.work = job[r].work
        /\ j.picked = S /\ j.user = job[r].user /\ j.pr = job[r].pr
        /\ j.author = job[r].author
    BY <2>2, <2>3, DeactivateFacts DEF Job
  <2>5. job[r].author = prs[job[r].pr].author
    BY <2>3, DeactivateFacts DEF RequestOK, AuthorExcluded, Found
  <2> HIDE DEF j
  <2> QED
    BY <1>0, <2>2, <2>3, <2>4, <2>5, DeactivateFacts, DeactivateLocal DEF Found, Replacing
<1>9. CASE DeactivateFinish(r)
  BY <1>9, ReplyStep DEF DeactivateFinish, Codes
<1> QED
  BY <1>1, <1>b, <1>2, <1>3, <1>4, <1>5, <1>6, <1>7, <1>8, <1>9 DEF DeactivateStep

------------------------------------------------------------------------------
\* Creation of a team, and the activity of a user.

\* A request takes a step without reading or writing anything but rows of users:
\* what it has to remember is little.
LEMMA TeamLocal ==
  ASSUME IInv, NEW r \in Requests, job[r].op = "add_team",
         pc[r] \in {"at_exists", "at_insert", "at_upsert"},
         NEW j \in Job, NEW t \in TxState, NEW l \in {"at_insert", "at_upsert", "commit"},
         job' = [job EXCEPT ![r] = j], tx' = [tx EXCEPT ![r] = t],
         pc' = [pc EXCEPT ![r] = l], UNCHANGED <<db, issued>>,
         j.op = job[r].op, j.team = job[r].team, j.picked = job[r].picked,
         j.work = job[r].work, t.pr = tx[r].pr, t.new = tx[r].new
  PROVE  IInv'
<1>1. job[r] \in Job /\ RequestOK(r)
  BY DEF IInv, TypeOK
<1>2. tx[r].pr = Null /\ tx[r].new = {}
  BY <1>1 DEF RequestOK, Written
<1>3. TypeOK' /\ pc'[r] = l /\ job'[r] = j /\ tx'[r] = t /\ OnlyMoves(r)
  BY DEF IInv, TypeOK, OnlyMoves, Labels, db
<1>4. RequestOK(r)'
  BY <1>1, <1>2, <1>3
  DEF RequestOK, Arguments, OpsAt, InLoop, ReadsLast, Found, Replacing, Written,
      AuthorExcluded, Exists, Known, Ops, db
<1> QED
  BY <1>2, <1>3, <1>4, QuietStep

\* CreateTeam.
LEMMA AddTeamInv ==
  ASSUME IInv, NEW r \in Requests,
         AddTeamCheckExists(r) \/ AddTeamInsert(r) \/ AddTeamUpsert(r)
  PROVE  IInv'
<1>0. job[r] \in Job /\ tx[r] \in TxState /\ job \in [Requests -> Job]
      /\ tx \in [Requests -> TxState] /\ job[r].op = "add_team" /\ job[r].team \in TeamNames
  BY DEF IInv, TypeOK, RequestOK, Arguments, OpsAt, AddTeamCheckExists, AddTeamInsert,
         AddTeamUpsert
<1>1. CASE AddTeamCheckExists(r)
  <2>1. CASE job[r].team \in teams
    BY <1>1, <2>1, ReplyStep DEF AddTeamCheckExists, Codes
  <2>2. CASE job[r].team \notin teams
    <3>1. pc[r] = "at_exists" /\ pc' = [pc EXCEPT ![r] = "at_insert"]
          /\ job' = [job EXCEPT ![r] = job[r]] /\ tx' = [tx EXCEPT ![r] = tx[r]]
          /\ UNCHANGED <<db, issued>>
      BY <1>0, <1>1, <2>2 DEF AddTeamCheckExists, Goto
    <3> QED
      BY <1>0, <3>1, TeamLocal
  <2> QED
    BY <2>1, <2>2
<1>2. CASE AddTeamInsert(r)
  <2>1. CASE job[r].team \in teams
    BY <1>2, <2>1, ReplyStep DEF AddTeamInsert, Codes
  <2>2. CASE job[r].team \notin teams
    <3> DEFINE t == [tx[r] EXCEPT !.team = job[r].team]
               l == IF job[r].ids = {} THEN "commit" ELSE "at_upsert"
    <3>1. t \in TxState /\ t.pr = tx[r].pr /\ t.new = tx[r].new
      BY <1>0 DEF TxState
    <3>2. pc[r] = "at_insert" /\ pc' = [pc EXCEPT ![r] = l]
          /\ job' = [job EXCEPT ![r] = job[r]] /\ tx' = [tx EXCEPT ![r] = t]
          /\ UNCHANGED <<db, issued>>
      BY <1>0, <1>2, <2>2 DEF AddTeamInsert, Goto
    <3>3. l \in {"at_insert", "at_upsert", "commit"}
      OBVIOUS
    <3> HIDE DEF t, l
    <3> QED
      BY <1>0, <3>1, <3>2, <3>3, TeamLocal
  <2> QED
    BY <2>1, <2>2
<1>3. CASE AddTeamUpsert(r)
  <2>1. PICK u \in job[r].ids :
          /\ tx' = [tx EXCEPT ![r].users = [@ EXCEPT ![u] =
                      [team |-> job[r].team, active |-> u \in job[r].on]]]
          /\ job' = [job EXCEPT ![r].ids = @ \ {u}]
          /\ Goto(r, IF job[r].ids = {u} THEN "commit" ELSE "at_upsert")
    BY <1>3 DEF AddTeamUpsert
  <2> DEFINE row == [team |-> job[r].team, active |-> u \in job[r].on]
             t == [tx[r] EXCEPT !.users = [tx[r].users EXCEPT ![u] = row]]
             j == [job[r] EXCEPT !.ids = job[r].ids \ {u}]
             l == IF job[r].ids = {u} THEN "commit" ELSE "at_upsert"
  <2>2. row \in UserRow /\ u \in UserIDs
    BY <1>0 DEF UserRow, Job
  <2>3. tx' = [tx EXCEPT ![r] = t] /\ job' = [job EXCEPT ![r] = j]
        /\ pc' = [pc EXCEPT ![r] = l] /\ pc[r] = "at_upsert" /\ UNCHANGED <<db, issued>>
    BY <1>0, <1>3, <2>1 DEF AddTeamUpsert, Goto
  <2> HIDE DEF row
  <2>4. t \in TxState /\ t.pr = tx[r].pr /\ t.new = tx[r].new
    BY <1>0, <2>2 DEF TxState, UserTable
  <2>5. j \in Job /\ j.op = job[r].op /\ j.team = job[r].team /\ j.picked = job[r].picked
        /\ j.work = job[r].work
    BY <1>0 DEF Job
  <2>6. l \in {"at_insert", "at_upsert", "commit"}
    OBVIOUS
  <2> HIDE DEF t, j, l
  <2> QED
    BY <1>0, <2>3, <2>4, <2>5, <2>6, TeamLocal
<1> QED
  BY <1>1, <1>2, <1>3

\* SetUserActivity.
LEMMA SetUserActivityInv ==
  ASSUME IInv, NEW r \in Requests, SetUserActivity(r)
  PROVE  IInv'
<1> DEFINE u == job[r].user
<1>0. job[r] \in Job /\ RequestOK(r) /\ job[r].op = "set_active" /\ u \in UserIDs
      /\ tx[r].pr = Null /\ tx[r].new = {}
  BY DEF IInv, TypeOK, RequestOK, Arguments, OpsAt, Written, SetUserActivity
<1>1. CASE users[u] = Null
  BY <1>1, ReplyStep DEF SetUserActivity, Codes, db
<1>2. CASE users[u] # Null
  <2>1. users[u] \in UserRow
    BY <1>0, <1>2 DEF IInv, TypeOK, UserTable
  <2> DEFINE on == u \in job[r].on
             row == [users[u] EXCEPT !.active = on]
  <2>a. on \in BOOLEAN
    OBVIOUS
  <2>3. users' = [users EXCEPT ![u] = row] /\ pc' = [pc EXCEPT ![r] = "readback"]
        /\ pc[r] = "sa_update"
        /\ UNCHANGED <<teams, prs, reviewers, assigned, unassigned, job, tx, issued>>
    BY <1>2 DEF SetUserActivity, Goto
  <2> HIDE DEF on
  <2>2. row \in UserRow
    BY <2>1, <2>a DEF UserRow
  <2> HIDE DEF row
  <2>4. TypeOK' /\ OnlyMoves(r)
    BY <2>2, <2>3 DEF IInv, TypeOK, UserTable, OnlyMoves, Labels
  <2>5. Known' = Known
    BY <1>0, <1>2, <2>2, <2>3, NullIsNoRow DEF IInv, TypeOK, UserTable, Known
  <2>6. DbGrows /\ \A p \in PRIDs : ~Exists(p) => ~Exists(p)'
    BY <2>3, <2>5 DEF DbGrows, Exists
  <2>7. RequestOK(r)'
    BY <1>0, <2>3, <2>5
    DEF IInv, TypeOK, RequestOK, Arguments, OpsAt, InLoop, ReadsLast, Found, Replacing,
        Written, AuthorExcluded, Exists, Ops
  <2>8. ASSUME NEW s \in Requests PROVE RequestOK(s)'
    BY <2>4, <2>6, <2>7, Bystander DEF OnlyMoves, IInv
  <2>9. OneWriter' /\ ForeignKeysHold' /\ NoSelfReview'
    BY <2>3, <2>5
    DEF IInv, OneWriter, HoldsPR, ForeignKeysHold, NoSelfReview, Exists
  <2> QED
    BY <2>4, <2>8, <2>9 DEF IInv
<1> QED
  BY <1>1, <1>2

\* The operations on teams and users.
LEMMA TeamStepInv == ASSUME IInv, NEW r \in Requests, TeamStep(r) PROVE IInv'
BY AddTeamInv, SetUserActivityInv DEF TeamStep

------------------------------------------------------------------------------
\* COMMIT.

\* What it does to the rows.
LEMMA PublishGrows ==
  ASSUME IInv, NEW r \in Requests, Publish(r)
  PROVE  /\ DbGrows
         /\ \A s \in Requests \ {r} : \A p \in PRIDs :
              HoldsPR(s, p) /\ ~Exists(p) => ~Exists(p)'
         /\ \A p \in PRIDs : HoldsPR(r, p) => Exists(p)'
<1>0. job[r] \in Job /\ tx[r] \in TxState /\ RequestOK(r)
  BY DEF IInv, TypeOK
<1>1. \A p \in PRIDs : prs'[p] = IF HoldsPR(r, p) THEN tx[r].pr ELSE prs[p]
  BY DEF Publish
<1>2. \A p \in PRIDs : HoldsPR(r, p) => Exists(p)'
  BY <1>1 DEF Exists, HoldsPR
<1>3. ASSUME NEW p \in PRIDs, Exists(p) PROVE Exists(p)' /\ prs'[p].author = prs[p].author
  <2>1. CASE HoldsPR(r, p)
    BY <1>0, <1>1, <1>2, <1>3, <2>1 DEF HoldsPR, RequestOK, Written
  <2>2. CASE ~HoldsPR(r, p)
    BY <1>1, <1>3, <2>2 DEF Exists
  <2> QED
    BY <2>1, <2>2
<1>4. Known \subseteq Known'
  BY DEF Publish, Known
<1>5. ASSUME NEW s \in Requests \ {r}, NEW p \in PRIDs, HoldsPR(s, p), ~Exists(p)
      PROVE  ~Exists(p)'
  <2>1. ~HoldsPR(r, p)
    BY <1>5 DEF IInv, OneWriter
  <2> QED
    BY <1>1, <1>5, <2>1 DEF Exists
<1> QED
  BY <1>2, <1>3, <1>4, <1>5 DEF DbGrows

\* A COMMIT leaves well-typed tables.
LEMMA PublishTypes ==
  ASSUME IInv, NEW r \in Requests, Publish(r)
  PROVE  /\ teams' \in SUBSET TeamNames /\ users' \in UserTable /\ prs' \in PRTable
         /\ reviewers' \in ReviewerTable /\ assigned' \in EventCounts
         /\ unassigned' \in EventCounts /\ tx' \in [Requests -> TxState]
<1>0. job[r] \in Job /\ tx[r] \in TxState
  BY DEF IInv, TypeOK
<1>1. teams' \in SUBSET TeamNames
  BY <1>0 DEF Publish, IInv, TypeOK, TxState
<1>2. users' \in UserTable
  BY <1>0 DEF Publish, IInv, TypeOK, TxState, UserTable
<1>3. prs' \in PRTable
  BY <1>0 DEF Publish, IInv, TypeOK, TxState, PRTable
<1>4. reviewers' \in ReviewerTable
  BY <1>0 DEF Publish, IInv, TypeOK, TxState, ReviewerTable
<1>5. assigned' \in EventCounts
  BY DEF Publish, IInv, TypeOK, EventCounts
<1>6. unassigned' \in EventCounts
  BY DEF Publish, IInv, TypeOK, EventCounts
<1>7. tx' \in [Requests -> TxState]
  BY NoTxType DEF Publish, IInv, TypeOK
<1> QED
  BY <1>1, <1>2, <1>3, <1>4, <1>5, <1>6, <1>7

\* The new reviewers exist and the author is not one of them.
LEMMA PublishReviewers ==
  ASSUME IInv, NEW r \in Requests, Publish(r)
  PROVE  ForeignKeysHold' /\ NoSelfReview'
<1>0. RequestOK(r) /\ DbGrows /\ \A p \in PRIDs : HoldsPR(r, p) => Exists(p)'
  BY PublishGrows DEF IInv
<1> SUFFICES ASSUME NEW p \in PRIDs
             PROVE  /\ reviewers'[p] # {} => Exists(p)' /\ reviewers'[p] \subseteq Known'
                    /\ Exists(p)' => prs'[p].author \notin reviewers'[p]
  BY DEF ForeignKeysHold, NoSelfReview
<1>1. reviewers[p] # {} => Exists(p) /\ reviewers[p] \subseteq Known
  BY DEF IInv, ForeignKeysHold
<1>2. Exists(p) => prs[p].author \notin reviewers[p]
  BY DEF IInv, NoSelfReview
<1>3. CASE p # job[r].pr \/ tx[r].new = {}
  <2>1. reviewers'[p] \subseteq reviewers[p]
    BY <1>3 DEF Publish
  <2> QED
    BY <1>0, <1>1, <1>2, <2>1 DEF DbGrows
<1>4. CASE p = job[r].pr /\ tx[r].new # {}
  <2>1. reviewers'[p] \subseteq reviewers[p] \cup tx[r].new /\ tx[r].new \subseteq Known
    BY <1>0, <1>4 DEF Publish, RequestOK, Written
  <2>2. CASE job[r].op = "create"
    <3>1. tx[r].pr # Null /\ ~Exists(p) /\ HoldsPR(r, p) /\ tx[r].pr.author = job[r].user
          /\ job[r].user \notin tx[r].new
      BY <1>0, <1>4, <2>2 DEF RequestOK, Written, HoldsPR
    <3>2. prs'[p] = tx[r].pr
      BY <3>1 DEF Publish
    <3> QED
      BY <1>0, <1>1, <2>1, <3>1, <3>2 DEF DbGrows
  <2>3. CASE job[r].op # "create"
    <3>1. Exists(p) /\ prs[p].author \notin tx[r].new
      BY <1>0, <1>4, <2>3 DEF RequestOK, Written
    <3> QED
      BY <1>0, <1>1, <1>2, <2>1, <3>1 DEF DbGrows
  <2> QED
    BY <2>2, <2>3
<1> QED
  BY <1>3, <1>4

\* A COMMIT after which the session goes on, or answers, as IInv wants.
LEMMA PublishStep ==
  ASSUME IInv, NEW r \in Requests, Publish(r), OnlyMoves(r), RequestOK(r)',
         pc' \in [Requests -> Labels], job' \in [Requests -> Job], UNCHANGED issued
  PROVE  IInv'
<1>1. TypeOK'
  BY PublishTypes DEF IInv, TypeOK
<1>2. ASSUME NEW s \in Requests PROVE RequestOK(s)'
  BY PublishGrows, Bystander DEF OnlyMoves, IInv
<1>3. OneWriter'
  <2>1. tx'[r].pr = Null
    BY DEF Publish, NoTx, IInv, TypeOK
  <2> QED
    BY <2>1 DEF IInv, OneWriter, HoldsPR, OnlyMoves
<1> QED
  BY <1>1, <1>2, <1>3, PublishReviewers DEF IInv

\* The COMMIT of WithTx.
LEMMA CommitInv ==
  ASSUME IInv, NEW r \in Requests, Commit(r) \/ DeactivateCommit(r)
  PROVE  IInv'
<1>1. Publish(r) /\ UNCHANGED <<job, issued>> /\ tx' = [tx EXCEPT ![r] = NoTx]
      /\ \/ pc[r] = "commit" /\ pc' = [pc EXCEPT ![r] = "readback"]
         \/ pc[r] = "md_commit" /\ pc' = [pc EXCEPT ![r] = "md_list"]
  BY DEF Commit, DeactivateCommit, Publish, Goto
<1>2. RequestOK(r) /\ job[r] \in Job /\ DbGrows
  BY PublishGrows, <1>1 DEF IInv, TypeOK
<1>3. OnlyMoves(r) /\ pc' \in [Requests -> Labels] /\ job' \in [Requests -> Job]
      /\ tx'[r] = NoTx
  BY <1>1 DEF OnlyMoves, IInv, TypeOK, Labels
<1>4. RequestOK(r)'
  BY <1>1, <1>2, <1>3
  DEF DbGrows, IInv, TypeOK, RequestOK, Arguments, OpsAt, InLoop, ReadsLast, Found,
      Replacing, Written, AuthorExcluded, NoTx, Job
<1> QED
  BY <1>1, <1>3, <1>4, PublishStep

\* A COMMIT whose answer is lost.
LEMMA CommitAnswerLostInv ==
  ASSUME IInv, NEW r \in Requests, CommitAnswerLost(r)
  PROVE  IInv'
<1>1. Publish(r) /\ CallFails(r) /\ UNCHANGED issued
  BY DEF CommitAnswerLost
<1>2. RequestOK(r) /\ job[r] \in Job /\ DbGrows
  BY PublishGrows, <1>1 DEF IInv, TypeOK
<1>3. CASE InLoop(r)
  <2> DEFINE j == [job[r] EXCEPT !.skipped = job[r].skipped \cup {job[r].user},
                                 !.work = [job[r].work EXCEPT ![job[r].user] = {}]]
  <2>1. j \in Job /\ j.op = job[r].op /\ j.team = job[r].team
        /\ j.picked = job[r].picked /\ \A u \in UserIDs : j.work[u] \subseteq job[r].work[u]
    BY <1>2, <1>3 DEF Job, RequestOK, Arguments
  <2>2. job' = [job EXCEPT ![r] = j] /\ tx' = [tx EXCEPT ![r] = NoTx]
        /\ pc' = [pc EXCEPT ![r] = "md_next"]
    BY <1>1, <1>3 DEF CallFails, SkipUser, Goto, IInv, TypeOK, Job
  <2> HIDE DEF j
  <2>3. OnlyMoves(r) /\ pc' \in [Requests -> Labels] /\ job' \in [Requests -> Job]
        /\ tx'[r] = NoTx /\ job'[r] = j /\ pc'[r] = "md_next"
    BY <2>1, <2>2 DEF OnlyMoves, IInv, TypeOK, Labels
  <2>4. RequestOK(r)'
    BY <1>2, <1>3, <2>1, <2>3
    DEF DbGrows, RequestOK, Arguments, OpsAt, InLoop, ReadsLast, Found, Replacing, Written,
        AuthorExcluded, NoTx, Job
  <2> QED
    BY <1>1, <2>3, <2>4, PublishStep
<1>4. CASE ~InLoop(r)
  <2>1. job' = [job EXCEPT ![r] = Answer(r, "INTERNAL_ERROR")] /\ tx' = [tx EXCEPT ![r] = NoTx]
        /\ pc' = [pc EXCEPT ![r] = "done"]
    BY <1>1, <1>4 DEF CallFails, Reply, Goto, Answer
  <2>2. Answer(r, "INTERNAL_ERROR") \in Job
    BY <1>2, AnswerJob DEF Codes
  <2>3. OnlyMoves(r) /\ pc' \in [Requests -> Labels] /\ job' \in [Requests -> Job]
        /\ tx'[r] = NoTx /\ job'[r] = Answer(r, "INTERNAL_ERROR") /\ pc'[r] = "done"
    BY <2>1, <2>2 DEF OnlyMoves, IInv, TypeOK, Labels
  <2>4. RequestOK(r)'
    BY <1>2, <2>3, AnsweredOK DEF Codes
  <2> QED
    BY <1>1, <2>3, <2>4, PublishStep
<1> QED
  BY <1>3, <1>4

------------------------------------------------------------------------------
\* The death of the process.

\* The process dies.
LEMMA CrashInv == ASSUME IInv, Crash PROVE IInv'
<1>1. UNCHANGED <<db, issued>> /\ \A r \in Requests :
        /\ tx'[r] = NoTx
        /\ \/ pc'[r] = "done" /\ pc[r] = "done" /\ job'[r] = job[r]
           \/ pc'[r] = "idle" /\ job'[r] = NoJob
  BY DEF Crash
<1>2. TypeOK'
  BY NoJobType, NoTxType DEF Crash, IInv, TypeOK, Labels, db
<1>3. ASSUME NEW r \in Requests PROVE RequestOK(r)'
  <2>1. RequestOK(r) /\ job[r] \in Job
    BY DEF IInv, TypeOK
  <2>2. CASE pc'[r] = "done" /\ pc[r] = "done" /\ job'[r] = job[r]
    <3>1. Arguments(r)' /\ Written(r)'
      BY <1>1, <2>1, <2>2 DEF RequestOK, Arguments, OpsAt, InLoop, Written, NoTx
    <3>2. ReadsLast(r)' /\ AuthorExcluded(r)'
      BY <1>1, <2>1, <2>2
      DEF RequestOK, ReadsLast, AuthorExcluded, Found, Replacing, Exists, Known, db
    <3> QED
      BY <3>1, <3>2 DEF RequestOK
  <2>3. CASE pc'[r] = "idle" /\ job'[r] = NoJob
    <3>1. Arguments(r)' /\ Written(r)'
      BY <1>1, <2>3 DEF Arguments, OpsAt, InLoop, Written, NoTx, NoJob
    <3>2. ReadsLast(r)' /\ AuthorExcluded(r)'
      BY <2>3 DEF ReadsLast, AuthorExcluded, Found, Replacing, NoJob
    <3> QED
      BY <3>1, <3>2 DEF RequestOK
  <2> QED
    BY <1>1, <2>2, <2>3
<1>4. OneWriter'
  BY <1>1 DEF OneWriter, HoldsPR, NoTx
<1>5. ForeignKeysHold' /\ NoSelfReview'
  BY <1>1 DEF IInv, ForeignKeysHold, NoSelfReview, Exists, Known, db
<1> QED
  BY <1>2, <1>3, <1>4, <1>5 DEF IInv

------------------------------------------------------------------------------
\* The invariant is inductive.

\* Every call.
LEMMA StepInv == ASSUME IInv, NEW r \in Requests, Step(r) PROVE IInv'
BY TeamStepInv, CreateStepInv, MergeStepInv, ReassignStepInv, ReplaceStepInv,
   DeactivateStepInv, CommitInv, ReadBackInv
DEF Step

\* Every failure.
LEMMA FailureInv == ASSUME IInv, NEW r \in Requests, Failure(r) PROVE IInv'
<1>1. CASE CallError(r)
  BY <1>1, CallFailsStep DEF CallError
<1>2. CASE DeactivateExpires(r)
  BY <1>2, ReplyStep DEF DeactivateExpires, Codes
<1>3. CASE CommitAnswerLost(r)
  BY <1>3, CommitAnswerLostInv
<1>4. CASE DeadlockAbort(r)
  BY <1>4, CallFailsStep DEF DeadlockAbort
<1> QED
  BY <1>1, <1>2, <1>3, <1>4 DEF Failure

\* A stuttering step.
LEMMA StutterInv == ASSUME IInv, UNCHANGED vars PROVE IInv'
<1>1. TypeOK'
  BY DEF IInv, TypeOK, vars
<1>2. DbGrows /\ \A p \in PRIDs : ~Exists(p) => ~Exists(p)'
  BY DEF DbGrows, Exists, Known, vars
<1>3. ASSUME NEW s \in Requests PROVE RequestOK(s)'
  BY <1>2, Bystander DEF IInv, vars
<1>4. OneWriter' /\ ForeignKeysHold' /\ NoSelfReview'
  BY DEF IInv, OneWriter, HoldsPR, ForeignKeysHold, NoSelfReview, Exists, Known, vars
<1> QED
  BY <1>1, <1>3, <1>4 DEF IInv

\* Every step preserves the invariant.
LEMMA NextInv == ASSUME IInv, [Next]_vars PROVE IInv'
<1>1. CASE \E r \in Requests : Arrive(r) \/ Step(r) \/ Failure(r)
  BY <1>1, ArriveStep, StepInv, FailureInv
<1>2. CASE Crash
  BY <1>2, CrashInv
<1>3. CASE Terminating \/ UNCHANGED vars
  BY <1>3, StutterInv DEF Terminating
<1> QED
  BY <1>1, <1>2, <1>3 DEF Next

\* The inductive invariant holds in every state of every behaviour of the service:
\* every request is at a call of its own operation with the arguments that call
\* needs, what it has read of a row is still true of it, no two sessions hold the
\* row of one PR, and the foreign keys hold.
THEOREM Invariant == Spec => []IInv
<1>1. Init => IInv
  BY InitInv
<1>2. IInv /\ [Next]_vars => IInv'
  BY NextInv
<1> QED
  BY <1>1, <1>2, PTL DEF Spec

\* The variables keep their types: in particular no call is ever made with an
\* argument that was not read, and no request leaves the labels of its handler.
THEOREM TypeCorrect == Spec => []TypeOK
BY Invariant, PTL DEF IInv

\* Whatever is interleaved, whatever fails and whenever the process dies, the author
\* of a PR is never one of its reviewers (CreatePullRequest and ReplaceReviewer).
THEOREM AuthorNeverReviews == Spec => []NoSelfReview
BY Invariant, PTL DEF IInv
==============================================================================
