----------------------------- MODULE MergeProofs -----------------------------
(***************************************************************************)
(* Proofs of what a merge promises: a MERGED PR keeps its row, and its     *)
(* reviewers change only by the replacements that were past the check of   *)
(* the status when it was merged; and that the events of a PR never say    *)
(* that a user is assigned more often than the table of reviewers does.    *)
(***************************************************************************)
EXTENDS ReviewServiceProofs

\* A request that has written nothing about a PR, after its step.
Clean(r) ==
  /\ tx'[r].pr = Null
  /\ tx'[r].gone = {} /\ tx'[r].new = {} /\ tx'[r].dropped = {}

\* Its clock was started when it was accepted.
KeepsTime(r) == pc'[r] \in {"idle", "done"} \/ job'[r].now # 0

\* The steps that write about a PR.
Writes(r) ==
  \/ CreateInsertPR(r) \/ CreateInsertReviewers(r) \/ MergeUpdate(r)
  \/ ReplaceDelete(r) \/ ReplaceInsert(r)

RowsStay == UNCHANGED <<prs, reviewers, assigned, unassigned>>

\* The end of a call, whatever becomes of the request.
LEMMA EndsClean ==
  ASSUME IInv, NEW r \in Requests, Timed(r), pc[r] \notin {"idle", "done"},
         (\E code \in Codes : Reply(r, code)) \/ SkipUser(r)
  PROVE  Clean(r) /\ KeepsTime(r) /\ OnlyMoves(r)
<1>0. job \in [Requests -> Job] /\ tx \in [Requests -> TxState] /\ pc \in [Requests -> Labels]
      /\ job[r] \in Job
  BY DEF IInv, TypeOK
<1>1. CASE \E code \in Codes : Reply(r, code)
  <2>1. PICK j : job' = [job EXCEPT ![r] = j]
    BY <1>1 DEF Reply
  <2>2. tx' = [tx EXCEPT ![r] = NoTx] /\ pc' = [pc EXCEPT ![r] = "done"]
    BY <1>1 DEF Reply, Goto
  <2> QED
    BY <1>0, <2>1, <2>2 DEF Clean, KeepsTime, OnlyMoves, NoTx
<1>2. CASE SkipUser(r)
  <2> DEFINE j == [job[r] EXCEPT !.skipped = @ \cup {job[r].user},
                                 !.work = [@ EXCEPT ![job[r].user] = {}]]
  <2>1. job' = [job EXCEPT ![r] = j] /\ j.now = job[r].now
    BY <1>0, <1>2 DEF SkipUser, Job
  <2> HIDE DEF j
  <2> QED
    BY <1>0, <1>2, <2>1 DEF SkipUser, Goto, Clean, KeepsTime, OnlyMoves, NoTx, Timed
<1> QED
  BY <1>1, <1>2

\* An arrival.
LEMMA ArriveClean ==
  ASSUME IInv, NEW r \in Requests, SessionOK(r), Arrive(r)
  PROVE  Clean(r) /\ KeepsTime(r) /\ OnlyMoves(r) /\ RowsStay
<1>1. \E j, l : Accept(r, j, l)
  BY DEF Arrive, ArriveAddTeam, ArriveSetActive, ArriveCreate, ArriveMerge, ArriveReassign,
         ArriveDeactivate, AcceptAddTeam, AcceptSetActive, AcceptCreate, AcceptMerge,
         AcceptReassign, AcceptDeactivate
<1>2. pc[r] \in {"idle", "done"} /\ UNCHANGED <<db, tx>> /\ OnlyMoves(r)
  BY <1>1 DEF Accept, IInv, TypeOK, OnlyMoves
<1>3. job'[r].now # 0
  <2> USE BoundAssumption DEF Accept, NoJob, IInv, TypeOK
  <2>1. CASE ArriveAddTeam(r)
    BY <2>1 DEF ArriveAddTeam, AcceptAddTeam
  <2>2. CASE ArriveSetActive(r)
    <3> PICK u \in UserIDs, active \in BOOLEAN : AcceptSetActive(r, u, active)
      BY <2>2 DEF ArriveSetActive
    <3> DEFINE on == IF active THEN {u} ELSE {}
    <3>1. job' = [job EXCEPT ![r] =
            [[NoJob EXCEPT !.op = "set_active", !.user = u, !.on = on] EXCEPT
               !.now = issued + 1]]
      BY DEF AcceptSetActive
    <3> HIDE DEF on
    <3> QED
      BY <3>1
  <2>3. CASE ArriveCreate(r)
    BY <2>3 DEF ArriveCreate, AcceptCreate
  <2>4. CASE ArriveMerge(r)
    BY <2>4 DEF ArriveMerge, AcceptMerge
  <2>5. CASE ArriveReassign(r)
    BY <2>5 DEF ArriveReassign, AcceptReassign
  <2>6. CASE ArriveDeactivate(r)
    BY <2>6 DEF ArriveDeactivate, AcceptDeactivate
  <2> QED
    BY <2>1, <2>2, <2>3, <2>4, <2>5, <2>6 DEF Arrive
<1>4. Clean(r)
  BY <1>2 DEF Clean, SessionOK, IInv, RequestOK, Written
<1> QED
  BY <1>2, <1>3, <1>4 DEF KeepsTime, RowsStay, db

------------------------------------------------------------------------------
\* Every step of a request writes about its PR, or leaves nothing of it written;
\* and the rows of PRs change by a COMMIT only.
LEMMA StepKinds ==
  ASSUME IInv, NEW r \in Requests, SessionOK(r), Timed(r), Step(r) \/ Failure(r)
  PROVE  /\ OnlyMoves(r) /\ KeepsTime(r)
         /\ Clean(r) \/ (Writes(r) /\ RowsStay)
         /\ RowsStay \/ Publish(r)
<1>0. job \in [Requests -> Job] /\ tx \in [Requests -> TxState] /\ pc \in [Requests -> Labels]
      /\ job[r] \in Job /\ tx[r] \in TxState /\ RequestOK(r)
  BY DEF IInv, TypeOK
<1>a. pc[r] \notin {"commit", "rp_insert"} =>
        tx[r].gone = {} /\ tx[r].new = {} /\ tx[r].dropped = {}
  BY DEF SessionOK
<1>b. pc[r] \notin {"commit", "cp_reviewers"} => tx[r].pr = Null
  BY <1>0 DEF RequestOK, Written
<1>c. pc[r] \notin {"idle", "done"} => job[r].now # 0
  BY DEF Timed
\* A call that failed or answered.
<1> DEFINE Ended == (\E code \in Codes : Reply(r, code)) \/ SkipUser(r)
<1>1. ASSUME Ended, pc[r] \notin {"idle", "done"}
      PROVE  OnlyMoves(r) /\ KeepsTime(r) /\ Clean(r)
  BY <1>1, EndsClean
<1>3. CASE TeamStep(r)
  <2>1. CASE AddTeamCheckExists(r)
    BY <1>0, <1>a, <1>b, <1>c, <1>1, <2>1
    DEF AddTeamCheckExists, Goto, Codes, RowsStay, db, OnlyMoves, KeepsTime, Clean
  <2>2. CASE AddTeamInsert(r)
    <3>1. pc[r] = "at_insert" /\ RowsStay
      BY <2>2 DEF AddTeamInsert, RowsStay, db
    <3>2. CASE Reply(r, "INTERNAL_ERROR")
      BY <1>1, <3>1, <3>2 DEF Codes
    <3>3. CASE ~Reply(r, "INTERNAL_ERROR")
      <4>1. tx' = [tx EXCEPT ![r].team = job[r].team] /\ UNCHANGED job
            /\ \E l : pc' = [pc EXCEPT ![r] = l]
        BY <2>2, <3>3 DEF AddTeamInsert, Goto
      <4> QED
        BY <1>0, <1>a, <1>b, <1>c, <3>1, <4>1 DEF OnlyMoves, KeepsTime, Clean, TxState
    <3> QED
      BY <3>2, <3>3
  <2>3. CASE AddTeamUpsert(r)
    <3>1. PICK u \in job[r].ids :
            /\ tx' = [tx EXCEPT ![r].users = [@ EXCEPT ![u] =
                        [team |-> job[r].team, active |-> u \in job[r].on]]]
            /\ job' = [job EXCEPT ![r].ids = @ \ {u}]
      BY <2>3 DEF AddTeamUpsert
    <3> DEFINE row == [team |-> job[r].team, active |-> u \in job[r].on]
    <3>2. tx' = [tx EXCEPT ![r].users = [@ EXCEPT ![u] = row]]
      BY <3>1
    <3> HIDE DEF row
    <3>3. RowsStay /\ pc[r] = "at_upsert" /\ \E l : pc' = [pc EXCEPT ![r] = l]
      BY <2>3 DEF AddTeamUpsert, Goto, RowsStay, db
    <3> QED
      BY <1>0, <1>a, <1>b, <1>c, <3>1, <3>2, <3>3
      DEF OnlyMoves, KeepsTime, Clean, TxState, Job
  <2>4. CASE SetUserActivity(r)
    BY <1>0, <1>a, <1>b, <1>c, <1>1, <2>4
    DEF SetUserActivity, Goto, Codes, RowsStay, OnlyMoves, KeepsTime, Clean
  <2> QED
    BY <1>3, <2>1, <2>2, <2>3, <2>4 DEF TeamStep
<1>4. CASE CreateStep(r)
  <2>1. CASE CreateReadAuthor(r)
    BY <1>0, <1>a, <1>b, <1>c, <1>1, <2>1
    DEF CreateReadAuthor, Goto, Codes, RowsStay, db, OnlyMoves, KeepsTime, Clean, Job
  <2>2. CASE CreatePickReviewers(r)
    BY <1>0, <1>a, <1>b, <1>c, <2>2
    DEF CreatePickReviewers, Goto, RowsStay, db, OnlyMoves, KeepsTime, Clean, Job
  <2>3. CASE CreateCheckExists(r)
    BY <1>0, <1>a, <1>b, <1>c, <1>1, <2>3
    DEF CreateCheckExists, Goto, Codes, RowsStay, db, OnlyMoves, KeepsTime, Clean
  <2>4. CASE CreateInsertPR(r)
    BY <1>0, <1>c, <1>1, <2>4
    DEF CreateInsertPR, Writes, Goto, Codes, RowsStay, db, OnlyMoves, KeepsTime
  <2>5. CASE CreateInsertReviewers(r)
    BY <1>0, <1>c, <2>5
    DEF CreateInsertReviewers, Writes, Goto, RowsStay, db, OnlyMoves, KeepsTime
  <2> QED
    BY <1>4, <2>1, <2>2, <2>3, <2>4, <2>5 DEF CreateStep
<1>5. CASE MergeStep(r)
  <2>1. CASE MergeReadStatus(r)
    BY <1>0, <1>a, <1>b, <1>c, <1>1, <2>1
    DEF MergeReadStatus, Goto, Codes, RowsStay, db, OnlyMoves, KeepsTime, Clean
  <2>2. CASE MergeUpdate(r)
    BY <1>0, <1>c, <2>2 DEF MergeUpdate, Writes, Goto, RowsStay, db, OnlyMoves, KeepsTime
  <2> QED
    BY <1>5, <2>1, <2>2 DEF MergeStep
<1>6. CASE ReassignStep(r)
  <2>1. CASE ReassignReadPR(r)
    BY <1>0, <1>a, <1>b, <1>c, <1>1, <2>1
    DEF ReassignReadPR, Goto, Codes, RowsStay, db, OnlyMoves, KeepsTime, Clean, Job
  <2>2. CASE ReassignReadReviewers(r)
    BY <1>0, <1>a, <1>b, <1>c, <1>1, <2>2
    DEF ReassignReadReviewers, Goto, Codes, RowsStay, db, OnlyMoves, KeepsTime, Clean, Job
  <2>3. CASE ReassignReadUser(r)
    BY <1>0, <1>a, <1>b, <1>c, <2>3
    DEF ReassignReadUser, Goto, RowsStay, db, OnlyMoves, KeepsTime, Clean, Job
  <2>4. CASE ReassignPick(r)
    BY <1>0, <1>a, <1>b, <1>c, <1>1, <2>4
    DEF ReassignPick, Goto, Codes, RowsStay, db, OnlyMoves, KeepsTime, Clean, Job
  <2> QED
    BY <1>6, <2>1, <2>2, <2>3, <2>4 DEF ReassignStep
<1>7. CASE ReplaceStep(r)
  <2>0. ASSUME NEW code \in Codes, ReplaceFails(r, code), pc[r] \in Replacing
        PROVE  OnlyMoves(r) /\ KeepsTime(r) /\ Clean(r)
    BY <1>1, <2>0 DEF ReplaceFails, Replacing
  <2>1. CASE ReplaceReadStatus(r)
    BY <1>0, <1>a, <1>b, <1>c, <2>0, <2>1
    DEF ReplaceReadStatus, Replacing, Goto, Codes, RowsStay, db, OnlyMoves, KeepsTime, Clean
  <2>2. CASE ReplaceCheckAssigned(r)
    BY <1>0, <1>a, <1>b, <1>c, <2>0, <2>2
    DEF ReplaceCheckAssigned, Replacing, Goto, Codes, RowsStay, db, OnlyMoves, KeepsTime, Clean
  <2>3. CASE ReplaceDelete(r)
    BY <1>0, <1>c, <2>3 DEF ReplaceDelete, Writes, Goto, RowsStay, db, OnlyMoves, KeepsTime
  <2>4. CASE ReplaceInsert(r)
    BY <1>0, <1>c, <2>0, <2>4
    DEF ReplaceInsert, Replacing, Writes, Goto, Codes, RowsStay, db, OnlyMoves, KeepsTime
  <2> QED
    BY <1>7, <2>1, <2>2, <2>3, <2>4 DEF ReplaceStep
<1>8. CASE DeactivateStep(r)
  <2>1. CASE DeactivateReadTeam(r)
    BY <1>0, <1>a, <1>b, <1>c, <1>1, <2>1
    DEF DeactivateReadTeam, Goto, Codes, RowsStay, db, OnlyMoves, KeepsTime, Clean, Job
  <2>2. CASE DeactivateTeamExists(r)
    BY <1>1, <2>2 DEF DeactivateTeamExists, Codes, RowsStay, db
  <2>3. CASE DeactivateUpdate(r)
    BY <1>0, <1>a, <1>b, <1>c, <2>3
    DEF DeactivateUpdate, Goto, RowsStay, db, OnlyMoves, KeepsTime, Clean, Job, TxState
  <2>4. CASE DeactivateCommit(r)
    BY <1>0, <1>c, <2>4
    DEF DeactivateCommit, Publish, Goto, OnlyMoves, KeepsTime, Clean, NoTx
  <2>5. CASE DeactivateListOpenPRs(r)
    BY <1>0, <1>a, <1>b, <1>c, <2>5
    DEF DeactivateListOpenPRs, Goto, RowsStay, db, OnlyMoves, KeepsTime, Clean, Job
  <2>6. CASE DeactivateNextPR(r)
    <3>1. PICK u, p, w : job' = [job EXCEPT ![r] = [@ EXCEPT !.user = u, !.pr = p, !.work = w]]
      BY <2>6 DEF DeactivateNextPR
    <3> QED
      BY <1>0, <1>a, <1>b, <1>c, <2>6, <3>1
      DEF DeactivateNextPR, Goto, RowsStay, db, OnlyMoves, KeepsTime, Clean, Job
  <2>7. CASE DeactivateLoopEnds(r)
    BY <1>0, <1>a, <1>b, <1>c, <2>7
    DEF DeactivateLoopEnds, Goto, RowsStay, db, OnlyMoves, KeepsTime, Clean
  <2>8. CASE DeactivateReadPR(r)
    BY <1>0, <1>a, <1>b, <1>c, <2>8
    DEF DeactivateReadPR, Goto, RowsStay, db, OnlyMoves, KeepsTime, Clean, Job
  <2>9. CASE DeactivateReadReviewers(r)
    BY <1>0, <1>a, <1>b, <1>c, <2>9
    DEF DeactivateReadReviewers, Goto, RowsStay, db, OnlyMoves, KeepsTime, Clean, Job
  <2>10. CASE DeactivatePick(r)
    BY <1>0, <1>a, <1>b, <1>c, <2>10
    DEF DeactivatePick, Goto, RowsStay, db, OnlyMoves, KeepsTime, Clean, Job
  <2>11. CASE DeactivateFinish(r)
    BY <1>1, <2>11 DEF DeactivateFinish, Codes, RowsStay, db
  <2> QED
    BY <1>8, <2>1, <2>2, <2>3, <2>4, <2>5, <2>6, <2>7, <2>8, <2>9, <2>10, <2>11
    DEF DeactivateStep
<1>9. CASE Commit(r)
  BY <1>0, <1>c, <1>9 DEF Commit, Publish, Goto, OnlyMoves, KeepsTime, Clean, NoTx
<1>10. CASE ReadBack(r)
  BY <1>0, <1>a, <1>b, <1>c, <1>1, <1>10
  DEF ReadBack, Goto, Codes, RowsStay, db, OnlyMoves, KeepsTime, Clean
<1>11. CASE Failure(r)
  <2>1. (\E code \in Codes : Reply(r, code)) \/ SkipUser(r)
    BY <1>11
    DEF Failure, CallError, DeactivateExpires, CommitAnswerLost, DeadlockAbort, CallFails, Codes
  <2>2. pc[r] \notin {"idle", "done"}
    BY <1>11
    DEF Failure, CallError, DeactivateExpires, CommitAnswerLost, DeadlockAbort, InLoop,
        InDeadlock, Waits
  <2>3. RowsStay \/ Publish(r)
    BY <1>11
    DEF Failure, CallError, DeactivateExpires, CommitAnswerLost, DeadlockAbort, RowsStay, db
  <2> QED
    BY <1>1, <2>1, <2>2, <2>3
<1> QED
  BY <1>3, <1>4, <1>5, <1>6, <1>7, <1>8, <1>9, <1>10, <1>11 DEF Step

------------------------------------------------------------------------------
\* The invariant MergeInv.

\* The seed satisfies it.
LEMMA InitMergeInv == Init => MergeInv
<1> SUFFICES ASSUME Init PROVE MergeInv
  OBVIOUS
<1>1. \A r \in Requests : SessionOK(r) /\ RowFollows(r) /\ Timed(r)
  BY DEF Init, SessionOK, RowFollows, Timed, NoTx
<1>2. MergedHasTime
  BY SeedConsistent DEF Init, MergedHasTime, Exists
<1> QED
  BY <1>1, <1>2 DEF MergeInv

\* The request that moves.
LEMMA MergeInvOwn ==
  ASSUME IInv, NEW r \in Requests, SessionOK(r), RowFollows(r), Timed(r),
         OnlyMoves(r), KeepsTime(r),
         Clean(r) \/ (Writes(r) /\ RowsStay)
  PROVE  SessionOK(r)' /\ RowFollows(r)' /\ Timed(r)'
<1>0. job \in [Requests -> Job] /\ tx \in [Requests -> TxState] /\ pc \in [Requests -> Labels]
      /\ job[r] \in Job /\ tx[r] \in TxState /\ RequestOK(r)
  BY DEF IInv, TypeOK
<1>1. Timed(r)'
  BY DEF KeepsTime, Timed
<1>2. CASE Clean(r)
  BY <1>1, <1>2 DEF Clean, SessionOK, RowFollows
<1>3. CASE Writes(r) /\ RowsStay /\ ~Clean(r)
  <2>1. CASE CreateInsertPR(r)
    <3>1. pc[r] = "cp_insert" /\ job[r].op = "create" /\ tx[r].gone = {} /\ tx[r].new = {}
          /\ tx[r].dropped = {}
      BY <1>0, <2>1 DEF CreateInsertPR, RequestOK, Arguments, OpsAt, SessionOK
    <3>2. prs[job[r].pr] = Null
      BY <1>0, <1>3, <2>1 DEF CreateInsertPR, Reply, Clean, NoTx
    <3>3. tx' = [tx EXCEPT ![r].pr = NewRow(r)] /\ UNCHANGED job
      BY <2>1, <3>2 DEF CreateInsertPR, NewRow
    <3> QED
      BY <1>0, <1>1, <3>1, <3>3 DEF SessionOK, RowFollows, NewRow, TxState
  <2>2. CASE CreateInsertReviewers(r)
    <3>1. pc[r] = "cp_reviewers" /\ job[r].op = "create" /\ tx[r].gone = {}
          /\ tx[r].dropped = {}
      BY <1>0, <2>2 DEF CreateInsertReviewers, RequestOK, Arguments, OpsAt, SessionOK
    <3>2. tx' = [tx EXCEPT ![r].new = job[r].picked] /\ pc' = [pc EXCEPT ![r] = "commit"]
          /\ UNCHANGED <<job, prs>>
      BY <2>2 DEF CreateInsertReviewers, Goto, db
    <3> QED
      BY <1>0, <1>1, <3>1, <3>2 DEF SessionOK, RowFollows, NewRow, TxState
  <2>3. CASE MergeUpdate(r)
    <3>1. pc[r] = "mg_update" /\ job[r].op = "merge" /\ tx[r].gone = {} /\ tx[r].new = {}
          /\ tx[r].dropped = {}
      BY <1>0, <2>3 DEF MergeUpdate, RequestOK, Arguments, OpsAt, SessionOK
    <3>2. tx' = [tx EXCEPT ![r].pr = MergedRow(r, job[r].pr)] /\ UNCHANGED <<job, prs>>
      BY <2>3 DEF MergeUpdate, db
    <3>3. MergedRow(r, job[r].pr)' = MergedRow(r, job[r].pr)
      BY <3>2 DEF MergedRow
    <3> QED
      BY <1>0, <1>1, <3>1, <3>2, <3>3 DEF SessionOK, RowFollows, TxState
  <2>4. CASE ReplaceDelete(r)
    <3>1. pc[r] = "rp_delete" /\ job[r].op \in {"reassign", "deactivate"}
          /\ tx[r].pr = Null /\ tx[r].new = {} /\ Exists(job[r].pr)
      BY <1>0, <2>4
      DEF ReplaceDelete, RequestOK, Arguments, OpsAt, ReadsLast, Found, Replacing, Written
    <3> DEFINE l == IF job[r].picked = {} THEN "commit" ELSE "rp_insert"
    <3>2. pc' = [pc EXCEPT ![r] = l] /\ l \in {"commit", "rp_insert"}
          /\ tx'[r].pr = Null /\ UNCHANGED <<job, prs>>
      BY <1>0, <2>4, <3>1 DEF ReplaceDelete, Goto, db, TxState
    <3> HIDE DEF l
    <3> QED
      BY <1>0, <1>1, <3>1, <3>2 DEF SessionOK, RowFollows, Exists
  <2>5. CASE ReplaceInsert(r)
    <3>1. pc[r] = "rp_insert" /\ job[r].op \in {"reassign", "deactivate"}
          /\ tx[r].pr = Null /\ Exists(job[r].pr)
      BY <1>0, <2>5
      DEF ReplaceInsert, RequestOK, Arguments, OpsAt, ReadsLast, Found, Replacing, Written
    <3>2. ~ \E code \in Codes : ReplaceFails(r, code)
      <4> SUFFICES ASSUME NEW code \in Codes, ReplaceFails(r, code) PROVE Clean(r)
        BY <1>3
      <4> QED
        BY <1>0 DEF ReplaceFails, Reply, SkipUser, Clean, NoTx
    <3>3. tx' = [tx EXCEPT ![r].new = job[r].picked] /\ pc' = [pc EXCEPT ![r] = "commit"]
          /\ UNCHANGED <<job, prs>>
      BY <2>5, <3>2 DEF ReplaceInsert, Goto, Codes, db
    <3> QED
      BY <1>0, <1>1, <3>1, <3>3 DEF SessionOK, RowFollows, Exists, TxState
  <2> QED
    BY <1>3, <2>1, <2>2, <2>3, <2>4, <2>5 DEF Writes
<1> QED
  BY <1>2, <1>3

\* The others: the row a session holds is not changed by anybody else.
LEMMA MergeInvOthers ==
  ASSUME IInv, NEW r \in Requests, OnlyMoves(r), RowsStay \/ Publish(r),
         NEW s \in Requests \ {r}, SessionOK(s), RowFollows(s), Timed(s)
  PROVE  SessionOK(s)' /\ RowFollows(s)' /\ Timed(s)'
<1>1. \A p \in PRIDs : Exists(p) => Exists(p)'
  BY PublishGrows DEF RowsStay, Exists, DbGrows
<1>2. tx[s].pr # Null => job[s].pr \in PRIDs /\ prs'[job[s].pr] = prs[job[s].pr]
  BY DEF IInv, RequestOK, Written, OneWriter, HoldsPR, RowsStay, Publish
<1>3. SessionOK(s)' /\ Timed(s)'
  <2>1. tx[s].gone \cup tx[s].new \cup tx[s].dropped # {} => job[s].pr \in PRIDs
    BY DEF SessionOK, IInv, RequestOK, Arguments, InLoop
  <2> QED
    BY <1>1, <2>1 DEF OnlyMoves, SessionOK, Timed
<1>4. RowFollows(s)'
  BY <1>2 DEF OnlyMoves, RowFollows, NewRow, MergedRow
<1> QED
  BY <1>3, <1>4

\* The row a session publishes.
LEMMA PublishedRow ==
  ASSUME IInv, MergeInv, NEW r \in Requests, NEW p \in PRIDs, HoldsPR(r, p)
  PROVE  IF job[r].op = "create"
         THEN ~Exists(p) /\ tx[r].pr.status = "OPEN" /\ tx[r].pr.mergedAt = 0
         ELSE /\ Exists(p) /\ tx[r].pr.status = "MERGED" /\ tx[r].pr.mergedAt # 0
              /\ Merged(p) => tx[r].pr = prs[p]
<1>1. RequestOK(r) /\ RowFollows(r) /\ Timed(r)
  BY DEF IInv, MergeInv
<1>2. pc[r] \in {"cp_reviewers", "commit"} /\ job[r].pr = p /\ tx[r].pr # Null
      /\ job[r].op \in {"create", "merge"}
  BY <1>1 DEF HoldsPR, RequestOK, Written
<1>3. CASE job[r].op = "create"
  BY <1>1, <1>2, <1>3 DEF RequestOK, Written, RowFollows, NewRow
<1>4. CASE job[r].op = "merge"
  <2>1. Exists(p) /\ tx[r].pr = MergedRow(r, p) /\ prs[p] \in PRRow
    BY <1>1, <1>2, <1>4
    DEF RequestOK, Written, RowFollows, IInv, TypeOK, PRTable, Exists
  <2>2. job[r].now # 0
    BY <1>1, <1>2 DEF Timed
  <2>3. tx[r].pr.status = "MERGED" /\ tx[r].pr.mergedAt # 0
    BY <2>1, <2>2 DEF MergedRow, PRRow
  <2>4. Merged(p) => tx[r].pr = prs[p]
    BY <2>1 DEF Merged, MergeInv, MergedHasTime, MergedRow, PRRow
  <2> QED
    BY <1>4, <2>1, <2>3, <2>4
<1> QED
  BY <1>2, <1>3, <1>4

\* The rows after a COMMIT.
LEMMA MergedHasTimeStep ==
  ASSUME IInv, MergeInv, NEW r \in Requests, RowsStay \/ Publish(r)
  PROVE  MergedHasTime'
<1>1. CASE RowsStay
  BY <1>1 DEF RowsStay, MergeInv, MergedHasTime, Exists
<1>2. CASE Publish(r)
  <2> SUFFICES ASSUME NEW p \in PRIDs, Exists(p)'
               PROVE  (prs'[p].status = "MERGED") <=> (prs'[p].mergedAt # 0)
    BY DEF MergedHasTime
  <2>1. CASE HoldsPR(r, p)
    BY <1>2, <2>1, PublishedRow DEF Publish
  <2>2. CASE ~HoldsPR(r, p)
    BY <1>2, <2>2 DEF Publish, MergeInv, MergedHasTime, Exists
  <2> QED
    BY <2>1, <2>2
<1> QED
  BY <1>1, <1>2

\* A step of one request, for all requests.
LEMMA MergeInvRequest ==
  ASSUME IInv, MergeInv, NEW r \in Requests, OnlyMoves(r), KeepsTime(r),
         Clean(r) \/ (Writes(r) /\ RowsStay), RowsStay \/ Publish(r)
  PROVE  MergeInv'
<1>1. ASSUME NEW s \in Requests PROVE SessionOK(s)' /\ RowFollows(s)' /\ Timed(s)'
  BY MergeInvOwn, MergeInvOthers DEF MergeInv
<1> QED
  BY <1>1, MergedHasTimeStep DEF MergeInv

\* Every step preserves the invariant.
LEMMA MergeInvNext == ASSUME IInv, MergeInv, [Next]_vars PROVE MergeInv'
<1>1. ASSUME NEW r \in Requests, Arrive(r) \/ Step(r) \/ Failure(r) PROVE MergeInv'
  <2>1. SessionOK(r) /\ Timed(r)
    BY DEF MergeInv
  <2> QED
    BY <1>1, <2>1, ArriveClean, StepKinds, MergeInvRequest
<1>2. CASE Crash
  <2>1. ASSUME NEW s \in Requests PROVE SessionOK(s)' /\ RowFollows(s)' /\ Timed(s)'
    BY <1>2 DEF Crash, SessionOK, RowFollows, Timed, NoTx
  <2>2. MergedHasTime'
    BY <1>2 DEF Crash, MergeInv, MergedHasTime, Exists, db
  <2> QED
    BY <2>1, <2>2 DEF MergeInv
<1>3. CASE Terminating \/ UNCHANGED vars
  <2>0. UNCHANGED <<prs, pc, job, tx>>
    BY <1>3 DEF Terminating, vars
  <2>1. ASSUME NEW s \in Requests PROVE SessionOK(s)' /\ RowFollows(s)' /\ Timed(s)'
    <3>1. MergedRow(s, job[s].pr)' = MergedRow(s, job[s].pr) /\ NewRow(s)' = NewRow(s)
      BY <2>0 DEF MergedRow, NewRow
    <3> QED
      BY <2>0, <3>1 DEF MergeInv, SessionOK, RowFollows, Timed, Exists
  <2>2. MergedHasTime'
    BY <2>0 DEF MergeInv, MergedHasTime, Exists
  <2> QED
    BY <2>1, <2>2 DEF MergeInv
<1> QED
  BY <1>1, <1>2, <1>3 DEF Next

\* MergeInv is inductive relative to IInv.
LEMMA MergeInvariant == Spec => [](IInv /\ MergeInv)
<1>1. Init => IInv /\ MergeInv
  BY InitInv, InitMergeInv
<1>2. IInv /\ MergeInv /\ [Next]_vars => (IInv /\ MergeInv)'
  BY NextInv, MergeInvNext
<1> QED
  BY <1>1, <1>2, PTL DEF Spec

------------------------------------------------------------------------------
\* A merge is final.

\* Whatever the step, the rows of PRs stay or one session publishes its own.
LEMMA RowsOfPRs ==
  ASSUME IInv, MergeInv, [Next]_vars
  PROVE  RowsStay \/ \E r \in Requests : Publish(r)
<1>1. CASE \E r \in Requests : Arrive(r) \/ Step(r) \/ Failure(r)
  BY <1>1, ArriveClean, StepKinds DEF MergeInv
<1>2. CASE Crash \/ Terminating \/ UNCHANGED vars
  BY <1>2 DEF Crash, Terminating, vars, db, RowsStay
<1> QED
  BY <1>1, <1>2 DEF Next

KeepsMerged ==
  \A p \in PRIDs : Exists(p) =>
    /\ Exists(p)'
    /\ prs'[p].author = prs[p].author
    /\ Merged(p) => prs'[p] = prs[p]

\* No step changes a MERGED row.
LEMMA NextKeepsMerged == ASSUME IInv, MergeInv, [Next]_vars PROVE KeepsMerged
<1>1. CASE RowsStay
  BY <1>1 DEF RowsStay, KeepsMerged, Exists
<1>2. ASSUME NEW r \in Requests, Publish(r) PROVE KeepsMerged
  <2> SUFFICES ASSUME NEW p \in PRIDs, Exists(p)
               PROVE  /\ Exists(p)'
                      /\ prs'[p].author = prs[p].author
                      /\ Merged(p) => prs'[p] = prs[p]
    BY DEF KeepsMerged
  <2>1. Exists(p)' /\ prs'[p].author = prs[p].author
    BY <1>2, PublishGrows DEF DbGrows
  <2>2. Merged(p) => prs'[p] = prs[p]
    BY <1>2, PublishedRow DEF Publish
  <2> QED
    BY <2>1, <2>2
<1> QED
  BY <1>1, <1>2, RowsOfPRs

\* A PR is never deleted and never changes its author; once it is MERGED its row
\* never changes, however many merges have read OPEN (UpdatePRStatus).
THEOREM MergeIsFinal == Spec => MergedIsFinal
<1>1. IInv /\ MergeInv /\ [Next]_vars => [KeepsMerged]_vars
  BY NextKeepsMerged
<1>2. [][KeepsMerged]_vars => MergedIsFinal
  BY PTL DEF MergedIsFinal, KeepsMerged
<1> QED
  BY <1>1, <1>2, MergeInvariant, PTL DEF Spec

------------------------------------------------------------------------------
\* A merge freezes the reviewers.

\* Nobody becomes admitted but by the check of the status of an open PR.
LEMMA AdmissionChecked ==
  ASSUME IInv, NEW r \in Requests, NEW p \in PRIDs, ~Admitted(r, p),
         Arrive(r) \/ Step(r) \/ Failure(r),
         ~(ReplaceReadStatus(r) /\ job[r].pr = p /\ prs[p].status # "MERGED")
  PROVE  ~Admitted(r, p)'
<1>0. job \in [Requests -> Job] /\ pc \in [Requests -> Labels] /\ job[r] \in Job
      /\ RequestOK(r)
  BY DEF IInv, TypeOK
<1> DEFINE Past == {"rp_assigned", "rp_delete", "rp_insert", "commit"}
<1>1. CASE Arrive(r)
  <2>1. \E j : \E l \in {"at_exists", "sa_update", "cp_author", "mg_status", "ra_pr",
                        "md_team"} : Accept(r, j, l)
    BY <1>1
    DEF Arrive, ArriveAddTeam, ArriveSetActive, ArriveCreate, ArriveMerge, ArriveReassign,
        ArriveDeactivate, AcceptAddTeam, AcceptSetActive, AcceptCreate, AcceptMerge,
        AcceptReassign, AcceptDeactivate
  <2>2. pc'[r] \notin Past
    BY <1>0, <2>1 DEF Accept
  <2> QED
    BY <2>2 DEF Admitted
<1>2. ASSUME (\E code \in Codes : Reply(r, code)) \/ SkipUser(r)
      PROVE  ~Admitted(r, p)'
  BY <1>0, <1>2 DEF Reply, SkipUser, Goto, Admitted
<1>3. CASE Failure(r)
  BY <1>2, <1>3
  DEF Failure, CallError, DeactivateExpires, CommitAnswerLost, DeadlockAbort, CallFails, Codes
<1>4. ASSUME job'[r].op = job[r].op, job[r].op \notin {"reassign", "deactivate"}
      PROVE  ~Admitted(r, p)'
  BY <1>4 DEF Admitted
<1>5. ASSUME pc'[r] \notin Past PROVE ~Admitted(r, p)'
  BY <1>5 DEF Admitted
<1>6. CASE TeamStep(r)
  <2>1. job[r].op \in {"add_team", "set_active"}
    BY <1>0, <1>6
    DEF TeamStep, AddTeamCheckExists, AddTeamInsert, AddTeamUpsert, SetUserActivity,
        RequestOK, Arguments, OpsAt
  <2>2. job'[r].op = job[r].op \/ \E code \in Codes : Reply(r, code)
    BY <1>0, <1>6
    DEF TeamStep, AddTeamCheckExists, AddTeamInsert, AddTeamUpsert, SetUserActivity, Codes, Job
  <2> QED
    BY <1>2, <1>4, <2>1, <2>2
<1>7. CASE CreateStep(r)
  <2>1. job[r].op = "create"
    BY <1>0, <1>7
    DEF CreateStep, CreateReadAuthor, CreatePickReviewers, CreateCheckExists, CreateInsertPR,
        CreateInsertReviewers, RequestOK, Arguments, OpsAt
  <2>2. job'[r].op = job[r].op \/ \E code \in Codes : Reply(r, code)
    BY <1>0, <1>7
    DEF CreateStep, CreateReadAuthor, CreatePickReviewers, CreateCheckExists, CreateInsertPR,
        CreateInsertReviewers, Codes, Job, db
  <2> QED
    BY <1>2, <1>4, <2>1, <2>2
<1>8. CASE MergeStep(r)
  <2>1. job[r].op = "merge"
    BY <1>0, <1>8 DEF MergeStep, MergeReadStatus, MergeUpdate, RequestOK, Arguments, OpsAt
  <2>2. job'[r].op = job[r].op \/ \E code \in Codes : Reply(r, code)
    BY <1>0, <1>8 DEF MergeStep, MergeReadStatus, MergeUpdate, Codes
  <2> QED
    BY <1>2, <1>4, <2>1, <2>2
<1>9. CASE ReassignStep(r)
  <2>1. pc'[r] \notin Past \/ \E code \in Codes : Reply(r, code)
    BY <1>0, <1>9
    DEF ReassignStep, ReassignReadPR, ReassignReadReviewers, ReassignReadUser, ReassignPick,
        Goto, Codes
  <2> QED
    BY <1>2, <1>5, <2>1
<1>10. CASE ReplaceStep(r)
  <2>1. CASE \E code \in Codes : ReplaceFails(r, code)
    BY <1>2, <2>1 DEF ReplaceFails
  <2>2. CASE ~ \E code \in Codes : ReplaceFails(r, code)
    <3>1. CASE ReplaceReadStatus(r)
      <4>1. job[r].pr # p
        BY <2>2, <3>1 DEF ReplaceReadStatus, Codes
      <4> QED
        BY <2>2, <3>1, <4>1 DEF ReplaceReadStatus, Codes, Admitted
    <3>2. CASE ~ReplaceReadStatus(r)
      <4>1. UNCHANGED job /\ pc[r] \in {"rp_assigned", "rp_delete", "rp_insert"}
        BY <1>10, <2>2, <3>2
        DEF ReplaceStep, ReplaceCheckAssigned, ReplaceDelete, ReplaceInsert, Codes
      <4> QED
        BY <4>1 DEF Admitted
    <3> QED
      BY <3>1, <3>2
  <2> QED
    BY <2>1, <2>2
<1>11. CASE DeactivateStep(r)
  <2> DEFINE Leaves == pc'[r] \notin Past \/ \E code \in Codes : Reply(r, code)
  <2>a. ASSUME DeactivateReadTeam(r) PROVE Leaves
    BY <1>0, <2>a DEF DeactivateReadTeam, Goto, Codes
  <2>b. ASSUME DeactivateTeamExists(r) \/ DeactivateFinish(r) PROVE Leaves
    BY <2>b DEF DeactivateTeamExists, DeactivateFinish, Codes
  <2>c. ASSUME DeactivateUpdate(r) PROVE Leaves
    BY <1>0, <2>c DEF DeactivateUpdate, Goto
  <2>d. ASSUME DeactivateCommit(r) \/ DeactivateLoopEnds(r) PROVE Leaves
    BY <1>0, <2>d DEF DeactivateCommit, DeactivateLoopEnds, Goto
  <2>f. ASSUME DeactivateListOpenPRs(r) PROVE Leaves
    BY <1>0, <2>f DEF DeactivateListOpenPRs, Goto
  <2>g. ASSUME DeactivateNextPR(r) PROVE Leaves
    BY <1>0, <2>g DEF DeactivateNextPR, Goto
  <2>e. ASSUME DeactivateReadPR(r) \/ DeactivateReadReviewers(r) \/ DeactivatePick(r)
        PROVE  Leaves
    BY <1>0, <2>e DEF DeactivateReadPR, DeactivateReadReviewers, DeactivatePick, Goto
  <2>1. Leaves
    BY <1>11, <2>a, <2>b, <2>c, <2>d, <2>e, <2>f, <2>g DEF DeactivateStep
  <2> QED
    BY <1>2, <1>5, <2>1
<1>12. CASE Commit(r) \/ ReadBack(r)
  <2>1. pc'[r] \notin Past \/ \E code \in Codes : Reply(r, code)
    BY <1>0, <1>12 DEF Commit, ReadBack, Goto, Codes
  <2> QED
    BY <1>2, <1>5, <2>1
<1> QED
  BY <1>1, <1>3, <1>6, <1>7, <1>8, <1>9, <1>10, <1>11, <1>12 DEF Step

\* Nobody passes the check of the status of a MERGED PR.
LEMMA NoAdmission ==
  ASSUME IInv, NEW r \in Requests, NEW p \in PRIDs, Merged(p), ~Admitted(r, p),
         Arrive(r) \/ Step(r) \/ Failure(r)
  PROVE  ~Admitted(r, p)'
BY AdmissionChecked DEF Merged

KeepsFrozen == \A p \in PRIDs : Frozen(p) => Frozen(p)' /\ reviewers'[p] = reviewers[p]

\* No step thaws a PR.
LEMMA NextKeepsFrozen == ASSUME IInv, MergeInv, [Next]_vars PROVE KeepsFrozen
<1> SUFFICES ASSUME NEW p \in PRIDs, Frozen(p)
             PROVE  Frozen(p)' /\ reviewers'[p] = reviewers[p]
  BY DEF KeepsFrozen
<1>1. Merged(p) /\ \A r \in Requests : ~Admitted(r, p)
  BY DEF Frozen
<1>2. Merged(p)'
  BY <1>1, NextKeepsMerged DEF KeepsMerged, Merged
<1>3. ASSUME NEW s \in Requests PROVE ~Admitted(s, p)'
  <2>1. CASE \E r \in Requests : Arrive(r) \/ Step(r) \/ Failure(r)
    <3>1. PICK r \in Requests : Arrive(r) \/ Step(r) \/ Failure(r)
      BY <2>1
    <3>2. OnlyMoves(r)
      BY <3>1, ArriveClean, StepKinds DEF MergeInv
    <3>3. CASE r = s
      BY <1>1, <3>1, <3>3, NoAdmission
    <3>4. CASE r # s
      BY <1>1, <3>2, <3>4 DEF OnlyMoves, Admitted
    <3> QED
      BY <3>3, <3>4
  <2>2. CASE Crash
    BY <2>2 DEF Crash, Admitted
  <2>3. CASE Terminating \/ UNCHANGED vars
    BY <1>1, <2>3 DEF Terminating, vars, Admitted
  <2> QED
    BY <2>1, <2>2, <2>3 DEF Next
<1>4. reviewers'[p] = reviewers[p]
  <2>1. ASSUME NEW r \in Requests, Publish(r), job[r].pr = p
        PROVE  tx[r].gone = {} /\ tx[r].new = {}
    <3>1. SessionOK(r) /\ RequestOK(r)
      BY DEF MergeInv, IInv
    <3>2. CASE job[r].op = "create"
      BY <1>1, <2>1, <3>1, <3>2 DEF SessionOK, RequestOK, Written, Merged
    <3>3. CASE job[r].op # "create"
      BY <1>1, <2>1, <3>1, <3>3 DEF SessionOK, Admitted
    <3> QED
      BY <3>2, <3>3
  <2>2. ASSUME NEW r \in Requests, Publish(r) PROVE reviewers'[p] = reviewers[p]
    BY <2>1, <2>2 DEF Publish, IInv, TypeOK, ReviewerTable
  <2> QED
    BY <2>2, RowsOfPRs DEF RowsStay
<1> QED
  BY <1>2, <1>3, <1>4 DEF Frozen

\* Once the replacements that were past their check of the status when a PR was
\* merged are over, its reviewers never change (ReplaceReviewer).
THEOREM MergeFreezesReviewers == Spec => MergeFreezes
<1>1. IInv /\ MergeInv /\ [Next]_vars => [KeepsFrozen]_vars
  BY NextKeepsFrozen
<1>2. [][KeepsFrozen]_vars => MergeFreezes
  BY PTL DEF MergeFreezes, KeepsFrozen
<1> QED
  BY <1>1, <1>2, MergeInvariant, PTL DEF Spec

------------------------------------------------------------------------------
\* The events of a PR.

\* What a request that writes about its PR leaves written: reviewers nobody else has
\* written about, the new ones not in the table, and an event for each removal.
WritesApart(r) ==
  /\ job'[r] = job[r]
  /\ \A p \in PRIDs : job[r].pr = p => tx'[r].new \cap reviewers[p] = {}
  /\ \A s \in Requests \ {r} :
       job[r].pr \in PRIDs /\ job[r].pr = job[s].pr
         => (tx'[r].gone \cup tx'[r].new) \cap Touched(s) = {}
  /\ tx'[r].gone \subseteq tx'[r].dropped

\* Nobody else has written about a PR that is being created.
LEMMA NewPRUntouched ==
  ASSUME IInv, MergeInv, NEW r \in Requests, pc[r] = "cp_reviewers",
         NEW s \in Requests \ {r}, job[r].pr = job[s].pr
  PROVE  Touched(s) = {}
<1>1. RequestOK(r) /\ RequestOK(s) /\ SessionOK(s) /\ OneWriter
  BY DEF IInv, MergeInv
<1>2. job[r].pr \in PRIDs /\ tx[r].pr # Null /\ ~Exists(job[r].pr)
  <2>1. tx[r].pr # Null /\ job[r].op = "create"
    BY <1>1 DEF RequestOK, Written, Arguments, OpsAt
  <2> QED
    BY <1>1, <2>1 DEF RequestOK, Written
<1> SUFFICES ASSUME Touched(s) # {} PROVE FALSE
  OBVIOUS
<1>3. job[s].op = "create" /\ tx[s].new # {}
  BY <1>1, <1>2 DEF SessionOK, Touched
<1>4. tx[s].pr # Null
  BY <1>1, <1>3 DEF RequestOK, Written
<1> QED
  BY <1>1, <1>2, <1>4 DEF OneWriter, HoldsPR

\* Every step that writes about a PR does it apart, or has failed.
LEMMA WritesAreApart ==
  ASSUME IInv, MergeInv, KeysDisjoint, RemovalsRecorded, NEW r \in Requests, Writes(r)
  PROVE  Clean(r) \/ WritesApart(r)
<1>0. /\ job \in [Requests -> Job] /\ tx \in [Requests -> TxState]
      /\ job[r] \in Job /\ tx[r] \in TxState /\ RequestOK(r) /\ SessionOK(r)
  BY DEF IInv, TypeOK, MergeInv
<1>1. ASSUME NEW code \in Codes, ReplaceFails(r, code) PROVE Clean(r)
  BY <1>0, <1>1 DEF ReplaceFails, Reply, SkipUser, Clean, NoTx
\* Steps that write the row of the PR only.
<1>2. ASSUME NEW row, tx' = [tx EXCEPT ![r].pr = row], UNCHANGED job PROVE WritesApart(r)
  <2>1. tx'[r].new = tx[r].new /\ tx'[r].gone = tx[r].gone /\ tx'[r].dropped = tx[r].dropped
    BY <1>0, <1>2 DEF TxState
  <2>2. \A s \in Requests \ {r} : job[r].pr \in PRIDs /\ job[r].pr = job[s].pr
          => (tx[r].gone \cup tx[r].new) \cap Touched(s) = {}
    BY DEF KeysDisjoint, Touched
  <2> QED
    BY <1>2, <2>1, <2>2 DEF WritesApart, KeysDisjoint, RemovalsRecorded
<1>3. CASE CreateInsertPR(r)
  <2>1. CASE prs[job[r].pr] = Null /\ tx'[r].pr # Null
    <3>1. tx' = [tx EXCEPT ![r].pr = NewRow(r)] /\ UNCHANGED job
      BY <1>3, <2>1 DEF CreateInsertPR, NewRow, Reply, NoTx
    <3> QED
      BY <1>2, <3>1
  <2>2. CASE ~(prs[job[r].pr] = Null /\ tx'[r].pr # Null)
    <3>1. tx' = [tx EXCEPT ![r] = NoTx] \/ tx' = [tx EXCEPT ![r].pr = NewRow(r)]
      BY <1>3 DEF CreateInsertPR, NewRow, Reply
    <3>2. NewRow(r) # Null
      <4>1. pc[r] = "cp_insert" /\ job[r].user \in UserIDs
        BY <1>0, <1>3 DEF CreateInsertPR, RequestOK, Arguments, OpsAt
      <4> QED
        BY <4>1, NullAssumption DEF NewRow, PRRow
    <3>3. tx' = [tx EXCEPT ![r] = NoTx]
      BY <1>0, <1>3, <2>2, <3>1, <3>2 DEF CreateInsertPR, Reply, TxState
    <3> QED
      BY <1>0, <3>3 DEF Clean, NoTx
  <2> QED
    BY <2>1, <2>2
<1>4. CASE MergeUpdate(r)
  BY <1>2, <1>4 DEF MergeUpdate
<1>5. CASE CreateInsertReviewers(r)
  <2>1. pc[r] = "cp_reviewers" /\ UNCHANGED job /\ tx' = [tx EXCEPT ![r].new = job[r].picked]
    BY <1>5 DEF CreateInsertReviewers
  <2>2. job[r].pr \in PRIDs /\ ~Exists(job[r].pr) /\ tx[r].gone = {}
    <3>1. tx[r].pr # Null /\ job[r].op = "create"
      BY <1>0, <2>1 DEF RequestOK, Written, Arguments, OpsAt
    <3> QED
      BY <1>0, <2>1, <3>1 DEF RequestOK, Written, SessionOK
  <2>3. reviewers[job[r].pr] = {}
    BY <2>2 DEF IInv, ForeignKeysHold
  <2>4. \A s \in Requests \ {r} : job[r].pr = job[s].pr => Touched(s) = {}
    BY <2>1, NewPRUntouched
  <2>5. tx'[r].gone = {}
    BY <1>0, <2>1, <2>2 DEF TxState
  <2> QED
    BY <2>1, <2>3, <2>4, <2>5 DEF WritesApart
<1>6. CASE ReplaceDelete(r)
  <2>1. tx[r].new = {}
    BY <1>0, <1>6 DEF ReplaceDelete, SessionOK
  <2>2. UNCHANGED job /\ tx'[r].new = {} /\ tx'[r].dropped = {job[r].user}
        /\ tx'[r].gone = {job[r].user} \cap reviewers[job[r].pr]
    BY <1>0, <1>6, <2>1 DEF ReplaceDelete, TxState
  <2>3. ASSUME NEW s \in Requests \ {r}, job[r].pr \in PRIDs, job[r].pr = job[s].pr
        PROVE  tx'[r].gone \cap Touched(s) = {}
    BY <1>6, <2>2, <2>3 DEF ReplaceDelete, ReviewerFree, HoldsReviewer, Touched
  <2> QED
    BY <2>2, <2>3 DEF WritesApart
<1>7. CASE ReplaceInsert(r)
  <2>1. CASE \E code \in Codes : ReplaceFails(r, code)
    BY <1>1, <2>1
  <2>2. CASE ~ \E code \in Codes : ReplaceFails(r, code)
    <3>1. UNCHANGED job /\ tx' = [tx EXCEPT ![r].new = job[r].picked]
          /\ job[r].picked \cap reviewers[job[r].pr] = {}
          /\ \A u \in job[r].picked : ReviewerFree(r, job[r].pr, u)
      BY <1>7, <2>2 DEF ReplaceInsert, Codes
    <3>2. tx'[r].new = job[r].picked /\ tx'[r].gone = tx[r].gone
          /\ tx'[r].dropped = tx[r].dropped
      BY <1>0, <3>1 DEF TxState
    <3>3. ASSUME NEW s \in Requests \ {r}, job[r].pr \in PRIDs, job[r].pr = job[s].pr
          PROVE  (tx'[r].gone \cup tx'[r].new) \cap Touched(s) = {}
      <4>1. tx[r].gone \cap Touched(s) = {}
        BY <3>3 DEF KeysDisjoint, Touched
      <4>2. job[r].picked \cap Touched(s) = {}
        BY <3>1, <3>3 DEF ReviewerFree, HoldsReviewer, Touched
      <4> QED
        BY <3>2, <4>1, <4>2
    <3> QED
      BY <3>1, <3>2, <3>3 DEF WritesApart, RemovalsRecorded
  <2> QED
    BY <2>1, <2>2
<1> QED
  BY <1>3, <1>4, <1>5, <1>6, <1>7 DEF Writes

------------------------------------------------------------------------------
\* The invariant AuditInv.

\* The seed satisfies it.
LEMMA InitAuditInv == Init => AuditInv
<1> SUFFICES ASSUME Init PROVE AuditInv
  OBVIOUS
<1>1. KeysDisjoint /\ RemovalsRecorded
  BY DEF Init, KeysDisjoint, RemovalsRecorded, Touched, NoTx
<1>2. AuditNeverOverstates
  BY SeedConsistent DEF Init, AuditNeverOverstates
<1> QED
  BY <1>1, <1>2 DEF AuditInv

\* A commit adds an ASSIGNED event only with a row that was not there, and removes
\* a row only with an UNASSIGNED event.
LEMMA PublishKeepsAudit ==
  ASSUME IInv, AuditInv, NEW r \in Requests, Publish(r)
  PROVE  AuditNeverOverstates'
<1> SUFFICES ASSUME NEW p \in PRIDs, NEW u \in UserIDs
             PROVE  assigned'[p][u] <= unassigned'[p][u]
                                         + (IF u \in reviewers'[p] THEN 1 ELSE 0)
  BY DEF AuditNeverOverstates
<1> DEFINE a == assigned[p][u]
           b == unassigned[p][u]
<1>1. a \in Nat /\ b \in Nat /\ a <= b + (IF u \in reviewers[p] THEN 1 ELSE 0)
  BY DEF IInv, TypeOK, EventCounts, AuditInv, AuditNeverOverstates
<1>2. /\ assigned'[p][u] = a + (IF p = job[r].pr /\ u \in tx[r].new THEN 1 ELSE 0)
      /\ unassigned'[p][u] = b + (IF p = job[r].pr /\ u \in tx[r].dropped THEN 1 ELSE 0)
      /\ reviewers'[p] = IF p = job[r].pr THEN (reviewers[p] \ tx[r].gone) \cup tx[r].new
                                          ELSE reviewers[p]
  BY DEF Publish
<1>3. p = job[r].pr => tx[r].new \cap reviewers[p] = {}
  BY DEF AuditInv, KeysDisjoint
<1>4. tx[r].gone \subseteq tx[r].dropped
  BY DEF AuditInv, RemovalsRecorded
<1> HIDE DEF a, b
<1>5. CASE p # job[r].pr
  BY <1>1, <1>2, <1>5
<1>6. CASE p = job[r].pr /\ u \in tx[r].new
  <2>1. u \notin reviewers[p] /\ u \in reviewers'[p]
    BY <1>2, <1>3, <1>6
  <2> QED
    BY <1>1, <1>2, <1>6, <2>1
<1>7. CASE p = job[r].pr /\ u \notin tx[r].new /\ u \in tx[r].gone
  <2>1. u \in tx[r].dropped /\ u \notin reviewers'[p]
    BY <1>2, <1>4, <1>7
  <2> QED
    BY <1>1, <1>2, <1>7, <2>1
<1>8. CASE p = job[r].pr /\ u \notin tx[r].new /\ u \notin tx[r].gone
  <2>1. (u \in reviewers'[p]) <=> (u \in reviewers[p])
    BY <1>2, <1>8
  <2> QED
    BY <1>1, <1>2, <1>8, <2>1
<1> QED
  BY <1>5, <1>6, <1>7, <1>8

\* A step of one request.
LEMMA AuditInvRequest ==
  ASSUME IInv, MergeInv, AuditInv, NEW r \in Requests, OnlyMoves(r),
         Clean(r) \/ (Writes(r) /\ RowsStay), RowsStay \/ Publish(r)
  PROVE  AuditInv'
<1>0. KeysDisjoint /\ RemovalsRecorded /\ AuditNeverOverstates
  BY DEF AuditInv
<1>1. Clean(r) \/ (WritesApart(r) /\ RowsStay)
  BY <1>0, WritesAreApart
<1>2. \A s \in Requests \ {r} : job'[s] = job[s] /\ tx'[s] = tx[s]
  BY DEF OnlyMoves
<1>3. RemovalsRecorded'
  BY <1>0, <1>1, <1>2 DEF RemovalsRecorded, Clean, WritesApart
<1>4. ASSUME NEW s \in Requests, NEW p \in PRIDs, job'[s].pr = p
      PROVE  tx'[s].new \cap reviewers'[p] = {}
  <2>1. CASE s = r
    BY <1>1, <1>4, <2>1 DEF Clean, WritesApart, RowsStay
  <2>2. CASE s # r
    <3>1. tx'[s] = tx[s] /\ job[s].pr = p /\ tx[s].new \cap reviewers[p] = {}
      BY <1>0, <1>2, <1>4, <2>2 DEF KeysDisjoint
    <3>2. job[r].pr = p => tx[s].new \cap tx[r].new = {}
      BY <1>0, <2>2, <3>1 DEF KeysDisjoint, Touched
    <3> QED
      BY <3>1, <3>2 DEF Publish, RowsStay
  <2> QED
    BY <2>1, <2>2
<1>5. ASSUME NEW s \in Requests, NEW t \in Requests, s # t, job'[s].pr \in PRIDs,
             job'[s].pr = job'[t].pr
      PROVE  (tx'[s].gone \cup tx'[s].new) \cap (tx'[t].gone \cup tx'[t].new) = {}
  <2>1. CASE s = r
    BY <1>1, <1>2, <1>5, <2>1 DEF Clean, WritesApart, Touched
  <2>2. CASE t = r
    BY <1>1, <1>2, <1>5, <2>2 DEF Clean, WritesApart, Touched
  <2>3. CASE s # r /\ t # r
    BY <1>0, <1>2, <1>5, <2>3 DEF KeysDisjoint, Touched
  <2> QED
    BY <2>1, <2>2, <2>3
<1>6. KeysDisjoint'
  BY <1>4, <1>5 DEF KeysDisjoint, Touched
<1>7. AuditNeverOverstates'
  BY <1>0, PublishKeepsAudit DEF RowsStay, AuditNeverOverstates
<1> QED
  BY <1>3, <1>6, <1>7 DEF AuditInv

\* Every step preserves the invariant.
LEMMA AuditInvNext ==
  ASSUME IInv, MergeInv, AuditInv, [Next]_vars
  PROVE  AuditInv'
<1>1. ASSUME NEW r \in Requests, Arrive(r) \/ Step(r) \/ Failure(r) PROVE AuditInv'
  <2>1. SessionOK(r) /\ Timed(r)
    BY DEF MergeInv
  <2> QED
    BY <1>1, <2>1, ArriveClean, StepKinds, AuditInvRequest
<1>2. CASE Crash
  BY <1>2
  DEF Crash, db, NoTx, AuditInv, KeysDisjoint, RemovalsRecorded, Touched, AuditNeverOverstates
<1>3. CASE Terminating \/ UNCHANGED vars
  BY <1>3
  DEF Terminating, vars, AuditInv, KeysDisjoint, RemovalsRecorded, Touched, AuditNeverOverstates
<1> QED
  BY <1>1, <1>2, <1>3 DEF Next

\* AuditInv is inductive relative to IInv and MergeInv.
LEMMA AuditInvariant == Spec => [](IInv /\ MergeInv /\ AuditInv)
<1>1. Init => IInv /\ MergeInv /\ AuditInv
  BY InitInv, InitMergeInv, InitAuditInv
<1>2. IInv /\ MergeInv /\ AuditInv /\ [Next]_vars => (IInv /\ MergeInv /\ AuditInv)'
  BY NextInv, MergeInvNext, AuditInvNext
<1> QED
  BY <1>1, <1>2, PTL DEF Spec

\* The events of a PR never say that a user is assigned more often than the table of
\* reviewers does, whatever is interleaved and whatever fails (removeReviewer,
\* insertReviewers).
THEOREM EventsNeverOverstate == Spec => []AuditNeverOverstates
<1>1. AuditInv => AuditNeverOverstates
  BY DEF AuditInv
<1> QED
  BY <1>1, AuditInvariant, PTL
==============================================================================
