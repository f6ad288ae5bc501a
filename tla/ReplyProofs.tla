----------------------------- MODULE ReplyProofs -----------------------------
(***************************************************************************)
(* Proof that what a client was told to have happened did happen, and that *)
(* no two clients are told that they created the same PR or team.          *)
(***************************************************************************)
EXTENDS MergeProofs

\* The operations whose acknowledgement RepliesAreTrue is about.
Acknowledged == {"create", "merge", "add_team"}

\* After a step of r nothing is to be acknowledged, and no team is held.
Fresh(r) ==
  /\ tx'[r].team = Null
  /\ job'[r].op \in Acknowledged =>
       /\ pc'[r] \notin {"at_upsert", "commit", "readback"}
       /\ pc'[r] = "done" => job'[r].res # "OK"

\* The steps on the way to an acknowledgement.
Progress(r) ==
  \/ AddTeamInsert(r) \/ AddTeamUpsert(r) \/ CreateInsertReviewers(r)
  \/ MergeReadStatus(r) \/ MergeUpdate(r) \/ Commit(r) \/ ReadBack(r)

\* The end of a call: an error, a user skipped, or the end of a mass deactivation.
LEMMA EndsFresh ==
  ASSUME IInv, NEW r \in Requests,
         \/ \E code \in Codes : Reply(r, code) /\ (code # "OK" \/ job[r].op = "deactivate")
         \/ SkipUser(r)
  PROVE  Fresh(r)
<1>0. job \in [Requests -> Job] /\ tx \in [Requests -> TxState] /\ pc \in [Requests -> Labels]
      /\ job[r] \in Job
  BY DEF IInv, TypeOK
<1>1. ASSUME NEW code \in Codes, Reply(r, code), code # "OK" \/ job[r].op = "deactivate"
      PROVE  Fresh(r)
  <2>1. job' = [job EXCEPT ![r] = Answer(r, code)] /\ tx' = [tx EXCEPT ![r] = NoTx]
    BY <1>1 DEF Reply, Answer
  <2>2. Answer(r, code).op = job[r].op /\ Answer(r, code).res = code
    BY DEF Answer, NoJob
  <2>3. pc' = [pc EXCEPT ![r] = "done"]
    BY <1>1 DEF Reply, Goto
  <2> QED
    BY <1>0, <1>1, <2>1, <2>2, <2>3 DEF Fresh, Acknowledged, NoTx
<1>2. ASSUME SkipUser(r) PROVE Fresh(r)
  BY <1>0, <1>2 DEF SkipUser, Goto, Fresh, NoTx
<1> QED
  BY <1>1, <1>2

\* Every step of a request leaves nothing to acknowledge, or is on the way to it.
LEMMA StepReplies ==
  ASSUME IInv, NEW r \in Requests, ReplyOK(r), Arrive(r) \/ Step(r) \/ Failure(r)
  PROVE  Fresh(r) \/ Progress(r)
<1>0. job \in [Requests -> Job] /\ tx \in [Requests -> TxState] /\ pc \in [Requests -> Labels]
      /\ job[r] \in Job /\ tx[r] \in TxState /\ Arguments(r)
  BY DEF IInv, TypeOK, RequestOK
<1>a. pc[r] \notin {"at_upsert", "commit"} => tx[r].team = Null
  BY DEF ReplyOK
<1>1. ASSUME NEW code \in Codes \ {"OK"}, Reply(r, code) PROVE Fresh(r)
  BY <1>1, EndsFresh
<1>2. ASSUME SkipUser(r) PROVE Fresh(r)
  BY <1>2, EndsFresh
<1>3. CASE Arrive(r)
  <2>1. /\ pc[r] \in {"idle", "done"} /\ UNCHANGED tx
        /\ \E l \in {"at_exists", "sa_update", "cp_author", "mg_status", "ra_pr", "md_team"} :
             pc' = [pc EXCEPT ![r] = l]
    BY <1>3
    DEF Arrive, ArriveAddTeam, ArriveSetActive, ArriveCreate, ArriveMerge, ArriveReassign,
        ArriveDeactivate, AcceptAddTeam, AcceptSetActive, AcceptCreate, AcceptMerge,
        AcceptReassign, AcceptDeactivate, Accept
  <2> QED
    BY <1>0, <1>a, <2>1 DEF Fresh
<1>4. CASE TeamStep(r)
  <2>1. CASE AddTeamCheckExists(r)
    BY <1>0, <1>a, <1>1, <2>1 DEF AddTeamCheckExists, Goto, Codes, Fresh
  <2>2. CASE SetUserActivity(r)
    <3>1. job[r].op = "set_active"
      BY <1>0, <2>2 DEF SetUserActivity, Arguments, OpsAt
    <3> QED
      BY <1>0, <1>a, <1>1, <2>2, <3>1 DEF SetUserActivity, Goto, Codes, Fresh, Acknowledged
  <2> QED
    BY <1>4, <2>1, <2>2 DEF TeamStep, Progress
<1>5. CASE CreateStep(r)
  <2>1. CASE CreateReadAuthor(r)
    BY <1>0, <1>a, <1>1, <2>1 DEF CreateReadAuthor, Goto, Codes, Fresh
  <2>2. CASE CreatePickReviewers(r)
    BY <1>0, <1>a, <2>2 DEF CreatePickReviewers, Goto, Fresh
  <2>3. CASE CreateCheckExists(r)
    BY <1>0, <1>a, <1>1, <2>3 DEF CreateCheckExists, Goto, Codes, Fresh
  <2>4. CASE CreateInsertPR(r)
    <3>1. CASE Reply(r, "INTERNAL_ERROR")
      BY <1>1, <3>1 DEF Codes
    <3>2. CASE ~Reply(r, "INTERNAL_ERROR")
      <4>1. tx' = [tx EXCEPT ![r].pr = NewRow(r)] /\ pc' = [pc EXCEPT ![r] = "cp_reviewers"]
            /\ pc[r] = "cp_insert"
        BY <2>4, <3>2 DEF CreateInsertPR, Goto, NewRow
      <4> QED
        BY <1>0, <1>a, <4>1 DEF Fresh, TxState
    <3> QED
      BY <3>1, <3>2
  <2> QED
    BY <1>5, <2>1, <2>2, <2>3, <2>4 DEF CreateStep, Progress
<1>6. CASE MergeStep(r)
  BY <1>6 DEF MergeStep, Progress
\* The other operations.
<1>b. ASSUME job[r].op \notin Acknowledged, job'[r].op = job[r].op, tx'[r].team = Null
      PROVE  Fresh(r)
  BY <1>b DEF Fresh
<1>7. CASE ReassignStep(r)
  <2>1. job[r].op = "reassign" /\ pc[r] \notin {"at_upsert", "commit"}
    BY <1>0, <1>7
    DEF ReassignStep, ReassignReadPR, ReassignReadReviewers, ReassignReadUser, ReassignPick,
        Arguments, OpsAt
  <2>2. CASE ReassignReadPR(r)
    BY <1>0, <1>a, <1>1, <2>2 DEF ReassignReadPR, Goto, Codes, Fresh
  <2>3. CASE ReassignReadReviewers(r)
    BY <1>0, <1>a, <1>1, <2>3 DEF ReassignReadReviewers, Goto, Codes, Fresh
  <2>4. CASE ReassignReadUser(r)
    BY <1>0, <1>a, <2>4 DEF ReassignReadUser, Goto, Fresh
  <2>5. CASE ReassignPick(r)
    BY <1>0, <1>a, <1>1, <2>5 DEF ReassignPick, Goto, Codes, Fresh
  <2> QED
    BY <1>7, <2>2, <2>3, <2>4, <2>5 DEF ReassignStep
<1>8. CASE ReplaceStep(r)
  <2>0. job[r].op \notin Acknowledged /\ tx[r].team = Null
    BY <1>0, <1>a, <1>8
    DEF ReplaceStep, ReplaceReadStatus, ReplaceCheckAssigned, ReplaceDelete, ReplaceInsert,
        Arguments, OpsAt, Acknowledged
  <2>1. ASSUME NEW code \in Codes \ {"OK"}, ReplaceFails(r, code) PROVE Fresh(r)
    BY <1>1, <1>2, <2>1 DEF ReplaceFails
  <2>2. CASE UNCHANGED <<job, tx>>
    BY <1>b, <2>0, <2>2
  <2>3. CASE ReplaceDelete(r)
    <3>1. UNCHANGED job /\ tx'[r].team = tx[r].team
      BY <1>0, <2>3 DEF ReplaceDelete, TxState
    <3> QED
      BY <1>b, <2>0, <3>1
  <2>4. CASE ReplaceInsert(r) /\ tx' = [tx EXCEPT ![r].new = job[r].picked] /\ UNCHANGED job
    <3>1. tx'[r].team = tx[r].team
      BY <1>0, <2>4 DEF TxState
    <3> QED
      BY <1>b, <2>0, <2>4, <3>1
  <2> QED
    BY <1>8, <2>1, <2>2, <2>3, <2>4
    DEF ReplaceStep, ReplaceReadStatus, ReplaceCheckAssigned, ReplaceInsert, Codes
<1>9. CASE DeactivateStep(r)
  <2>0. job[r].op = "deactivate" /\ job[r].op \notin Acknowledged /\ tx[r].team = Null
    BY <1>0, <1>a, <1>9
    DEF DeactivateStep, DeactivateReadTeam, DeactivateTeamExists, DeactivateUpdate,
        DeactivateCommit, DeactivateListOpenPRs, DeactivateNextPR, DeactivateLoopEnds,
        DeactivateReadPR, DeactivateReadReviewers, DeactivatePick, DeactivateFinish,
        Arguments, OpsAt, Acknowledged
  <2>1. ASSUME NEW code \in Codes, Reply(r, code) PROVE Fresh(r)
    BY <2>0, <2>1, EndsFresh
  <2>2. CASE DeactivateReadTeam(r)
    <3>1. CASE \E code \in Codes : Reply(r, code)
      BY <2>1, <3>1
    <3>2. CASE ~ \E code \in Codes : Reply(r, code)
      <4>1. UNCHANGED tx /\ job'[r].op = job[r].op
        BY <1>0, <2>2, <3>2 DEF DeactivateReadTeam, Codes, Job
      <4> QED
        BY <1>b, <2>0, <4>1
    <3> QED
      BY <3>1, <3>2
  <2>3. CASE DeactivateTeamExists(r) \/ DeactivateFinish(r)
    BY <2>1, <2>3 DEF DeactivateTeamExists, DeactivateFinish, Codes
  <2>4. CASE DeactivateUpdate(r)
    <3>1. PICK u \in job[r].ids :
            /\ tx' = [tx EXCEPT ![r].users = [@ EXCEPT ![u] = [users[u] EXCEPT !.active = FALSE]]]
            /\ job' = [job EXCEPT ![r].ids = @ \ {u}]
      BY <2>4 DEF DeactivateUpdate
    <3>2. tx'[r].team = tx[r].team /\ job'[r].op = job[r].op
      BY <1>0, <3>1 DEF TxState, Job
    <3> QED
      BY <1>b, <2>0, <3>2
  <2>5. CASE DeactivateCommit(r)
    <3>1. UNCHANGED job /\ tx'[r].team = Null
      BY <1>0, <2>5 DEF DeactivateCommit, Publish, NoTx
    <3> QED
      BY <1>b, <2>0, <3>1
  <2>6. CASE DeactivateNextPR(r)
    <3>1. UNCHANGED tx
          /\ \E u, p, w : job' = [job EXCEPT ![r] = [@ EXCEPT !.user = u, !.pr = p, !.work = w]]
      BY <2>6 DEF DeactivateNextPR
    <3>2. job'[r].op = job[r].op
      BY <1>0, <3>1 DEF Job
    <3> QED
      BY <1>b, <2>0, <3>1, <3>2
  <2>7. CASE DeactivateListOpenPRs(r) \/ DeactivateLoopEnds(r) \/ DeactivateReadPR(r)
             \/ DeactivateReadReviewers(r) \/ DeactivatePick(r)
    <3>1. UNCHANGED tx /\ job'[r].op = job[r].op
      BY <1>0, <2>7
      DEF DeactivateListOpenPRs, DeactivateLoopEnds, DeactivateReadPR,
          DeactivateReadReviewers, DeactivatePick, Job
    <3> QED
      BY <1>b, <2>0, <3>1
  <2> QED
    BY <1>9, <2>2, <2>3, <2>4, <2>5, <2>6, <2>7 DEF DeactivateStep
<1>10. CASE Failure(r)
  <2>1. (\E code \in Codes \ {"OK"} : Reply(r, code)) \/ SkipUser(r)
    BY <1>10
    DEF Failure, CallError, DeactivateExpires, CommitAnswerLost, DeadlockAbort, CallFails, Codes
  <2> QED
    BY <1>1, <1>2, <2>1
<1> QED
  BY <1>3, <1>4, <1>5, <1>6, <1>7, <1>8, <1>9, <1>10 DEF Step, Progress

\* The table of teams changes by a COMMIT only.
LEMMA TeamsStay ==
  ASSUME NEW r \in Requests, Arrive(r) \/ Step(r) \/ Failure(r)
  PROVE  /\ UNCHANGED teams \/ Publish(r)
         /\ UNCHANGED users \/ Publish(r) \/ SetUserActivity(r)
<1> USE DEF db
<1>1. CASE Arrive(r)
  BY <1>1
  DEF Arrive, ArriveAddTeam, ArriveSetActive, ArriveCreate, ArriveMerge, ArriveReassign,
      ArriveDeactivate, AcceptAddTeam, AcceptSetActive, AcceptCreate, AcceptMerge,
      AcceptReassign, AcceptDeactivate, Accept
<1>2. CASE TeamStep(r)
  BY <1>2 DEF TeamStep, AddTeamCheckExists, AddTeamInsert, AddTeamUpsert, SetUserActivity
<1>3. CASE CreateStep(r)
  BY <1>3
  DEF CreateStep, CreateReadAuthor, CreatePickReviewers, CreateCheckExists, CreateInsertPR,
      CreateInsertReviewers
<1>4. CASE MergeStep(r)
  BY <1>4 DEF MergeStep, MergeReadStatus, MergeUpdate
<1>5. CASE ReassignStep(r)
  BY <1>5
  DEF ReassignStep, ReassignReadPR, ReassignReadReviewers, ReassignReadUser, ReassignPick
<1>6. CASE ReplaceStep(r)
  BY <1>6
  DEF ReplaceStep, ReplaceReadStatus, ReplaceCheckAssigned, ReplaceDelete, ReplaceInsert
<1>7. CASE DeactivateStep(r)
  BY <1>7
  DEF DeactivateStep, DeactivateReadTeam, DeactivateTeamExists, DeactivateUpdate,
      DeactivateCommit, DeactivateListOpenPRs, DeactivateNextPR, DeactivateLoopEnds,
      DeactivateReadPR, DeactivateReadReviewers, DeactivatePick, DeactivateFinish
<1>8. CASE Failure(r)
  BY <1>8 DEF Failure, CallError, DeactivateExpires, CommitAnswerLost, DeadlockAbort
<1>9. CASE Commit(r) \/ ReadBack(r)
  BY <1>9 DEF Commit, ReadBack
<1> QED
  BY <1>1, <1>2, <1>3, <1>4, <1>5, <1>6, <1>7, <1>8, <1>9 DEF Step

------------------------------------------------------------------------------
\* The invariant ReplyInv.

\* The seed satisfies it.
LEMMA InitReplyInv == Init => ReplyInv
BY DEF Init, ReplyInv, ReplyOK, OneCreator, Succeeds, NoJob, NoTx

\* COMMIT makes true what r is going to acknowledge.
LEMMA CommitReplyOK ==
  ASSUME IInv, MergeInv, KeepsMerged, NEW r \in Requests, ReplyOK(r), Commit(r)
  PROVE  ReplyOK(r)'
<1>0. /\ job \in [Requests -> Job] /\ tx \in [Requests -> TxState] /\ pc \in [Requests -> Labels]
      /\ job[r] \in Job /\ tx[r] \in TxState /\ Arguments(r) /\ Written(r)
  BY DEF IInv, TypeOK, RequestOK
<1>1. pc[r] = "commit" /\ pc'[r] = "readback" /\ job' = job /\ tx'[r] = NoTx /\ Publish(r)
  BY <1>0 DEF Commit, Goto, Publish
<1>2. CASE job[r].op = "create"
  <2>1. tx[r].pr # Null /\ job[r].pr \in PRIDs /\ tx[r].pr.author = job[r].user
    BY <1>0, <1>1, <1>2 DEF ReplyOK, Written
  <2>2. prs'[job[r].pr] = tx[r].pr
    BY <1>1, <2>1 DEF Publish, HoldsPR
  <2> QED
    BY <1>1, <1>2, <2>1, <2>2 DEF ReplyOK, Exists, NoTx
<1>3. CASE job[r].op = "merge"
  <2>0. job[r].pr \in PRIDs
    BY <1>0, <1>3 DEF Arguments
  <2>1. Merged(job[r].pr)'
    <3>1. CASE tx[r].pr = Null
      <4>1. Merged(job[r].pr)
        BY <1>1, <1>3, <3>1 DEF ReplyOK
      <4> QED
        BY <1>1, <2>0, <4>1 DEF KeepsMerged, Merged, Exists
    <3>2. CASE tx[r].pr # Null
      <4>1. HoldsPR(r, job[r].pr)
        BY <3>2 DEF HoldsPR
      <4>2. prs'[job[r].pr] = tx[r].pr
        BY <1>1, <2>0, <4>1 DEF Publish
      <4>3. tx[r].pr = MergedRow(r, job[r].pr)
        BY <1>3, <3>2 DEF MergeInv, RowFollows
      <4>4. Exists(job[r].pr)
        BY <1>0, <1>3, <3>2 DEF Written
      <4>5. prs[job[r].pr] \in PRRow
        BY <2>0, <4>4 DEF Exists, IInv, TypeOK, PRTable
      <4>6. tx[r].pr.status = "MERGED"
        BY <4>3, <4>5 DEF MergedRow, PRRow
      <4> QED
        BY <1>1, <3>2, <4>2, <4>6 DEF Merged, Exists
    <3> QED
      BY <3>1, <3>2
  <2> QED
    BY <1>1, <1>3, <2>1 DEF ReplyOK, NoTx
<1>4. CASE job[r].op = "add_team"
  <2>1. tx[r].team = job[r].team /\ job[r].team \in TeamNames
    BY <1>0, <1>1, <1>4 DEF ReplyOK, Arguments
  <2>2. job[r].team \in teams'
    BY <1>1, <2>1, NullAssumption DEF Publish
  <2> QED
    BY <1>1, <1>4, <2>2 DEF ReplyOK, NoTx
<1>5. CASE job[r].op \notin {"create", "merge", "add_team"}
  BY <1>1, <1>5 DEF ReplyOK, NoTx
<1> QED
  BY <1>2, <1>3, <1>4, <1>5

\* The request that moves.
LEMMA ReplyOwn ==
  ASSUME IInv, MergeInv, KeepsMerged, NEW r \in Requests, ReplyOK(r), Fresh(r) \/ Progress(r)
  PROVE  ReplyOK(r)'
<1>0. /\ job \in [Requests -> Job] /\ tx \in [Requests -> TxState] /\ pc \in [Requests -> Labels]
      /\ job[r] \in Job /\ tx[r] \in TxState /\ Arguments(r) /\ Written(r)
  BY DEF IInv, TypeOK, RequestOK
<1>1. CASE Fresh(r)
  BY <1>1 DEF Fresh, Acknowledged, ReplyOK, Succeeds
<1>2. CASE AddTeamInsert(r) /\ ~Fresh(r)
  <2>1. ~Reply(r, "INTERNAL_ERROR")
    BY <1>2, EndsFresh DEF Codes
  <2>2. /\ pc[r] = "at_insert" /\ job' = job /\ tx' = [tx EXCEPT ![r].team = job[r].team]
        /\ teams' = teams /\ job[r].team \notin teams
        /\ pc' = [pc EXCEPT ![r] = IF job[r].ids = {} THEN "commit" ELSE "at_upsert"]
    BY <1>2, <2>1 DEF AddTeamInsert, Goto, db
  <2>3. job[r].op = "add_team" /\ tx'[r].team = job[r].team
        /\ pc'[r] \in {"at_upsert", "commit"}
    BY <1>0, <2>2 DEF Arguments, OpsAt, TxState
  <2> QED
    BY <2>2, <2>3 DEF ReplyOK, Succeeds
<1>3. CASE AddTeamUpsert(r)
  <2>1. PICK u \in job[r].ids :
          /\ tx' = [tx EXCEPT ![r].users = [@ EXCEPT ![u] =
                      [team |-> job[r].team, active |-> u \in job[r].on]]]
          /\ job' = [job EXCEPT ![r].ids = @ \ {u}]
    BY <1>3 DEF AddTeamUpsert
  <2> DEFINE row == [team |-> job[r].team, active |-> u \in job[r].on]
  <2>2. tx' = [tx EXCEPT ![r].users = [@ EXCEPT ![u] = row]]
    BY <2>1
  <2> HIDE DEF row
  <2>3. pc[r] = "at_upsert" /\ pc'[r] \in {"at_upsert", "commit"} /\ teams' = teams
    BY <1>0, <1>3 DEF AddTeamUpsert, Goto, db
  <2>4. /\ tx'[r].team = tx[r].team /\ job'[r].op = job[r].op /\ job'[r].team = job[r].team
        /\ job[r].op = "add_team"
    BY <1>0, <2>1, <2>2, <2>3 DEF TxState, Job, Arguments, OpsAt
  <2> QED
    BY <2>3, <2>4 DEF ReplyOK, Succeeds
<1>4. CASE CreateInsertReviewers(r)
  <2>1. pc[r] = "cp_reviewers" /\ job' = job /\ tx' = [tx EXCEPT ![r].new = job[r].picked]
        /\ pc'[r] = "commit"
    BY <1>0, <1>4 DEF CreateInsertReviewers, Goto
  <2>2. job[r].op = "create" /\ tx'[r].pr # Null /\ tx'[r].team = Null
    BY <1>0, <2>1 DEF Arguments, OpsAt, Written, ReplyOK, TxState
  <2> QED
    BY <2>1, <2>2 DEF ReplyOK, Succeeds
<1>5. CASE MergeReadStatus(r) /\ ~Fresh(r)
  <2>1. ~Reply(r, "NOT_FOUND")
    BY <1>5, EndsFresh DEF Codes
  <2>2. /\ pc[r] = "mg_status" /\ job' = job /\ tx' = tx /\ prs' = prs
        /\ prs[job[r].pr] # Null
        /\ pc' = [pc EXCEPT ![r] = IF AlreadyMerged(job[r].pr) THEN "commit" ELSE "mg_update"]
    BY <1>5, <2>1 DEF MergeReadStatus, Goto, db
  <2>3. job[r].op = "merge" /\ tx[r].team = Null
    BY <1>0, <2>2 DEF Arguments, OpsAt, ReplyOK
  <2>4. pc'[r] = "commit" => Merged(job[r].pr)
    BY <1>0, <2>2 DEF AlreadyMerged, Merged, Exists
  <2>5. pc'[r] \in {"commit", "mg_update"}
    BY <1>0, <2>2
  <2> QED
    BY <2>2, <2>3, <2>4, <2>5 DEF ReplyOK, Succeeds, Merged, Exists
<1>6. CASE MergeUpdate(r)
  <2>1. pc[r] = "mg_update" /\ job' = job /\ tx' = [tx EXCEPT ![r].pr = MergedRow(r, job[r].pr)]
        /\ pc'[r] = "commit"
    BY <1>0, <1>6 DEF MergeUpdate, Goto
  <2>2. job[r].op = "merge" /\ job[r].pr \in PRIDs /\ Exists(job[r].pr)
    BY <1>0, <2>1 DEF Arguments, OpsAt, IInv, RequestOK, ReadsLast, Found
  <2>3. prs[job[r].pr] \in PRRow /\ job[r].now \in Nat
    BY <1>0, <2>2 DEF Exists, IInv, TypeOK, PRTable, Job
  <2>4. MergedRow(r, job[r].pr) \in PRRow
    BY <2>3 DEF MergedRow, PRRow
  <2>5. tx'[r].pr # Null /\ tx'[r].team = Null
    BY <1>0, <2>1, <2>4, NullAssumption DEF ReplyOK, TxState
  <2> QED
    BY <2>1, <2>2, <2>5 DEF ReplyOK, Succeeds
<1>7. CASE Commit(r)
  BY <1>7, CommitReplyOK
<1>8. CASE ReadBack(r) /\ job[r].op # "deactivate"
  <2>1. pc[r] = "readback" /\ Reply(r, "OK") /\ UNCHANGED db
    BY <1>8 DEF ReadBack
  <2>2. job' = [job EXCEPT ![r] = Answer(r, "OK")] /\ tx' = [tx EXCEPT ![r] = NoTx]
        /\ pc' = [pc EXCEPT ![r] = "done"]
    BY <2>1 DEF Reply, Answer, Goto
  <2>3. /\ Answer(r, "OK").op = job[r].op /\ Answer(r, "OK").pr = job[r].pr
        /\ Answer(r, "OK").user = job[r].user /\ Answer(r, "OK").team = job[r].team
    BY <1>0, AnswerJob DEF Codes
  <2>4. Succeeds(r) /\ UNCHANGED <<prs, teams>> /\ pc'[r] = "done" /\ tx'[r].team = Null
    BY <1>0, <2>1, <2>2 DEF Succeeds, db, NoTx
  <2>5. /\ job'[r].op = job[r].op /\ job'[r].pr = job[r].pr
        /\ job'[r].user = job[r].user /\ job'[r].team = job[r].team
    BY <1>0, <2>2, <2>3
  <2> QED
    BY <2>4, <2>5 DEF ReplyOK, Merged, Exists
<1>9. CASE ReadBack(r) /\ job[r].op = "deactivate"
  <2>1. pc'[r] = "md_next" /\ job' = job /\ tx' = tx /\ pc[r] = "readback"
    BY <1>0, <1>9 DEF ReadBack, Goto
  <2> QED
    BY <1>9, <2>1 DEF ReplyOK
<1> QED
  BY <1>1, <1>2, <1>3, <1>4, <1>5, <1>6, <1>7, <1>8, <1>9 DEF Progress

\* What another request is going to acknowledge is not undone.
LEMMA ReplyOthers ==
  ASSUME IInv, KeepsMerged, OneCreator, NEW r \in Requests, NEW s \in Requests \ {r},
         ReplyOK(s), UNCHANGED teams \/ Publish(r),
         pc'[s] = pc[s], job'[s] = job[s], tx'[s] = tx[s]
  PROVE  ReplyOK(s)'
<1>0. Arguments(s)
  BY DEF IInv, RequestOK
<1>1. job[s].op \in {"create", "merge"} => job[s].pr \in PRIDs
  BY <1>0 DEF Arguments
<1>2. Succeeds(s)' <=> Succeeds(s)
  BY DEF Succeeds
<1>3. teams \subseteq teams'
  BY DEF Publish
<1>4. tx[s].team # Null => tx[s].team \notin teams'
  BY DEF Publish, ReplyOK, OneCreator
<1>5. ASSUME NEW p \in PRIDs
      PROVE  /\ Merged(p) => Merged(p)'
             /\ Exists(p) => Exists(p)' /\ prs'[p].author = prs[p].author
  BY DEF KeepsMerged, Merged, Exists
<1> QED
  BY <1>1, <1>2, <1>3, <1>4, <1>5 DEF ReplyOK

\* Who succeeds did so before, or commits now; a team is held once its key is free.
LEMMA NewSuccess ==
  ASSUME IInv, NEW r \in Requests, ReplyOK(r), Fresh(r) \/ Progress(r)
  PROVE  /\ Succeeds(r)' /\ job'[r].op \in {"create", "add_team"} =>
              /\ job'[r].op = job[r].op
              /\ job'[r].pr = job[r].pr
              /\ job'[r].team = job[r].team
              /\ Succeeds(r) \/ pc[r] = "commit"
         /\ tx'[r].team # Null => tx'[r].team = tx[r].team \/ TeamFree(r, tx'[r].team)
<1>0. /\ job \in [Requests -> Job] /\ tx \in [Requests -> TxState] /\ pc \in [Requests -> Labels]
      /\ job[r] \in Job /\ tx[r] \in TxState /\ Arguments(r)
  BY DEF IInv, TypeOK, RequestOK
<1>1. CASE Fresh(r)
  BY <1>1 DEF Fresh, Acknowledged, Succeeds
<1>2. CASE AddTeamInsert(r) /\ ~Fresh(r)
  <2>1. ~Reply(r, "INTERNAL_ERROR")
    BY <1>2, EndsFresh DEF Codes
  <2>2. /\ TeamFree(r, job[r].team) /\ tx' = [tx EXCEPT ![r].team = job[r].team]
        /\ pc' = [pc EXCEPT ![r] = IF job[r].ids = {} THEN "commit" ELSE "at_upsert"]
    BY <1>2, <2>1 DEF AddTeamInsert, Goto
  <2> QED
    BY <1>0, <2>2 DEF Succeeds, TxState
<1>3. CASE AddTeamUpsert(r)
  <2>1. PICK u \in job[r].ids :
          tx' = [tx EXCEPT ![r].users = [@ EXCEPT ![u] =
                   [team |-> job[r].team, active |-> u \in job[r].on]]]
    BY <1>3 DEF AddTeamUpsert
  <2> DEFINE row == [team |-> job[r].team, active |-> u \in job[r].on]
  <2>2. tx' = [tx EXCEPT ![r].users = [@ EXCEPT ![u] = row]]
    BY <2>1
  <2> HIDE DEF row
  <2>3. tx'[r].team = tx[r].team
    BY <1>0, <2>2 DEF TxState
  <2>4. pc'[r] \in {"at_upsert", "commit"}
    BY <1>0, <1>3 DEF AddTeamUpsert, Goto
  <2> QED
    BY <2>3, <2>4 DEF Succeeds
<1>4. CASE CreateInsertReviewers(r) \/ MergeUpdate(r)
  <2>1. tx'[r].team = tx[r].team /\ pc'[r] = "commit"
    BY <1>0, <1>4 DEF CreateInsertReviewers, MergeUpdate, Goto, TxState
  <2> QED
    BY <2>1 DEF Succeeds
<1>5. CASE MergeReadStatus(r) /\ ~Fresh(r)
  <2>1. ~Reply(r, "NOT_FOUND")
    BY <1>5, EndsFresh DEF Codes
  <2>2. tx' = tx /\ pc'[r] \in {"commit", "mg_update"}
    BY <1>0, <1>5, <2>1 DEF MergeReadStatus, Goto
  <2> QED
    BY <2>2 DEF Succeeds
<1>6. CASE Commit(r)
  BY <1>0, <1>6 DEF Commit, Publish, Goto, NoTx
<1>7. CASE ReadBack(r) /\ job[r].op # "deactivate"
  <2>1. pc[r] = "readback" /\ Reply(r, "OK")
    BY <1>7 DEF ReadBack
  <2>2. job' = [job EXCEPT ![r] = Answer(r, "OK")] /\ tx' = [tx EXCEPT ![r] = NoTx]
    BY <2>1 DEF Reply, Answer
  <2>3. /\ Answer(r, "OK").op = job[r].op /\ Answer(r, "OK").pr = job[r].pr
        /\ Answer(r, "OK").team = job[r].team
    BY <1>0, AnswerJob DEF Codes
  <2> QED
    BY <1>0, <2>1, <2>2, <2>3 DEF Succeeds, NoTx
<1>8. CASE ReadBack(r) /\ job[r].op = "deactivate"
  <2>1. pc'[r] = "md_next" /\ tx' = tx
    BY <1>0, <1>8 DEF ReadBack, Goto
  <2> QED
    BY <2>1 DEF Succeeds
<1> QED
  BY <1>1, <1>2, <1>3, <1>4, <1>5, <1>6, <1>7, <1>8 DEF Progress

\* Nobody else has created what r creates.
LEMMA StillOneCreator ==
  ASSUME IInv, ReplyInv, NEW r \in Requests, OnlyMoves(r), Fresh(r) \/ Progress(r)
  PROVE  OneCreator'
<1>0. ReplyOK(r) /\ RequestOK(r) /\ OneCreator
  BY DEF IInv, ReplyInv
<1>1. ASSUME NEW s \in Requests \ {r}
      PROVE  /\ tx'[s] = tx[s] /\ job'[s] = job[s] /\ (Succeeds(s)' <=> Succeeds(s))
             /\ ReplyOK(s)
  BY DEF OnlyMoves, Succeeds, ReplyInv
<1>2. ASSUME NEW s \in Requests \ {r}
      PROVE  /\ tx'[r].team # Null => tx'[r].team # tx'[s].team
             /\ tx'[s].team # Null => tx'[s].team # tx'[r].team
  <2>1. tx'[r].team # Null => tx'[r].team = tx[r].team \/ TeamFree(r, tx'[r].team)
    BY <1>0, NewSuccess
  <2>2. tx[r].team # Null => tx[r].team # tx[s].team
    BY <1>0 DEF OneCreator
  <2> QED
    BY <1>1, <2>1, <2>2 DEF TeamFree, HoldsTeam
<1>3. ASSUME NEW s \in Requests \ {r}, Succeeds(r)', Succeeds(s)',
             job'[r].op = "create", job'[s].op = "create"
      PROVE  job'[r].pr # job'[s].pr
  <2>1. job[r].op = "create" /\ job'[r].pr = job[r].pr /\ (Succeeds(r) \/ pc[r] = "commit")
    BY <1>0, <1>3, NewSuccess
  <2>2. Succeeds(s) /\ job[s].op = "create" /\ job'[s].pr = job[s].pr /\ Exists(job[s].pr)
    BY <1>1, <1>3 DEF ReplyOK
  <2>3. CASE Succeeds(r)
    BY <1>0, <2>1, <2>2, <2>3 DEF OneCreator
  <2>4. CASE pc[r] = "commit"
    <3>1. ~Exists(job[r].pr)
      BY <1>0, <2>1, <2>4 DEF ReplyOK, RequestOK, Written
    <3> QED
      BY <2>1, <2>2, <3>1
  <2> QED
    BY <2>1, <2>3, <2>4
<1>4. ASSUME NEW s \in Requests \ {r}, Succeeds(r)', Succeeds(s)',
             job'[r].op = "add_team", job'[s].op = "add_team"
      PROVE  job'[r].team # job'[s].team
  <2>1. job[r].op = "add_team" /\ job'[r].team = job[r].team
        /\ (Succeeds(r) \/ pc[r] = "commit")
    BY <1>0, <1>4, NewSuccess
  <2>2. Succeeds(s) /\ job[s].op = "add_team" /\ job'[s].team = job[s].team
        /\ job[s].team \in teams
    BY <1>1, <1>4 DEF ReplyOK
  <2>3. CASE Succeeds(r)
    BY <1>0, <2>1, <2>2, <2>3 DEF OneCreator
  <2>4. CASE pc[r] = "commit"
    <3>1. tx[r].team = job[r].team /\ job[r].team \in TeamNames
      BY <1>0, <2>1, <2>4 DEF ReplyOK, RequestOK, Arguments
    <3>2. job[r].team \notin teams
      BY <1>0, <3>1, NullAssumption DEF ReplyOK
    <3> QED
      BY <2>1, <2>2, <3>2
  <2> QED
    BY <2>1, <2>3, <2>4
<1>5. ASSUME NEW s \in Requests, NEW t \in Requests, s # t, s # r, t # r
      PROVE  /\ tx'[s].team # Null => tx'[s].team # tx'[t].team
             /\ job'[s].op = "create" /\ job'[t].op = "create" /\ Succeeds(s)' /\ Succeeds(t)'
                  => job'[s].pr # job'[t].pr
             /\ job'[s].op = "add_team" /\ job'[t].op = "add_team" /\ Succeeds(s)' /\ Succeeds(t)'
                  => job'[s].team # job'[t].team
  BY <1>0, <1>1, <1>5 DEF OneCreator
<1> QED
  BY <1>2, <1>3, <1>4, <1>5 DEF OneCreator

\* Every step preserves the invariant.
LEMMA ReplyInvNext ==
  ASSUME IInv, MergeInv, ReplyInv, [Next]_vars
  PROVE  ReplyInv'
<1>0. KeepsMerged
  BY NextKeepsMerged
<1>1. ASSUME NEW r \in Requests, Arrive(r) \/ Step(r) \/ Failure(r) PROVE ReplyInv'
  <2>1. SessionOK(r) /\ Timed(r) /\ ReplyOK(r)
    BY DEF MergeInv, ReplyInv
  <2>2. OnlyMoves(r)
    BY <1>1, <2>1, ArriveClean, StepKinds
  <2>3. Fresh(r) \/ Progress(r)
    BY <1>1, <2>1, StepReplies
  <2>4. UNCHANGED teams \/ Publish(r)
    BY <1>1, TeamsStay
  <2>5. ReplyOK(r)'
    BY <1>0, <2>1, <2>3, ReplyOwn
  <2>6. ASSUME NEW s \in Requests \ {r} PROVE ReplyOK(s)'
    BY <1>0, <2>2, <2>4, ReplyOthers DEF ReplyInv, OnlyMoves
  <2>7. OneCreator'
    BY <2>2, <2>3, StillOneCreator
  <2> QED
    BY <2>5, <2>6, <2>7 DEF ReplyInv
<1>2. CASE Crash
  <2>1. ASSUME NEW r \in Requests
        PROVE  /\ pc'[r] \in {"idle", "done"} /\ tx'[r].team = Null
               /\ pc'[r] = "done" => pc[r] = "done" /\ job'[r] = job[r]
               /\ pc'[r] = "idle" => job'[r].op = "none"
    BY <1>2 DEF Crash, NoTx, NoJob
  <2>2. UNCHANGED <<teams, prs>>
    BY <1>2 DEF Crash, db
  <2>3. ASSUME NEW r \in Requests PROVE ReplyOK(r)'
    <3>1. CASE pc'[r] = "done"
      BY <2>1, <2>2, <3>1 DEF ReplyInv, ReplyOK, Succeeds, Merged, Exists
    <3>2. CASE pc'[r] = "idle"
      BY <2>1, <3>2 DEF ReplyOK
    <3> QED
      BY <2>1, <3>1, <3>2
  <2>4. OneCreator'
    BY <2>1 DEF ReplyInv, OneCreator, Succeeds
  <2> QED
    BY <2>3, <2>4 DEF ReplyInv
<1>3. CASE Terminating \/ UNCHANGED vars
  <2>0. UNCHANGED <<teams, prs, pc, job, tx>>
    BY <1>3 DEF Terminating, vars
  <2>1. ASSUME NEW r \in Requests PROVE ReplyOK(r)' /\ (Succeeds(r)' <=> Succeeds(r))
    BY <2>0 DEF ReplyInv, ReplyOK, Succeeds, Merged, Exists
  <2>2. OneCreator'
    BY <2>0, <2>1 DEF ReplyInv, OneCreator
  <2> QED
    BY <2>1, <2>2 DEF ReplyInv
<1> QED
  BY <1>1, <1>2, <1>3 DEF Next

\* ReplyInv is inductive relative to IInv and MergeInv.
LEMMA ReplyInvariant == Spec => [](IInv /\ MergeInv /\ ReplyInv)
<1>1. Init => IInv /\ MergeInv /\ ReplyInv
  BY InitInv, InitMergeInv, InitReplyInv
<1>2. IInv /\ MergeInv /\ ReplyInv /\ [Next]_vars => (IInv /\ MergeInv /\ ReplyInv)'
  BY NextInv, MergeInvNext, ReplyInvNext
<1> QED
  BY <1>1, <1>2, PTL DEF Spec

\* What a client was told to have happened did happen, whatever fails later: a merged PR
\* is MERGED, a created PR has the author sent, and one of those who raced to create a
\* PR or a team was told so (CreatePullRequest, UpdatePRStatus, CreateTeam).
THEOREM AcknowledgedIsTrue == Spec => []RepliesAreTrue
<1>1. ReplyInv => RepliesAreTrue
  BY DEF ReplyInv, ReplyOK, OneCreator, RepliesAreTrue, Answered, Succeeds
<1> QED
  BY <1>1, ReplyInvariant, PTL
==============================================================================
