--------------------------- MODULE LifecycleProofs ---------------------------
(***************************************************************************)
(* Proof of the inductive invariant, that deadlocks are of two kinds, that *)
(* the service implements PRLifecycle, and that a deactivation stops the   *)
(* draws of the user.                                                      *)
(***************************************************************************)
EXTENDS ReplyProofs, FiniteSetTheorems

\* pickRandomIDs returns no more ids than it was asked for.
LEMMA PicksBounded ==
  ASSUME NEW candidates, NEW limit \in Nat, NEW S \in RandomPicks(candidates, limit)
  PROVE  Cardinality(S) <= limit
BY DEF RandomPicks

\* Nothing is picked, and nobody is to be deactivated, when a request arrives.
LEMMA ArrivesEmpty ==
  ASSUME IInv, NEW r \in Requests, Arrive(r)
  PROVE  job'[r].picked = {} /\ job'[r].targets = {}
<1>0. job \in [Requests -> Job] /\ job[r] \in Job
  BY DEF IInv, TypeOK
<1> USE DEF Accept, NoJob
<1>1. CASE ArriveAddTeam(r)
  BY <1>0, <1>1 DEF ArriveAddTeam, AcceptAddTeam
<1>2. CASE ArriveSetActive(r)
  <2> PICK u \in UserIDs, active \in BOOLEAN : AcceptSetActive(r, u, active)
    BY <1>2 DEF ArriveSetActive
  <2> DEFINE on == IF active THEN {u} ELSE {}
  <2>1. job' = [job EXCEPT ![r] =
          [[NoJob EXCEPT !.op = "set_active", !.user = u, !.on = on] EXCEPT
             !.now = issued + 1]]
    BY DEF AcceptSetActive
  <2> HIDE DEF on
  <2> QED
    BY <1>0, <2>1
<1>3. CASE ArriveCreate(r)
  BY <1>0, <1>3 DEF ArriveCreate, AcceptCreate
<1>4. CASE ArriveMerge(r)
  BY <1>0, <1>4 DEF ArriveMerge, AcceptMerge
<1>5. CASE ArriveReassign(r)
  BY <1>0, <1>5 DEF ArriveReassign, AcceptReassign
<1>6. CASE ArriveDeactivate(r)
  BY <1>0, <1>6 DEF ArriveDeactivate, AcceptDeactivate
<1> QED
  BY <1>1, <1>2, <1>3, <1>4, <1>5, <1>6 DEF Arrive

\* What a step of request r leaves in its local variables for the next.
FewPicked(r) == Cardinality(job'[r].picked) <= IF job'[r].op = "create" THEN 2 ELSE 1

\* The steps that draw reviewers.
Draws(r) == CreatePickReviewers(r) \/ ReassignPick(r) \/ DeactivatePick(r)

\* All other steps keep those drawn, or nobody.
Keeps(r) ==
  \/ job'[r].picked = {}
  \/ job'[r].picked = job[r].picked /\ job'[r].op = job[r].op

\* A reply, or a user skipped.
LEMMA EndedKeeps ==
  ASSUME IInv, NEW r \in Requests, (\E code \in Codes : Reply(r, code)) \/ SkipUser(r)
  PROVE  Keeps(r)
<1>0. job \in [Requests -> Job] /\ job[r] \in Job
  BY DEF IInv, TypeOK
<1>1. CASE \E code \in Codes : Reply(r, code)
  BY <1>0, <1>1 DEF Reply, NoJob, Keeps
<1>2. CASE SkipUser(r)
  <2> DEFINE j == [job[r] EXCEPT !.skipped = @ \cup {job[r].user},
                                 !.work = [@ EXCEPT ![job[r].user] = {}]]
  <2>1. job' = [job EXCEPT ![r] = j] /\ j.picked = job[r].picked /\ j.op = job[r].op
    BY <1>0, <1>2 DEF SkipUser, Job
  <2> HIDE DEF j
  <2> QED
    BY <1>0, <2>1 DEF Keeps
<1> QED
  BY <1>1, <1>2

LEMMA PickedKinds ==
  ASSUME IInv, NEW r \in Requests, Arrive(r) \/ Step(r) \/ Failure(r)
  PROVE  Keeps(r) \/ Draws(r)
<1>0. job \in [Requests -> Job] /\ job[r] \in Job
  BY DEF IInv, TypeOK
<1> DEFINE Ended == (\E code \in Codes : Reply(r, code)) \/ SkipUser(r)
           Same == job'[r].picked = job[r].picked /\ job'[r].op = job[r].op
<1>1. CASE Ended
  BY <1>1, EndedKeeps
<1>2. CASE Same
  BY <1>2 DEF Keeps
<1>3. CASE Arrive(r)
  BY <1>3, ArrivesEmpty DEF Keeps
<1>4. CASE TeamStep(r)
  BY <1>0, <1>1, <1>2, <1>4
  DEF TeamStep, AddTeamCheckExists, AddTeamInsert, AddTeamUpsert, SetUserActivity, Codes, Job
<1>5. CASE CreateStep(r)
  BY <1>0, <1>1, <1>2, <1>5
  DEF CreateStep, CreateReadAuthor, CreateCheckExists, CreateInsertPR,
      CreateInsertReviewers, Codes, Job, db, Draws
<1>6. CASE MergeStep(r)
  BY <1>1, <1>2, <1>6 DEF MergeStep, MergeReadStatus, MergeUpdate, Codes
<1>7. CASE ReassignStep(r)
  BY <1>0, <1>1, <1>2, <1>7
  DEF ReassignStep, ReassignReadPR, ReassignReadReviewers, ReassignReadUser, Codes, Job, Draws
<1>8. CASE ReplaceStep(r)
  <2>1. CASE \E code \in Codes : ReplaceFails(r, code)
    BY <1>1, <2>1 DEF ReplaceFails
  <2>2. CASE ~ \E code \in Codes : ReplaceFails(r, code)
    <3>1. UNCHANGED job
      BY <1>8, <2>2
      DEF ReplaceStep, ReplaceReadStatus, ReplaceCheckAssigned, ReplaceDelete, ReplaceInsert,
          Codes
    <3> QED
      BY <1>2, <3>1
  <2> QED
    BY <2>1, <2>2
<1>9. CASE DeactivateStep(r)
  <2>1. CASE DeactivatePick(r)
    BY <2>1 DEF Draws
  <2>2. CASE DeactivateNextPR(r)
    <3>1. PICK u, p, w : job' = [job EXCEPT ![r] = [@ EXCEPT !.user = u, !.pr = p, !.work = w]]
      BY <2>2 DEF DeactivateNextPR
    <3> QED
      BY <1>0, <1>2, <3>1 DEF Job
  <2>3. CASE DeactivateReadTeam(r) \/ DeactivateTeamExists(r) \/ DeactivateFinish(r)
    BY <1>0, <1>1, <1>2, <2>3
    DEF DeactivateReadTeam, DeactivateTeamExists, DeactivateFinish, Codes, Job
  <2>4. CASE DeactivateUpdate(r)
    BY <1>0, <1>2, <2>4 DEF DeactivateUpdate, Job
  <2>5. CASE DeactivateListOpenPRs(r)
    BY <1>0, <1>2, <2>5 DEF DeactivateListOpenPRs, Job
  <2>6. CASE \/ DeactivateCommit(r) \/ DeactivateLoopEnds(r)
             \/ DeactivateReadPR(r) \/ DeactivateReadReviewers(r)
    BY <1>0, <1>2, <2>6
    DEF DeactivateCommit, DeactivateLoopEnds, DeactivateReadPR, DeactivateReadReviewers, Job
  <2> QED
    BY <1>9, <2>1, <2>2, <2>3, <2>4, <2>5, <2>6 DEF DeactivateStep
<1>10. CASE Commit(r) \/ ReadBack(r)
  BY <1>1, <1>2, <1>10 DEF Commit, ReadBack, Codes
<1>11. CASE Failure(r)
  BY <1>1, <1>11
  DEF Failure, CallError, DeactivateExpires, CommitAnswerLost, DeadlockAbort, CallFails, Codes
<1> QED
  BY <1>3, <1>4, <1>5, <1>6, <1>7, <1>8, <1>9, <1>10, <1>11 DEF Step

\* A creation draws at most two, a replacement at most one.
LEMMA DrawsFew ==
  ASSUME IInv, NEW r \in Requests, Draws(r)
  PROVE  Keeps(r) \/ FewPicked(r)
<1>0. job \in [Requests -> Job] /\ job[r] \in Job /\ Arguments(r)
  BY DEF IInv, TypeOK, RequestOK
<1>1. CASE CreatePickReviewers(r)
  <2>1. job[r].op = "create"
    BY <1>0, <1>1 DEF CreatePickReviewers, Arguments, OpsAt
  <2>2. PICK S \in RandomPicks(ActiveTeamMembers(job[r].team, {job[r].user}), 2) :
          job' = [job EXCEPT ![r].picked = S]
    BY <1>1 DEF CreatePickReviewers
  <2>3. Cardinality(S) <= 2
    BY PicksBounded
  <2> QED
    BY <1>0, <2>1, <2>2, <2>3 DEF FewPicked, Job
<1>2. ASSUME NEW candidates, NEW S \in RandomPicks(candidates, 1),
             job' = [job EXCEPT ![r].picked = S], job[r].op # "create"
      PROVE  FewPicked(r)
  <2>1. Cardinality(S) <= 1
    BY PicksBounded
  <2> QED
    BY <1>0, <1>2, <2>1 DEF FewPicked, Job
<1>3. CASE ReassignPick(r)
  <2>1. job[r].op # "create"
    BY <1>0, <1>3 DEF ReassignPick, Arguments, OpsAt
  <2> QED
    BY <1>2, <1>3, <2>1, EndedKeeps DEF ReassignPick, Codes
<1>4. CASE DeactivatePick(r)
  <2>1. job[r].op # "create"
    BY <1>0, <1>4 DEF DeactivatePick, Arguments, OpsAt
  <2> QED
    BY <1>2, <1>4, <2>1 DEF DeactivatePick
<1> QED
  BY <1>1, <1>3, <1>4 DEF Draws

\* Every step picks at most as many reviewers as there are slots.
LEMMA PickedStep ==
  ASSUME IInv, NEW r \in Requests, SlotsOK(r), Arrive(r) \/ Step(r) \/ Failure(r)
  PROVE  FewPicked(r)
<1>1. CASE job'[r].picked = {}
  <2>1. Cardinality({}) = 0
    BY FS_EmptySet
  <2> QED
    BY <1>1, <2>1 DEF FewPicked
<1>2. CASE job'[r].picked = job[r].picked /\ job'[r].op = job[r].op
  BY <1>2 DEF FewPicked, SlotsOK
<1> QED
  BY <1>1, <1>2, PickedKinds, DrawsFew DEF Keeps

------------------------------------------------------------------------------
\* The invariant SlotInv.

\* The seed satisfies it.
LEMMA InitSlotInv == Init => SlotInv
<1> SUFFICES ASSUME Init, NEW r \in Requests PROVE SlotsOK(r)
  BY DEF SlotInv
<1>1. job[r].picked = {} /\ job[r].op = "none" /\ tx[r].new = {} /\ tx[r].gone = {}
  BY DEF Init, NoJob, NoTx
<1>2. Cardinality(job[r].picked) = 0
  BY <1>1, FS_EmptySet
<1> QED
  BY <1>1, <1>2 DEF SlotsOK

\* What a step that writes about a PR inserts and deletes.
LEMMA WritesSlots ==
  ASSUME IInv, MergeInv, NEW r \in Requests, SlotsOK(r), Writes(r)
  PROVE  Clean(r) \/ (tx'[r].new \in {{}, job'[r].picked} /\ tx'[r].gone \subseteq {job'[r].user})
<1>0. /\ job \in [Requests -> Job] /\ tx \in [Requests -> TxState]
      /\ job[r] \in Job /\ tx[r] \in TxState /\ SessionOK(r)
  BY DEF IInv, TypeOK, MergeInv
<1>1. ASSUME NEW code \in Codes, Reply(r, code) \/ ReplaceFails(r, code) PROVE Clean(r)
  BY <1>0, <1>1 DEF ReplaceFails, Reply, SkipUser, Clean, NoTx
<1>2. CASE CreateInsertPR(r)
  <2>1. CASE Reply(r, "INTERNAL_ERROR")
    BY <1>1, <2>1 DEF Codes
  <2>2. CASE ~Reply(r, "INTERNAL_ERROR")
    <3>1. tx' = [tx EXCEPT ![r].pr = NewRow(r)] /\ UNCHANGED job
      BY <1>2, <2>2 DEF CreateInsertPR, NewRow
    <3> QED
      BY <1>0, <3>1 DEF TxState, SlotsOK
  <2> QED
    BY <2>1, <2>2
<1>3. CASE CreateInsertReviewers(r)
  BY <1>0, <1>3 DEF CreateInsertReviewers, TxState, SlotsOK
<1>4. CASE MergeUpdate(r)
  BY <1>0, <1>4 DEF MergeUpdate, TxState, SlotsOK
<1>5. CASE ReplaceDelete(r)
  BY <1>0, <1>5 DEF ReplaceDelete, TxState, SlotsOK, SessionOK
<1>6. CASE ReplaceInsert(r)
  <2>1. CASE \E code \in Codes : ReplaceFails(r, code)
    BY <1>1, <2>1
  <2>2. CASE ~ \E code \in Codes : ReplaceFails(r, code)
    <3>1. UNCHANGED job /\ tx' = [tx EXCEPT ![r].new = job[r].picked]
      BY <1>6, <2>2 DEF ReplaceInsert, Codes
    <3> QED
      BY <1>0, <3>1 DEF TxState, SlotsOK
  <2> QED
    BY <2>1, <2>2
<1> QED
  BY <1>2, <1>3, <1>4, <1>5, <1>6 DEF Writes

\* Every step preserves it.
LEMMA SlotInvNext == ASSUME IInv, MergeInv, SlotInv, [Next]_vars PROVE SlotInv'
<1>1. ASSUME NEW r \in Requests, Arrive(r) \/ Step(r) \/ Failure(r) PROVE SlotInv'
  <2>1. SlotsOK(r) /\ SessionOK(r) /\ Timed(r)
    BY DEF SlotInv, MergeInv
  <2>2. OnlyMoves(r) /\ (Clean(r) \/ Writes(r))
    BY <1>1, <2>1, ArriveClean, StepKinds
  <2>3. SlotsOK(r)'
    BY <1>1, <2>1, <2>2, PickedStep, WritesSlots DEF Clean, FewPicked, SlotsOK
  <2>4. ASSUME NEW s \in Requests \ {r} PROVE SlotsOK(s)'
    BY <2>2 DEF OnlyMoves, SlotInv, SlotsOK
  <2> QED
    BY <2>3, <2>4 DEF SlotInv
<1>2. CASE Crash
  <2> SUFFICES ASSUME NEW r \in Requests PROVE SlotsOK(r)'
    BY DEF SlotInv
  <2>1. tx'[r].new = {} /\ tx'[r].gone = {}
    BY <1>2 DEF Crash, NoTx
  <2>2. CASE job'[r] = job[r]
    BY <2>1, <2>2 DEF SlotInv, SlotsOK
  <2>3. CASE job'[r] = NoJob
    <3>1. job'[r].picked = {} /\ job'[r].op = "none"
      BY <2>3 DEF NoJob
    <3>2. Cardinality(job'[r].picked) = 0
      BY <3>1, FS_EmptySet
    <3> QED
      BY <2>1, <3>1, <3>2 DEF SlotsOK
  <2> QED
    BY <1>2, <2>2, <2>3 DEF Crash
<1>3. CASE Terminating \/ UNCHANGED vars
  BY <1>3 DEF Terminating, vars, SlotInv, SlotsOK
<1> QED
  BY <1>1, <1>2, <1>3 DEF Next

------------------------------------------------------------------------------
\* The invariant UserInv.

LEMMA InitUserInv == Init => UserInv
BY DEF Init, UserInv, UsersOK, WritesUsers, NoJob, NoTx

\* Most steps write no user and draw nobody.
LEMMA QuietUsers ==
  ASSUME NEW r, UsersOK(r), pc[r] \notin {"at_upsert", "md_update", "md_commit", "commit"},
         tx'[r].users = tx[r].users, job'[r].op = job[r].op, job'[r].picked = job[r].picked,
         \/ pc'[r] \notin {"md_team", "md_exists", "md_update", "md_commit"}
         \/ job[r].picked = {}
  PROVE  UsersOK(r)'
BY DEF UsersOK, WritesUsers

\* The end of a call, and every other call that leaves no open transaction.
LEMMA DoneUsers ==
  ASSUME NEW r, UsersOK(r), tx'[r] = NoTx,
         \/ job'[r].picked = {}
         \/ /\ job'[r].op = job[r].op /\ job'[r].picked = job[r].picked
            /\ pc'[r] \notin {"md_team", "md_exists", "md_update", "md_commit"}
  PROVE  UsersOK(r)'
BY DEF UsersOK, WritesUsers, NoTx

LEMMA EndedUsers ==
  ASSUME IInv, NEW r \in Requests, UsersOK(r),
         (\E code \in Codes : Reply(r, code)) \/ SkipUser(r)
  PROVE  UsersOK(r)'
<1>0. job \in [Requests -> Job] /\ job[r] \in Job /\ tx \in [Requests -> TxState]
      /\ pc \in [Requests -> Labels]
  BY DEF IInv, TypeOK
<1>1. CASE \E code \in Codes : Reply(r, code)
  BY <1>0, <1>1, DoneUsers DEF Reply, NoJob
<1>2. CASE SkipUser(r)
  <2> DEFINE j == [job[r] EXCEPT !.skipped = @ \cup {job[r].user},
                                 !.work = [@ EXCEPT ![job[r].user] = {}]]
  <2>1. job' = [job EXCEPT ![r] = j] /\ j.picked = job[r].picked /\ j.op = job[r].op
    BY <1>0, <1>2 DEF SkipUser, Job
  <2> HIDE DEF j
  <2>2. tx'[r] = NoTx /\ pc'[r] = "md_next"
    BY <1>0, <1>2 DEF SkipUser, Goto
  <2> QED
    BY <1>0, <2>1, <2>2, DoneUsers
<1> QED
  BY <1>1, <1>2

\* The request that moves.
LEMMA UsersOwn ==
  ASSUME IInv, NEW r \in Requests, UsersOK(r), Arrive(r) \/ Step(r) \/ Failure(r)
  PROVE  UsersOK(r)'
<1>0. /\ job \in [Requests -> Job] /\ tx \in [Requests -> TxState] /\ pc \in [Requests -> Labels]
      /\ job[r] \in Job /\ tx[r] \in TxState /\ Arguments(r)
  BY DEF IInv, TypeOK, RequestOK
<1>1. ASSUME NEW code \in Codes, Reply(r, code) PROVE UsersOK(r)'
  BY <1>1, EndedUsers
<1>2. ASSUME SkipUser(r) PROVE UsersOK(r)'
  BY <1>2, EndedUsers
<1>3. CASE Arrive(r)
  <2>1. pc[r] \in {"idle", "done"} /\ UNCHANGED tx
    BY <1>3
    DEF Arrive, ArriveAddTeam, ArriveSetActive, ArriveCreate, ArriveMerge, ArriveReassign,
        ArriveDeactivate, AcceptAddTeam, AcceptSetActive, AcceptCreate, AcceptMerge,
        AcceptReassign, AcceptDeactivate, Accept
  <2>2. job'[r].picked = {}
    BY <1>3, ArrivesEmpty
  <2> QED
    BY <2>1, <2>2 DEF UsersOK, WritesUsers
<1>4. CASE TeamStep(r)
  <2>1. CASE AddTeamUpsert(r)
    <3>1. PICK u \in job[r].ids : job' = [job EXCEPT ![r].ids = @ \ {u}]
      BY <2>1 DEF AddTeamUpsert
    <3>2. job[r].op = "add_team" /\ job[r].picked = {} /\ pc'[r] \in {"at_upsert", "commit"}
      BY <1>0, <2>1 DEF AddTeamUpsert, Arguments, OpsAt, UsersOK, Goto
    <3>3. job'[r].op = "add_team" /\ job'[r].picked = {}
      BY <1>0, <3>1, <3>2 DEF Job
    <3> QED
      BY <3>2, <3>3 DEF UsersOK
  <2>2. CASE AddTeamInsert(r)
    <3>1. CASE Reply(r, "INTERNAL_ERROR")
      BY <1>1, <3>1 DEF Codes
    <3>2. CASE ~Reply(r, "INTERNAL_ERROR")
      <4>1. tx' = [tx EXCEPT ![r].team = job[r].team] /\ UNCHANGED job
            /\ pc[r] = "at_insert" /\ pc'[r] \in {"commit", "at_upsert"}
        BY <1>0, <2>2, <3>2 DEF AddTeamInsert, Goto
      <4> QED
        BY <1>0, <4>1, QuietUsers DEF TxState
    <3> QED
      BY <3>1, <3>2
  <2>3. CASE AddTeamCheckExists(r) \/ SetUserActivity(r)
    BY <1>0, <1>1, <2>3, QuietUsers DEF AddTeamCheckExists, SetUserActivity, Goto, Codes
  <2> QED
    BY <1>4, <2>1, <2>2, <2>3 DEF TeamStep
<1>5. CASE CreateStep(r)
  <2>1. CASE CreatePickReviewers(r)
    <3>1. pc[r] = "cp_candidates" /\ pc'[r] = "cp_exists" /\ UNCHANGED tx
          /\ \E S : job' = [job EXCEPT ![r].picked = S]
      BY <1>0, <2>1 DEF CreatePickReviewers, Goto
    <3>2. job'[r].op = "create"
      BY <1>0, <3>1 DEF Arguments, OpsAt, Job
    <3> QED
      BY <3>1, <3>2 DEF UsersOK, WritesUsers
  <2>2. CASE CreateReadAuthor(r)
    <3>1. CASE Reply(r, "NOT_FOUND")
      BY <1>1, <3>1 DEF Codes
    <3>2. CASE ~Reply(r, "NOT_FOUND")
      <4>1. /\ UNCHANGED tx /\ pc[r] = "cp_author" /\ pc'[r] = "cp_candidates"
            /\ \E t : job' = [job EXCEPT ![r].team = t]
        BY <1>0, <2>2, <3>2 DEF CreateReadAuthor, Goto
      <4>2. job'[r].op = job[r].op /\ job'[r].picked = job[r].picked
        BY <1>0, <4>1 DEF Job
      <4> QED
        BY <4>1, <4>2, QuietUsers
    <3> QED
      BY <3>1, <3>2
  <2>3. CASE CreateCheckExists(r)
    BY <1>0, <1>1, <2>3, QuietUsers DEF CreateCheckExists, Goto, Codes
  <2>4. CASE CreateInsertPR(r)
    <3>1. CASE Reply(r, "INTERNAL_ERROR")
      BY <1>1, <3>1 DEF Codes
    <3>2. CASE ~Reply(r, "INTERNAL_ERROR")
      <4>1. tx' = [tx EXCEPT ![r].pr = NewRow(r)] /\ UNCHANGED job
            /\ pc[r] = "cp_insert" /\ pc'[r] = "cp_reviewers"
        BY <1>0, <2>4, <3>2 DEF CreateInsertPR, Goto, NewRow
      <4> QED
        BY <1>0, <4>1, QuietUsers DEF TxState
    <3> QED
      BY <3>1, <3>2
  <2>5. CASE CreateInsertReviewers(r)
    BY <1>0, <2>5, QuietUsers DEF CreateInsertReviewers, Goto, TxState
  <2> QED
    BY <1>5, <2>1, <2>2, <2>3, <2>4, <2>5 DEF CreateStep
<1>6. CASE MergeStep(r)
  <2>1. CASE MergeReadStatus(r)
    BY <1>0, <1>1, <2>1, QuietUsers DEF MergeReadStatus, Goto, Codes
  <2>2. CASE MergeUpdate(r)
    BY <1>0, <2>2, QuietUsers DEF MergeUpdate, Goto, TxState
  <2> QED
    BY <1>6, <2>1, <2>2 DEF MergeStep
\* One replacement is picked.
<1>7. ASSUME NEW S, job' = [job EXCEPT ![r].picked = S], UNCHANGED tx,
             pc[r] \in {"ra_candidates", "md_candidates"}, pc'[r] = "rp_status"
      PROVE  UsersOK(r)'
  <2>1. job'[r].op \in {"reassign", "deactivate"}
    BY <1>0, <1>7 DEF Arguments, OpsAt, Job
  <2> QED
    BY <1>7, <2>1 DEF UsersOK, WritesUsers
<1>8. CASE ReassignStep(r)
  <2>1. CASE ReassignReadPR(r)
    <3>1. CASE \E code \in Codes : Reply(r, code)
      BY <1>1, <3>1
    <3>2. CASE ~ \E code \in Codes : Reply(r, code)
      <4>1. /\ UNCHANGED tx /\ pc[r] = "ra_pr" /\ pc'[r] = "ra_reviewers"
            /\ \E a : job' = [job EXCEPT ![r].author = a]
        BY <1>0, <2>1, <3>2 DEF ReassignReadPR, Goto, Codes
      <4>2. job'[r].op = job[r].op /\ job'[r].picked = job[r].picked
        BY <1>0, <4>1 DEF Job
      <4> QED
        BY <4>1, <4>2, QuietUsers
    <3> QED
      BY <3>1, <3>2
  <2>2. CASE ReassignReadReviewers(r)
    <3>1. CASE Reply(r, "NOT_ASSIGNED")
      BY <1>1, <3>1 DEF Codes
    <3>2. CASE ~Reply(r, "NOT_ASSIGNED")
      <4>1. /\ UNCHANGED tx /\ pc[r] = "ra_reviewers" /\ pc'[r] = "ra_user"
            /\ \E seen : job' = [job EXCEPT ![r].seen = seen]
        BY <1>0, <2>2, <3>2 DEF ReassignReadReviewers, Goto
      <4>2. job'[r].op = job[r].op /\ job'[r].picked = job[r].picked
        BY <1>0, <4>1 DEF Job
      <4> QED
        BY <4>1, <4>2, QuietUsers
    <3> QED
      BY <3>1, <3>2
  <2>3. CASE ReassignReadUser(r)
    BY <1>0, <2>3, QuietUsers DEF ReassignReadUser, Goto, Job
  <2>4. CASE ReassignPick(r)
    BY <1>0, <1>1, <1>7, <2>4 DEF ReassignPick, Goto, Codes
  <2> QED
    BY <1>8, <2>1, <2>2, <2>3, <2>4 DEF ReassignStep
<1>9. CASE ReplaceStep(r)
  <2>1. CASE \E code \in Codes : ReplaceFails(r, code)
    BY <1>1, <1>2, <2>1 DEF ReplaceFails
  <2>2. CASE (ReplaceReadStatus(r) \/ ReplaceCheckAssigned(r))
             /\ ~ \E code \in Codes : ReplaceFails(r, code)
    BY <1>0, <2>2, QuietUsers DEF ReplaceReadStatus, ReplaceCheckAssigned, Goto, Codes
  <2>3. CASE ReplaceDelete(r)
    BY <1>0, <2>3, QuietUsers DEF ReplaceDelete, Goto, TxState
  <2>4. CASE ReplaceInsert(r) /\ ~ \E code \in Codes : ReplaceFails(r, code)
    <3>1. tx' = [tx EXCEPT ![r].new = job[r].picked] /\ UNCHANGED job
          /\ pc[r] = "rp_insert" /\ pc'[r] = "commit"
      BY <1>0, <2>4 DEF ReplaceInsert, Goto, Codes
    <3> QED
      BY <1>0, <3>1, QuietUsers DEF TxState
  <2> QED
    BY <1>9, <2>1, <2>2, <2>3, <2>4 DEF ReplaceStep
<1>10. CASE DeactivateStep(r)
  <2>1. CASE DeactivateReadTeam(r)
    <3>1. CASE \E code \in Codes : Reply(r, code)
      BY <1>1, <3>1
    <3>2. CASE ~ \E code \in Codes : Reply(r, code)
      <4>1. pc[r] = "md_team" /\ UNCHANGED tx /\ job'[r].op = job[r].op
            /\ job'[r].picked = job[r].picked
        BY <1>0, <2>1, <3>2 DEF DeactivateReadTeam, Codes, Job
      <4>2. job[r].picked = {}
        BY <4>1 DEF UsersOK
      <4> QED
        BY <4>1, <4>2, QuietUsers
    <3> QED
      BY <3>1, <3>2
  <2>2. CASE DeactivateTeamExists(r) \/ DeactivateFinish(r)
    BY <1>1, <2>2 DEF DeactivateTeamExists, DeactivateFinish, Codes
  <2>3. CASE DeactivateUpdate(r)
    <3>1. PICK u \in job[r].ids : job' = [job EXCEPT ![r].ids = @ \ {u}]
      BY <2>3 DEF DeactivateUpdate
    <3>2. job[r].picked = {} /\ pc'[r] \in {"md_update", "md_commit"}
      BY <1>0, <2>3 DEF DeactivateUpdate, UsersOK, Goto
    <3>3. job'[r].picked = {}
      BY <1>0, <3>1, <3>2 DEF Job
    <3> QED
      BY <3>2, <3>3 DEF UsersOK
  <2>4. CASE DeactivateCommit(r)
    BY <1>0, <2>4, DoneUsers DEF DeactivateCommit, Publish, Goto
  <2>5. CASE DeactivateNextPR(r)
    <3>1. /\ pc[r] = "md_next" /\ pc'[r] = "md_pr" /\ UNCHANGED tx
          /\ \E u, p, w : job' = [job EXCEPT ![r] = [@ EXCEPT !.user = u, !.pr = p, !.work = w]]
      BY <1>0, <2>5 DEF DeactivateNextPR, Goto
    <3>2. job'[r].op = job[r].op /\ job'[r].picked = job[r].picked
      BY <1>0, <3>1 DEF Job
    <3> QED
      BY <3>1, <3>2, QuietUsers
  <2>6. CASE DeactivateListOpenPRs(r)
    <3>1. /\ UNCHANGED tx /\ pc[r] = "md_list" /\ pc'[r] = "md_next"
          /\ \E w : job' = [job EXCEPT ![r].work = w]
      BY <1>0, <2>6 DEF DeactivateListOpenPRs, Goto
    <3>2. job'[r].op = job[r].op /\ job'[r].picked = job[r].picked
      BY <1>0, <3>1 DEF Job
    <3> QED
      BY <3>1, <3>2, QuietUsers
  <2>7. CASE DeactivateLoopEnds(r) \/ DeactivateReadPR(r) \/ DeactivateReadReviewers(r)
    <3>1. /\ UNCHANGED tx /\ pc[r] \in {"md_next", "md_pr", "md_reviewers"}
          /\ pc'[r] \in {"md_finish", "md_reviewers", "md_candidates"}
      BY <1>0, <2>7 DEF DeactivateLoopEnds, DeactivateReadPR, DeactivateReadReviewers, Goto
    <3>2. job'[r].op = job[r].op /\ job'[r].picked = job[r].picked
      BY <1>0, <2>7
      DEF DeactivateLoopEnds, DeactivateReadPR, DeactivateReadReviewers, Job
    <3> QED
      BY <3>1, <3>2, QuietUsers
  <2>8. CASE DeactivatePick(r)
    BY <1>0, <1>7, <2>8 DEF DeactivatePick, Goto
  <2> QED
    BY <1>10, <2>1, <2>2, <2>3, <2>4, <2>5, <2>6, <2>7, <2>8 DEF DeactivateStep
<1>11. CASE Commit(r)
  BY <1>0, <1>11, DoneUsers DEF Commit, Publish, Goto
<1>12. CASE ReadBack(r)
  BY <1>0, <1>1, <1>12, QuietUsers DEF ReadBack, Goto, Codes
<1>13. CASE Failure(r)
  BY <1>1, <1>2, <1>13
  DEF Failure, CallError, DeactivateExpires, CommitAnswerLost, DeadlockAbort, CallFails, Codes
<1> QED
  BY <1>3, <1>4, <1>5, <1>6, <1>8, <1>9, <1>10, <1>11, <1>12, <1>13 DEF Step

\* Every step preserves it.
LEMMA UserInvNext == ASSUME IInv, MergeInv, UserInv, [Next]_vars PROVE UserInv'
<1>1. ASSUME NEW r \in Requests, Arrive(r) \/ Step(r) \/ Failure(r) PROVE UserInv'
  <2>1. UsersOK(r) /\ SessionOK(r) /\ Timed(r)
    BY DEF UserInv, MergeInv
  <2>2. OnlyMoves(r)
    BY <1>1, <2>1, ArriveClean, StepKinds
  <2>3. UsersOK(r)'
    BY <1>1, <2>1, UsersOwn
  <2>4. ASSUME NEW s \in Requests \ {r} PROVE UsersOK(s)'
    BY <2>2 DEF OnlyMoves, UserInv, UsersOK, WritesUsers
  <2> QED
    BY <2>3, <2>4 DEF UserInv
<1>2. CASE Crash
  <2> SUFFICES ASSUME NEW r \in Requests PROVE UsersOK(r)'
    BY DEF UserInv
  <2>1. ~WritesUsers(r)'
    BY <1>2 DEF Crash, WritesUsers, NoTx
  <2>2. CASE pc[r] = "done"
    <3>1. job'[r] = job[r] /\ pc'[r] = pc[r]
      BY <1>2, <2>2 DEF Crash
    <3> QED
      BY <2>1, <3>1 DEF UserInv, UsersOK
  <2>3. CASE pc[r] # "done"
    BY <1>2, <2>1, <2>3 DEF Crash, NoJob, UsersOK
  <2> QED
    BY <2>2, <2>3
<1>3. CASE Terminating \/ UNCHANGED vars
  BY <1>3 DEF Terminating, vars, UserInv, UsersOK, WritesUsers
<1> QED
  BY <1>1, <1>2, <1>3 DEF Next

------------------------------------------------------------------------------
\* The inductive invariant behind the theorems.
THEOREM StrongInvariant == Spec => []StrongInv
<1>1. Init => StrongInv
  BY InitInv, InitMergeInv, InitAuditInv, InitSlotInv, InitReplyInv, InitUserInv
  DEF StrongInv
<1>2. StrongInv /\ [Next]_vars => StrongInv'
  BY NextInv, MergeInvNext, AuditInvNext, SlotInvNext, ReplyInvNext, UserInvNext DEF StrongInv
<1> QED
  BY <1>1, <1>2, PTL DEF Spec

------------------------------------------------------------------------------
\* Deadlocks.

\* A session that has to wait, and the session that holds what it waits for.
LEMMA WaitedFor ==
  ASSUME StrongInv, NEW r \in Requests, NEW s \in Requests, Waits(r, s)
  PROVE  \/ pc[r] = "at_insert" /\ pc[s] \in {"at_upsert", "commit"}
         \/ /\ pc[r] \in {"at_upsert", "md_update"}
            /\ pc[s] \in {"at_upsert", "md_update", "md_commit", "commit"}
         \/ pc[r] \in {"cp_insert", "mg_update"} /\ pc[s] \in {"cp_reviewers", "commit"}
         \/ /\ pc[r] \in {"rp_delete", "rp_insert"} /\ pc[s] \in {"rp_insert", "commit"}
            /\ job[r].pr = job[s].pr
<1>0. /\ Arguments(r) /\ Written(s) /\ SessionOK(s) /\ ReplyOK(s) /\ UsersOK(s)
      /\ job[r] \in Job
  BY DEF StrongInv, IInv, RequestOK, MergeInv, ReplyInv, UserInv, TypeOK
<1>1. CASE pc[r] = "at_insert"
  <2>1. tx[s].team = job[r].team
    BY <1>1 DEF Waits, HoldsTeam
  <2>2. tx[s].team # Null
    BY <1>0, <1>1, <2>1, NullAssumption DEF Arguments, OpsAt
  <2> QED
    BY <1>0, <1>1, <2>2 DEF ReplyOK
<1>2. CASE pc[r] \in {"at_upsert", "md_update"}
  <2>1. \E u \in job[r].ids : tx[s].users[u] # Null
    BY <1>2 DEF Waits, HoldsUser
  <2>2. WritesUsers(s)
    BY <1>0, <2>1 DEF WritesUsers, Job
  <2> QED
    BY <1>0, <1>2, <2>2 DEF UsersOK
<1>3. CASE pc[r] \in {"cp_insert", "mg_update"}
  BY <1>0, <1>3 DEF Waits, HoldsPR, Written
<1>4. CASE pc[r] \in {"rp_delete", "rp_insert"}
  <2>1. job[s].pr = job[r].pr /\ tx[s].gone \cup tx[s].new # {}
    BY <1>4 DEF Waits, HoldsReviewer
  <2> QED
    BY <1>0, <1>4, <2>1 DEF SessionOK
<1> QED
  BY <1>1, <1>2, <1>3, <1>4 DEF Waits

\* Only two kinds of cycle are there for the deadlock detector to break: team creations
\* and mass deactivations that update the same users in different orders, and
\* replacements in one PR (CreateTeam, DeactivateUsers, ReplaceReviewer).
THEOREM DeadlocksAreOfTwoKinds == Spec => []DeadlocksAreLocal
<1>1. ASSUME StrongInv, NEW r \in Requests, InDeadlock(r)
      PROVE  \E s \in Requests \ {r} :
               \/ {pc[r], pc[s]} \subseteq {"at_upsert", "md_update"}
               \/ pc[r] = "rp_insert" /\ pc[s] = "rp_insert" /\ job[r].pr = job[s].pr
  <2>1. PICK D \in SUBSET Requests :
          r \in D /\ \A s \in D : (\E t \in D : Waits(s, t)) /\ (\E t \in D : Waits(t, s))
    BY <1>1 DEF InDeadlock
  <2>2. ASSUME NEW s \in D PROVE pc[s] \in {"at_upsert", "md_update", "rp_insert"}
    <3>1. PICK t \in D, q \in D : Waits(s, t) /\ Waits(q, s)
      BY <2>1
    <3>2. s \in Requests /\ t \in Requests /\ q \in Requests
      BY <2>1
    <3> QED
      BY <1>1, <3>1, <3>2, WaitedFor
  <2>3. PICK s \in D : Waits(r, s)
    BY <2>1
  <2>4. s \in Requests \ {r}
    BY <2>1, <2>3 DEF Waits
  <2>5. pc[r] \in {"at_upsert", "md_update", "rp_insert"}
        /\ pc[s] \in {"at_upsert", "md_update", "rp_insert"}
    BY <2>1, <2>2
  <2>6. \/ {pc[r], pc[s]} \subseteq {"at_upsert", "md_update"}
        \/ pc[r] = "rp_insert" /\ pc[s] = "rp_insert" /\ job[r].pr = job[s].pr
    BY <1>1, <2>3, <2>4, <2>5, WaitedFor
  <2> QED
    BY <2>4, <2>6
<1>2. StrongInv => DeadlocksAreLocal
  BY <1>1 DEF DeadlocksAreLocal
<1> QED
  BY <1>2, StrongInvariant, PTL

------------------------------------------------------------------------------
\* The steps of the service, seen as steps of PRLifecycle.

\* The instance counts as this module does.
LEMMA SameCardinality == ASSUME NEW S PROVE Lifecycle!Cardinality(S) = Cardinality(S)
BY DEF Lifecycle!Cardinality, Cardinality

Admissions == [p \in PRIDs |-> {r \in Requests : Admitted(r, p)}]

\* Where a session that commits is, and where it is afterwards.
LEMMA PublishEnds ==
  ASSUME IInv, NEW r \in Requests, Arrive(r) \/ Step(r) \/ Failure(r), ~RowsStay
  PROVE  /\ pc[r] \in {"commit", "md_commit"}
         /\ pc'[r] \in {"readback", "md_list", "md_next", "done"}
<1>0. pc \in [Requests -> Labels]
  BY DEF IInv, TypeOK
<1> USE DEF RowsStay, db
<1>1. ~Arrive(r)
  BY DEF Arrive, ArriveAddTeam, ArriveSetActive, ArriveCreate, ArriveMerge, ArriveReassign,
         ArriveDeactivate, AcceptAddTeam, AcceptSetActive, AcceptCreate, AcceptMerge,
         AcceptReassign, AcceptDeactivate, Accept
<1>2. ~TeamStep(r)
  BY DEF TeamStep, AddTeamCheckExists, AddTeamInsert, AddTeamUpsert, SetUserActivity
<1>3. ~CreateStep(r)
  BY DEF CreateStep, CreateReadAuthor, CreatePickReviewers, CreateCheckExists,
         CreateInsertPR, CreateInsertReviewers
<1>4. ~MergeStep(r)
  BY DEF MergeStep, MergeReadStatus, MergeUpdate
<1>5. ~ReassignStep(r)
  BY DEF ReassignStep, ReassignReadPR, ReassignReadReviewers, ReassignReadUser, ReassignPick
<1>6. ~ReplaceStep(r)
  BY DEF ReplaceStep, ReplaceReadStatus, ReplaceCheckAssigned, ReplaceDelete, ReplaceInsert
<1>7. ASSUME DeactivateStep(r) PROVE DeactivateCommit(r)
  BY <1>7
  DEF DeactivateStep, DeactivateReadTeam, DeactivateTeamExists, DeactivateUpdate,
      DeactivateListOpenPRs, DeactivateNextPR, DeactivateLoopEnds, DeactivateReadPR,
      DeactivateReadReviewers, DeactivatePick, DeactivateFinish
<1>8. ASSUME Failure(r) PROVE CommitAnswerLost(r)
  BY <1>8 DEF Failure, CallError, DeactivateExpires, DeadlockAbort
<1>9. ~ReadBack(r)
  BY DEF ReadBack
<1>10. CASE Commit(r) \/ DeactivateCommit(r)
  BY <1>0, <1>10 DEF Commit, DeactivateCommit, Goto
<1>11. CASE CommitAnswerLost(r)
  BY <1>0, <1>11 DEF CommitAnswerLost, CallFails, Reply, SkipUser, Goto
<1> QED
  BY <1>1, <1>2, <1>3, <1>4, <1>5, <1>6, <1>7, <1>8, <1>9, <1>10, <1>11 DEF Step

\* Admissions of the other requests are not touched, those of r may be over.
LEMMA AdmissionsShrink ==
  ASSUME NEW r \in Requests, OnlyMoves(r),
         \A p \in PRIDs : Admitted(r, p)' => Admitted(r, p)
  PROVE  /\ Admissions' \in [PRIDs -> SUBSET Requests]
         /\ \A p \in PRIDs : Admissions'[p] \subseteq Admissions[p]
<1>1. ASSUME NEW s \in Requests, NEW p \in PRIDs, Admitted(s, p)' PROVE Admitted(s, p)
  BY <1>1 DEF OnlyMoves, Admitted
<1> QED
  BY <1>1 DEF Admissions

\* A step that does not commit: r is admitted, or admissions end.
LEMMA QuietLifecycleStep ==
  ASSUME IInv, MergeInv, NEW r \in Requests, Arrive(r) \/ Step(r) \/ Failure(r),
         OnlyMoves(r), RowsStay
  PROVE  Lifecycle!Next
<1>0. UNCHANGED <<prs, reviewers>>
  BY DEF RowsStay
<1>1. CASE \A p \in PRIDs : Admitted(r, p)' => Admitted(r, p)
  <2>1. Lifecycle!Withdraw
    BY <1>0, <1>1, AdmissionsShrink DEF Lifecycle!Withdraw, Admissions
  <2> QED
    BY <2>1 DEF Lifecycle!Next
<1>2. ASSUME NEW p \in PRIDs, Admitted(r, p)', ~Admitted(r, p)
      PROVE  Lifecycle!Next
  <2>1. ReplaceReadStatus(r) /\ job[r].pr = p /\ prs[p].status # "MERGED"
    BY <1>2, AdmissionChecked
  <2>2. Exists(p) /\ prs[p].status = "OPEN"
    <3>1. pc[r] = "rp_status" /\ RequestOK(r)
      BY <2>1 DEF ReplaceReadStatus, IInv
    <3>2. Exists(p)
      BY <2>1, <3>1 DEF RequestOK, ReadsLast, Found, Replacing
    <3>3. prs[p] \in PRRow
      BY <3>2 DEF Exists, IInv, TypeOK, PRTable
    <3> QED
      BY <2>1, <3>2, <3>3 DEF PRRow
  <2>3. job'[r].pr = p
    BY <1>2 DEF Admitted
  <2>4. ASSUME NEW q \in PRIDs, q # p PROVE ~Admitted(r, q)' /\ ~Admitted(r, q)
    BY <2>1, <2>3, <2>4 DEF Admitted
  <2>5. ASSUME NEW q \in PRIDs, NEW s \in Requests \ {r}
        PROVE  Admitted(s, q)' <=> Admitted(s, q)
    BY DEF OnlyMoves, Admitted
  <2>6. Admissions' = [Admissions EXCEPT ![p] = @ \cup {r}]
    BY <1>2, <2>4, <2>5 DEF Admissions
  <2>7. Lifecycle!Admit(p, r)
    BY <1>0, <2>2, <2>6 DEF Lifecycle!Admit, Admissions, Exists
  <2> QED
    BY <2>7 DEF Lifecycle!Next
<1> QED
  BY <1>1, <1>2

\* A session that commits is not admitted any more.
LEMMA PublishWithdraws ==
  ASSUME IInv, NEW r \in Requests, Arrive(r) \/ Step(r) \/ Failure(r), OnlyMoves(r), ~RowsStay
  PROVE  /\ \A q \in PRIDs : ~Admitted(r, q)'
         /\ \A q \in PRIDs, s \in Requests \ {r} : Admitted(s, q)' <=> Admitted(s, q)
<1>1. pc'[r] \in {"readback", "md_list", "md_next", "done"}
  BY PublishEnds
<1> QED
  BY <1>1 DEF OnlyMoves, Admitted

\* The commit of a creation opens the PR.
LEMMA PublishOpens ==
  ASSUME StrongInv, NEW r \in Requests, Publish(r), job[r].op = "create", tx[r].pr # Null,
         Admissions' = Admissions
  PROVE  Lifecycle!Open(job[r].pr)
<1> DEFINE p == job[r].pr
<1>1. RequestOK(r) /\ SessionOK(r) /\ RowFollows(r) /\ SlotsOK(r) /\ tx[r] \in TxState
  BY DEF StrongInv, IInv, MergeInv, SlotInv, TypeOK
<1>2. p \in PRIDs /\ pc[r] \in {"cp_reviewers", "commit"} /\ ~Exists(p)
      /\ tx[r].pr = NewRow(r) /\ job[r].user \in UserIDs
  BY <1>1 DEF RequestOK, Written, RowFollows, Arguments
<1>3. tx[r].gone = {} /\ job[r].user \notin tx[r].new /\ tx[r].new \in SUBSET UserIDs
  BY <1>1 DEF SessionOK, RequestOK, Written, TxState
<1>4. Cardinality(tx[r].new) <= 2
  <2>1. CASE tx[r].new = {}
    <3>1. Cardinality(tx[r].new) = 0
      BY <2>1, FS_EmptySet
    <3> QED
      BY <3>1
  <2>2. CASE tx[r].new = job[r].picked
    BY <1>1, <2>2 DEF SlotsOK
  <2> QED
    BY <1>1, <2>1, <2>2 DEF SlotsOK
<1>5. reviewers[p] = {}
  BY <1>2 DEF StrongInv, IInv, ForeignKeysHold
<1>6. prs' = [prs EXCEPT ![p] = [status |-> "OPEN", author |-> job[r].user, mergedAt |-> 0]]
  <2>1. prs \in [PRIDs -> PRRow \cup {Null}]
    BY DEF StrongInv, IInv, TypeOK, PRTable
  <2>2. prs' = [prs EXCEPT ![p] = tx[r].pr]
    BY <1>2, <2>1 DEF Publish, HoldsPR
  <2> QED
    BY <1>2, <2>2 DEF NewRow
<1>7. reviewers' = [reviewers EXCEPT ![p] = tx[r].new]
  <2>1. reviewers \in [PRIDs -> SUBSET UserIDs]
    BY DEF StrongInv, IInv, TypeOK, ReviewerTable
  <2> QED
    BY <1>3, <1>5, <2>1 DEF Publish
<1> QED
  BY <1>2, <1>3, <1>4, <1>6, <1>7, SameCardinality DEF Lifecycle!Open, Exists, Admissions

\* The commit of a merge merges it.
LEMMA PublishMerges ==
  ASSUME StrongInv, NEW r \in Requests, Publish(r), job[r].op = "merge", tx[r].pr # Null,
         ~Merged(job[r].pr), Admissions' = Admissions
  PROVE  Lifecycle!Merge(job[r].pr)
<1> DEFINE p == job[r].pr
<1>1. RequestOK(r) /\ SessionOK(r) /\ RowFollows(r) /\ tx[r] \in TxState
  BY DEF StrongInv, IInv, MergeInv, TypeOK
<1>2. p \in PRIDs /\ Exists(p) /\ tx[r].pr = MergedRow(r, p) /\ HoldsPR(r, p)
  BY <1>1 DEF RequestOK, Written, RowFollows, HoldsPR
<1>3. prs[p] \in PRRow /\ prs \in [PRIDs -> PRRow \cup {Null}]
  BY <1>2 DEF Exists, StrongInv, IInv, TypeOK, PRTable
<1>4. prs[p].status = "OPEN"
  BY <1>2, <1>3 DEF Merged, PRRow
<1>5. tx[r].pr.mergedAt # 0
  BY <1>2, PublishedRow DEF StrongInv
<1>6. prs' = [prs EXCEPT ![p] = MergedRow(r, p)] /\ prs'[p] = MergedRow(r, p)
  BY <1>2, <1>3 DEF Publish, HoldsPR
<1>7. MergedRow(r, p) = [prs[p] EXCEPT !.status = "MERGED", !.mergedAt = prs'[p].mergedAt]
  BY <1>3, <1>6 DEF MergedRow, PRRow
<1>8. UNCHANGED reviewers
  <2>1. tx[r].gone = {} /\ tx[r].new = {}
    BY <1>1 DEF SessionOK
  <2> QED
    BY <2>1 DEF Publish, StrongInv, IInv, TypeOK, ReviewerTable
<1> QED
  BY <1>2, <1>4, <1>5, <1>6, <1>7, <1>8 DEF Lifecycle!Merge, Exists, Admissions

\* The commit of a replacement uses up its admission.
LEMMA PublishReplaces ==
  ASSUME StrongInv, NEW r \in Requests, Publish(r), pc[r] = "commit",
         job[r].op \in {"reassign", "deactivate"},
         Admissions' = [Admissions EXCEPT ![job[r].pr] = @ \ {r}]
  PROVE  Lifecycle!Replace(job[r].pr, r)
<1> DEFINE p == job[r].pr
<1>1. RequestOK(r) /\ SlotsOK(r) /\ tx[r] \in TxState /\ job[r] \in Job
  BY DEF StrongInv, IInv, SlotInv, TypeOK
<1>2. p \in PRIDs /\ job[r].user \in UserIDs
  BY <1>1 DEF RequestOK, Arguments, InLoop
<1>3. r \in Admissions[p]
  BY <1>2 DEF Admissions, Admitted
<1>4. UNCHANGED prs
  <2>1. tx[r].pr = Null
    BY <1>1 DEF RequestOK, Written
  <2> QED
    BY <2>1 DEF Publish, HoldsPR, StrongInv, IInv, TypeOK, PRTable
<1> DEFINE leaves == tx[r].gone \cap reviewers[p]
           joins == tx[r].new
<1>5. leaves \in {{}} \cup {{u} : u \in reviewers[p]}
  BY <1>1 DEF SlotsOK
<1>6. joins \in SUBSET (UserIDs \ ({prs[p].author} \cup reviewers[p]))
  <2>1. joins \cap reviewers[p] = {}
    BY <1>2 DEF StrongInv, AuditInv, KeysDisjoint
  <2>2. prs[p].author \notin joins
    BY <1>1 DEF RequestOK, Written
  <2> QED
    BY <1>1, <2>1, <2>2 DEF TxState
<1>7. Cardinality(joins) <= 1
  <2>1. CASE joins = {}
    <3>1. Cardinality(joins) = 0
      BY <2>1, FS_EmptySet
    <3> QED
      BY <3>1
  <2>2. CASE joins = job[r].picked
    BY <1>1, <2>2 DEF SlotsOK
  <2> QED
    BY <1>1, <2>1, <2>2 DEF SlotsOK
<1>8. reviewers' = [reviewers EXCEPT ![p] = (@ \ leaves) \cup joins]
  <2>1. reviewers \in [PRIDs -> SUBSET UserIDs]
    BY DEF StrongInv, IInv, TypeOK, ReviewerTable
  <2>2. (reviewers[p] \ leaves) \cup joins = (reviewers[p] \ tx[r].gone) \cup tx[r].new
    OBVIOUS
  <2> QED
    BY <1>2, <2>1, <2>2 DEF Publish
<1> HIDE DEF leaves, joins
<1> QED
  BY <1>3, <1>4, <1>5, <1>6, <1>7, <1>8, SameCardinality DEF Lifecycle!Replace, Admissions

\* Any other commit leaves the PRs alone.
LEMMA PublishNothing ==
  ASSUME StrongInv, NEW r \in Requests, Publish(r), pc[r] \in {"commit", "md_commit"},
         tx[r].pr = Null \/ (job[r].op = "merge" /\ Merged(job[r].pr)),
         pc[r] = "commit" => job[r].op \notin {"reassign", "deactivate"}
  PROVE  UNCHANGED <<prs, reviewers>>
<1>1. RequestOK(r) /\ SessionOK(r)
  BY DEF StrongInv, IInv, MergeInv
<1>2. tx[r].gone = {} /\ tx[r].new = {}
  BY <1>1 DEF SessionOK, RequestOK, Written
<1>3. UNCHANGED reviewers
  BY <1>2 DEF Publish, StrongInv, IInv, TypeOK, ReviewerTable
<1>4. ASSUME NEW p \in PRIDs, HoldsPR(r, p) PROVE tx[r].pr = prs[p]
  <2>1. job[r].op = "merge" /\ Merged(p)
    BY <1>4 DEF HoldsPR
  <2> QED
    BY <1>4, <2>1, PublishedRow DEF StrongInv
<1>5. UNCHANGED prs
  BY <1>4 DEF Publish, StrongInv, IInv, TypeOK, PRTable
<1> QED
  BY <1>3, <1>5

\* A step that commits.
LEMMA PublishLifecycleStep ==
  ASSUME StrongInv, NEW r \in Requests, Arrive(r) \/ Step(r) \/ Failure(r),
         OnlyMoves(r), Publish(r), ~RowsStay
  PROVE  Lifecycle!Next
<1> DEFINE p == job[r].pr
<1>0. IInv /\ RequestOK(r) /\ pc[r] \in {"commit", "md_commit"}
  BY PublishEnds DEF StrongInv, IInv
<1>1. /\ \A q \in PRIDs : ~Admitted(r, q)'
      /\ \A q \in PRIDs, s \in Requests \ {r} : Admitted(s, q)' <=> Admitted(s, q)
  BY <1>0, PublishWithdraws
<1>2. CASE pc[r] = "commit" /\ job[r].op \in {"reassign", "deactivate"}
  <2>1. p \in PRIDs
    BY <1>0, <1>2 DEF RequestOK, Arguments, InLoop
  <2>2. \A q \in PRIDs : q # p => ~Admitted(r, q)
    BY DEF Admitted
  <2>3. Admissions' = [Admissions EXCEPT ![p] = @ \ {r}]
    BY <1>1, <2>1, <2>2 DEF Admissions
  <2> QED
    BY <1>2, <2>1, <2>3, PublishReplaces DEF Lifecycle!Next
<1>3. CASE ~(pc[r] = "commit" /\ job[r].op \in {"reassign", "deactivate"})
  <2>1. \A q \in PRIDs : ~Admitted(r, q)
    BY <1>0, <1>3 DEF Admitted
  <2>2. Admissions' = Admissions
    BY <1>1, <2>1 DEF Admissions
  <2>3. CASE job[r].op = "create" /\ tx[r].pr # Null
    <3>1. p \in PRIDs
      BY <1>0, <2>3 DEF RequestOK, Written
    <3> QED
      BY <2>2, <2>3, <3>1, PublishOpens DEF Lifecycle!Next
  <2>4. CASE job[r].op = "merge" /\ tx[r].pr # Null /\ ~Merged(p)
    <3>1. p \in PRIDs
      BY <1>0, <2>4 DEF RequestOK, Written
    <3> QED
      BY <2>2, <2>4, <3>1, PublishMerges DEF Lifecycle!Next
  <2>5. CASE tx[r].pr = Null \/ (job[r].op = "merge" /\ Merged(p))
    <3>1. UNCHANGED <<prs, reviewers>>
      BY <1>0, <1>3, <2>5, PublishNothing
    <3>2. Lifecycle!Withdraw
      BY <2>2, <3>1 DEF Lifecycle!Withdraw, Admissions
    <3> QED
      BY <3>2 DEF Lifecycle!Next
  <2> QED
    BY <1>0, <2>3, <2>4, <2>5 DEF RequestOK, Written
<1> QED
  BY <1>2, <1>3

\* The initial state, and every step.
LEMMA LifecycleInit == Init => Lifecycle!Init
<1>1. Init => Admissions = [p \in PRIDs |-> {}]
  BY DEF Init, Admissions, Admitted
<1> QED
  BY <1>1 DEF Init, Lifecycle!Init, Admissions

LEMMA LifecycleStep == StrongInv /\ [Next]_vars => [Lifecycle!Next]_(Lifecycle!lvars)
<1> SUFFICES ASSUME StrongInv, [Next]_vars PROVE Lifecycle!Next \/ UNCHANGED Lifecycle!lvars
  OBVIOUS
<1>0. IInv /\ MergeInv
  BY DEF StrongInv
<1>1. ASSUME NEW r \in Requests, Arrive(r) \/ Step(r) \/ Failure(r) PROVE Lifecycle!Next
  <2>1. SessionOK(r) /\ Timed(r)
    BY <1>0 DEF MergeInv
  <2>2. OnlyMoves(r) /\ (RowsStay \/ Publish(r))
    BY <1>0, <1>1, <2>1, ArriveClean, StepKinds
  <2> QED
    BY <1>0, <1>1, <2>2, QuietLifecycleStep, PublishLifecycleStep
<1>2. CASE Crash
  <2>1. \A r \in Requests, p \in PRIDs : ~Admitted(r, p)'
    BY <1>2 DEF Crash, Admitted
  <2>2. Lifecycle!Withdraw
    BY <1>2, <2>1 DEF Crash, db, Lifecycle!Withdraw
  <2> QED
    BY <2>2 DEF Lifecycle!Next
<1>3. CASE Terminating \/ UNCHANGED vars
  <2>1. UNCHANGED <<prs, reviewers>> /\ UNCHANGED Admissions
    BY <1>3 DEF Terminating, vars, Admissions, Admitted
  <2> QED
    BY <2>1 DEF Lifecycle!lvars, Admissions
<1> QED
  BY <1>1, <1>2, <1>3 DEF Next

\* The service implements PRLifecycle: a PR is opened once and merged once, and its
\* reviewers change one admission at a time, whatever is interleaved and whatever
\* fails (CreatePullRequest, UpdatePRStatus, ReplaceReviewer).
THEOREM RefinesLifecycle == Spec => ImplementsLifecycle
<1> QED
  BY LifecycleInit, LifecycleStep, StrongInvariant, PTL
  DEF Spec, ImplementsLifecycle, Lifecycle!Spec

------------------------------------------------------------------------------
\* Deactivated users are drawn no more.

\* Those drawn are active at that moment.
LEMMA DrawsActive ==
  ASSUME IInv, NEW r \in Requests, Draws(r), pc'[r] \in Carrying
  PROVE  \A u \in job'[r].picked : users[u].active
<1>0. /\ job \in [Requests -> Job] /\ job[r] \in Job
      /\ pc \in [Requests -> Labels]
  BY DEF IInv, TypeOK
<1>1. ASSUME NEW team, NEW exclude, NEW limit,
             NEW S \in RandomPicks(ActiveTeamMembers(team, exclude), limit),
             job' = [job EXCEPT ![r].picked = S]
      PROVE  \A u \in job'[r].picked : users[u].active
  <2>1. S \subseteq ActiveTeamMembers(team, exclude)
    BY DEF RandomPicks
  <2>2. job'[r].picked = S
    BY <1>0, <1>1 DEF Job
  <2> QED
    BY <2>1, <2>2 DEF ActiveTeamMembers
<1>2. CASE CreatePickReviewers(r)
  BY <1>1, <1>2 DEF CreatePickReviewers
<1>3. CASE ReassignPick(r)
  <2>1. ~ \E code \in Codes : Reply(r, code)
    BY <1>0 DEF Reply, Goto, Carrying
  <2> QED
    BY <1>1, <1>3, <2>1 DEF ReassignPick, Codes
<1>4. CASE DeactivatePick(r)
  BY <1>1, <1>4 DEF DeactivatePick
<1> QED
  BY <1>2, <1>3, <1>4 DEF Draws

\* Where r is on the way to a COMMIT, and has not just drawn, it was on that way, or it
\* has drawn nobody.
LEMMA CarriedOn ==
  ASSUME IInv, NEW r \in Requests, UsersOK(r), Arrive(r) \/ Step(r) \/ Failure(r),
         ~Draws(r), pc'[r] \in Carrying
  PROVE  pc[r] \in Carrying \/ job[r].picked = {}
<1>0. pc \in [Requests -> Labels] /\ Arguments(r)
  BY DEF IInv, TypeOK, RequestOK
<1>1. ~Arrive(r)
  <2> SUFFICES ASSUME Arrive(r) PROVE FALSE
    OBVIOUS
  <2>1. \E j : \E l \in {"at_exists", "sa_update", "cp_author", "mg_status", "ra_pr",
                        "md_team"} : Accept(r, j, l)
    BY DEF Arrive, ArriveAddTeam, ArriveSetActive, ArriveCreate, ArriveMerge, ArriveReassign,
           ArriveDeactivate, AcceptAddTeam, AcceptSetActive, AcceptCreate, AcceptMerge,
           AcceptReassign, AcceptDeactivate
  <2> QED
    BY <1>0, <2>1 DEF Accept, Carrying
<1>2. ASSUME (\E code \in Codes : Reply(r, code)) \/ SkipUser(r) PROVE FALSE
  BY <1>0, <1>2 DEF Reply, SkipUser, Goto, Carrying
<1>3. ~Failure(r)
  BY <1>2
  DEF Failure, CallError, DeactivateExpires, CommitAnswerLost, DeadlockAbort, CallFails, Codes
<1>4. ASSUME TeamStep(r) \/ MergeStep(r) PROVE job[r].picked = {}
  <2>1. job[r].op \in {"add_team", "set_active", "merge"}
    BY <1>0, <1>4
    DEF TeamStep, AddTeamCheckExists, AddTeamInsert, AddTeamUpsert, SetUserActivity,
        MergeStep, MergeReadStatus, MergeUpdate, Arguments, OpsAt
  <2> QED
    BY <2>1 DEF UsersOK
<1>5. ASSUME CreateStep(r) PROVE pc[r] \in Carrying
  BY <1>0, <1>2, <1>5
  DEF CreateStep, CreateReadAuthor, CreateCheckExists, CreateInsertPR, CreateInsertReviewers,
      Draws, Goto, Codes, Carrying
<1>6. ~ReassignStep(r)
  BY <1>0, <1>2
  DEF ReassignStep, ReassignReadPR, ReassignReadReviewers, ReassignReadUser, Draws, Goto,
      Codes, Carrying
<1>7. ASSUME ReplaceStep(r) PROVE pc[r] \in Carrying
  BY <1>7
  DEF ReplaceStep, ReplaceReadStatus, ReplaceCheckAssigned, ReplaceDelete, ReplaceInsert,
      Carrying
<1>8. ~DeactivateStep(r)
  <2>1. ~(DeactivateReadTeam(r) \/ DeactivateTeamExists(r) \/ DeactivateFinish(r))
    BY <1>0, <1>2
    DEF DeactivateReadTeam, DeactivateTeamExists, DeactivateFinish, Goto, Codes, Carrying
  <2>2. ~(DeactivateUpdate(r) \/ DeactivateCommit(r) \/ DeactivateListOpenPRs(r))
    BY <1>0 DEF DeactivateUpdate, DeactivateCommit, DeactivateListOpenPRs, Goto, Carrying
  <2>3. ~(\/ DeactivateNextPR(r) \/ DeactivateLoopEnds(r)
          \/ DeactivateReadPR(r) \/ DeactivateReadReviewers(r))
    BY <1>0
    DEF DeactivateNextPR, DeactivateLoopEnds, DeactivateReadPR, DeactivateReadReviewers,
        Goto, Carrying
  <2> QED
    BY <2>1, <2>2, <2>3 DEF DeactivateStep, Draws
<1>9. ~(Commit(r) \/ ReadBack(r))
  BY <1>0, <1>2 DEF Commit, ReadBack, Goto, Codes, Carrying
<1> QED
  BY <1>1, <1>3, <1>4, <1>5, <1>6, <1>7, <1>8, <1>9 DEF Step

\* A step of r makes r draw nobody who is inactive.
LEMMA NobodyInactiveDrawn ==
  ASSUME IInv, NEW r \in Requests, UsersOK(r), Arrive(r) \/ Step(r) \/ Failure(r),
         NEW u \in UserIDs, ~users[u].active, r \in Drawers(u)'
  PROVE  r \in Drawers(u)
<1>0. pc'[r] \in Carrying /\ u \in job'[r].picked
  BY DEF Drawers
<1>1. CASE Draws(r)
  BY <1>0, <1>1, DrawsActive
<1>2. CASE ~Draws(r)
  <2>1. job'[r].picked = job[r].picked
    BY <1>0, <1>2, PickedKinds DEF Keeps
  <2> QED
    BY <1>0, <1>2, <2>1, CarriedOn DEF Drawers
<1> QED
  BY <1>1, <1>2

\* Who becomes a reviewer is one of those the request that commits has drawn.
LEMMA AssignedWereDrawn ==
  ASSUME StrongInv, NEW r \in Requests, Arrive(r) \/ Step(r) \/ Failure(r),
         NEW u \in UserIDs, NEW p \in PRIDs, u \in reviewers'[p] \ reviewers[p]
  PROVE  r \in Drawers(u) \ Drawers(u)' /\ job[r].pr = p
<1>0. /\ IInv /\ SessionOK(r) /\ Timed(r) /\ SlotsOK(r) /\ Written(r)
      /\ reviewers \in [PRIDs -> SUBSET UserIDs]
  BY DEF StrongInv, MergeInv, SlotInv, IInv, RequestOK, TypeOK, ReviewerTable
<1>1. ~RowsStay
  BY DEF RowsStay
<1>2. Publish(r)
  BY <1>0, <1>1, ArriveClean, StepKinds
<1>3. p = job[r].pr /\ u \in tx[r].new
  BY <1>0, <1>2 DEF Publish
<1>4. pc[r] = "commit" /\ u \in job[r].picked
  BY <1>0, <1>3 DEF Written, SlotsOK
<1>5. pc'[r] \notin Carrying
  BY <1>0, <1>1, PublishEnds DEF Carrying
<1> QED
  BY <1>3, <1>4, <1>5 DEF Drawers, Carrying

KeepsDraws ==
  \A u \in UserIDs : users[u] # Null /\ ~users[u].active =>
    /\ Drawers(u)' \subseteq Drawers(u)
    /\ \A p \in PRIDs : u \in reviewers'[p] \ reviewers[p] =>
         \E r \in Drawers(u) \ Drawers(u)' : job[r].pr = p

LEMMA NextKeepsDraws == ASSUME StrongInv, [Next]_vars PROVE KeepsDraws
<1>0. IInv /\ MergeInv /\ UserInv
  BY DEF StrongInv
<1>1. ASSUME NEW r \in Requests, Arrive(r) \/ Step(r) \/ Failure(r) PROVE KeepsDraws
  <2>1. OnlyMoves(r) /\ UsersOK(r)
    BY <1>0, <1>1, ArriveClean, StepKinds DEF MergeInv, UserInv
  <2> SUFFICES ASSUME NEW u \in UserIDs, ~users[u].active
               PROVE  /\ Drawers(u)' \subseteq Drawers(u)
                      /\ \A p \in PRIDs : u \in reviewers'[p] \ reviewers[p] =>
                           \E s \in Drawers(u) \ Drawers(u)' : job[s].pr = p
    BY DEF KeepsDraws
  <2>2. ASSUME NEW s \in Requests, s \in Drawers(u)' PROVE s \in Drawers(u)
    <3>1. CASE s = r
      BY <1>0, <1>1, <2>1, <2>2, <3>1, NobodyInactiveDrawn
    <3>2. CASE s # r
      BY <2>1, <2>2, <3>2 DEF OnlyMoves, Drawers
    <3> QED
      BY <3>1, <3>2
  <2>3. Drawers(u)' \subseteq Drawers(u)
    BY <2>2 DEF Drawers
  <2> QED
    BY <1>1, <2>3, AssignedWereDrawn
<1>2. CASE Crash
  BY <1>2 DEF Crash, db, KeepsDraws, Drawers, Carrying
<1>3. CASE Terminating \/ UNCHANGED vars
  BY <1>3 DEF Terminating, vars, KeepsDraws, Drawers
<1> QED
  BY <1>1, <1>2, <1>3 DEF Next

\* However late the reviewers drawn are committed, a deactivation stops the draws: an
\* inactive user becomes a reviewer only of the PR of a request that had drawn him while
\* he was active, and once for each of them (CreatePullRequest, ReassignReviewer,
\* MassDeactivate, which all query the candidates before the transaction).
THEOREM DrawsStopAtDeactivation == Spec => DeactivationStopsDraws
<1>1. StrongInv /\ [Next]_vars => [KeepsDraws]_vars
  BY NextKeepsDraws
<1>2. [][KeepsDraws]_vars => DeactivationStopsDraws
  BY PTL DEF DeactivationStopsDraws, KeepsDraws
<1> QED
  BY <1>1, <1>2, StrongInvariant, PTL DEF Spec
==============================================================================
