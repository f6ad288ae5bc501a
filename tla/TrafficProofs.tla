---------------------------- MODULE TrafficProofs ----------------------------
(***************************************************************************)
(* Proofs of what holds for some traffic only: two reviewers and an exact  *)
(* audit as long as one goroutine replaces reviewers; reviewers from the   *)
(* team of the author as long as nobody changes teams; and no open PR left *)
(* behind by a mass deactivation as long as nothing but merges runs beside *)
(* it.                                                                     *)
(***************************************************************************)
EXTENDS LifecycleProofs

\* A request keeps its operation.
LEMMA OpStays ==
  ASSUME IInv, NEW r \in Requests, Step(r) \/ Failure(r)
  PROVE  job'[r].op = job[r].op
<1>0. job \in [Requests -> Job] /\ job[r] \in Job
  BY DEF IInv, TypeOK
<1> DEFINE Same == job'[r].op = job[r].op
<1>1. ASSUME NEW code \in Codes, Reply(r, code) PROVE Same
  <2>1. job' = [job EXCEPT ![r] = Answer(r, code)] /\ Answer(r, code).op = job[r].op
    BY <1>0, <1>1, AnswerJob DEF Reply, Answer
  <2> QED
    BY <1>0, <2>1
<1>2. CASE SkipUser(r)
  <2> DEFINE j == [job[r] EXCEPT !.skipped = @ \cup {job[r].user},
                                 !.work = [@ EXCEPT ![job[r].user] = {}]]
  <2>1. job' = [job EXCEPT ![r] = j] /\ j.op = job[r].op
    BY <1>0, <1>2 DEF SkipUser, Job
  <2> HIDE DEF j
  <2> QED
    BY <1>0, <2>1
<1>3. ASSUME NEW code \in Codes, ReplaceFails(r, code) PROVE Same
  BY <1>1, <1>2, <1>3 DEF ReplaceFails
<1>4. CASE UNCHANGED job
  BY <1>4
<1>5. CASE TeamStep(r)
  BY <1>0, <1>1, <1>5
  DEF TeamStep, AddTeamCheckExists, AddTeamInsert, AddTeamUpsert, SetUserActivity, Codes, Job
<1>6. CASE CreateStep(r)
  BY <1>0, <1>1, <1>6
  DEF CreateStep, CreateReadAuthor, CreatePickReviewers, CreateCheckExists, CreateInsertPR,
      CreateInsertReviewers, Codes, Job
<1>7. CASE MergeStep(r)
  BY <1>1, <1>7 DEF MergeStep, MergeReadStatus, MergeUpdate, Codes
<1>8. CASE ReassignStep(r)
  BY <1>0, <1>1, <1>8
  DEF ReassignStep, ReassignReadPR, ReassignReadReviewers, ReassignReadUser, ReassignPick,
      Codes, Job
<1>9. CASE ReplaceStep(r)
  <2>1. (\E code \in Codes : ReplaceFails(r, code)) \/ UNCHANGED job
    BY <1>9
    DEF ReplaceStep, ReplaceReadStatus, ReplaceCheckAssigned, ReplaceDelete, ReplaceInsert,
        Codes
  <2> QED
    BY <1>3, <2>1
<1>10. CASE DeactivateStep(r)
  <2>1. CASE DeactivateNextPR(r)
    <3>1. PICK u, p, w : job' = [job EXCEPT ![r] = [@ EXCEPT !.user = u, !.pr = p, !.work = w]]
      BY <2>1 DEF DeactivateNextPR
    <3> QED
      BY <1>0, <3>1 DEF Job
  <2>2. CASE DeactivateUpdate(r)
    BY <1>0, <2>2 DEF DeactivateUpdate, Job
  <2>3. CASE DeactivateListOpenPRs(r)
    BY <1>0, <2>3 DEF DeactivateListOpenPRs, Job
  <2>4. CASE DeactivateReadTeam(r) \/ DeactivateTeamExists(r) \/ DeactivateFinish(r)
    BY <1>0, <1>1, <2>4
    DEF DeactivateReadTeam, DeactivateTeamExists, DeactivateFinish, Codes, Job
  <2>5. CASE DeactivateReadPR(r) \/ DeactivateReadReviewers(r) \/ DeactivatePick(r)
    BY <1>0, <1>2, <2>5
    DEF DeactivateReadPR, DeactivateReadReviewers, DeactivatePick, Job
  <2>6. CASE DeactivateCommit(r) \/ DeactivateLoopEnds(r)
    BY <1>0, <2>6 DEF DeactivateCommit, DeactivateLoopEnds
  <2> QED
    BY <1>10, <2>1, <2>2, <2>3, <2>4, <2>5, <2>6 DEF DeactivateStep
<1>11. CASE Commit(r) \/ ReadBack(r)
  BY <1>1, <1>11 DEF Commit, ReadBack, Codes
<1>12. CASE Failure(r)
  BY <1>1, <1>2, <1>12
  DEF Failure, CallError, DeactivateExpires, CommitAnswerLost, DeadlockAbort, CallFails, Codes
<1> QED
  BY <1>5, <1>6, <1>7, <1>8, <1>9, <1>10, <1>11, <1>12 DEF Step

\* It is one the clients of its goroutine send.
LEMMA OpSent ==
  ASSUME IInv, NEW r \in Requests, job[r].op \in Traffic[r] \cup {"none"},
         Arrive(r) \/ Step(r) \/ Failure(r)
  PROVE  job'[r].op \in Traffic[r] \cup {"none"}
<1>0. job \in [Requests -> Job]
  BY DEF IInv, TypeOK
<1>1. CASE Step(r) \/ Failure(r)
  BY <1>1, OpStays
<1>2. CASE Arrive(r)
  <2> USE DEF Accept, NoJob
  <2>1. CASE ArriveAddTeam(r)
    BY <1>0, <2>1 DEF ArriveAddTeam, AcceptAddTeam
  <2>2. CASE ArriveSetActive(r)
    <3> PICK u \in UserIDs, active \in BOOLEAN : AcceptSetActive(r, u, active)
      BY <2>2 DEF ArriveSetActive
    <3> DEFINE on == IF active THEN {u} ELSE {}
    <3>1. job' = [job EXCEPT ![r] =
            [[NoJob EXCEPT !.op = "set_active", !.user = u, !.on = on] EXCEPT
               !.now = issued + 1]]
      BY DEF AcceptSetActive
    <3> HIDE DEF on
    <3> QED
      BY <1>0, <2>2, <3>1 DEF ArriveSetActive
  <2>3. CASE ArriveCreate(r)
    BY <1>0, <2>3 DEF ArriveCreate, AcceptCreate
  <2>4. CASE ArriveMerge(r)
    BY <1>0, <2>4 DEF ArriveMerge, AcceptMerge
  <2>5. CASE ArriveReassign(r)
    BY <1>0, <2>5 DEF ArriveReassign, AcceptReassign
  <2>6. CASE ArriveDeactivate(r)
    BY <1>0, <2>6 DEF ArriveDeactivate, AcceptDeactivate
  <2> QED
    BY <1>2, <2>1, <2>2, <2>3, <2>4, <2>5, <2>6 DEF Arrive
<1> QED
  BY <1>1, <1>2

\* A replacement past its check comes from the check or from its last write.
LEMMA ReplacementSteps ==
  ASSUME IInv, IInv', NEW r \in Requests, Arrive(r) \/ Step(r) \/ Failure(r),
         job'[r].op \in Replacements, pc'[r] \in {"rp_delete", "rp_insert", "commit"}
  PROVE  ReplaceCheckAssigned(r) \/ ReplaceDelete(r) \/ ReplaceInsert(r)
<1>0. pc \in [Requests -> Labels] /\ RequestOK(r)'
  BY DEF IInv, TypeOK
<1>1. PICK p \in PRIDs : job'[r].pr = p
  BY <1>0 DEF RequestOK, Arguments, InLoop, Replacements
<1>2. Admitted(r, p)'
  BY <1>1 DEF Admitted, Replacements
<1>3. ~ReplaceReadStatus(r)
  BY <1>0 DEF ReplaceReadStatus, ReplaceFails, Reply, SkipUser, Goto
<1>4. Admitted(r, p)
  BY <1>2, <1>3, AdmissionChecked
<1>5. pc[r] \in {"rp_assigned", "rp_delete", "rp_insert", "commit"}
  BY <1>4 DEF Admitted
<1>6. CASE Arrive(r)
  <2>1. \E j, l : Accept(r, j, l)
    BY <1>6 DEF Arrive, ArriveAddTeam, ArriveSetActive, ArriveCreate, ArriveMerge,
       ArriveReassign, ArriveDeactivate, AcceptAddTeam, AcceptSetActive, AcceptCreate,
       AcceptMerge, AcceptReassign, AcceptDeactivate
  <2> QED
    BY <1>5, <2>1 DEF Accept
<1>7. CASE Failure(r)
  BY <1>0, <1>7
  DEF Failure, CallError, DeactivateExpires, CommitAnswerLost, DeadlockAbort, CallFails,
      Reply, SkipUser, Goto
<1>8. CASE Step(r)
  <2>1. ReplaceStep(r) \/ Commit(r)
    BY <1>5, <1>8
    DEF Step, TeamStep, CreateStep, MergeStep, ReassignStep, DeactivateStep, ReadBack,
        AddTeamCheckExists, AddTeamInsert, AddTeamUpsert, SetUserActivity, CreateReadAuthor,
        CreatePickReviewers, CreateCheckExists, CreateInsertPR, CreateInsertReviewers,
        MergeReadStatus, MergeUpdate, ReassignReadPR, ReassignReadReviewers,
        ReassignReadUser, ReassignPick, DeactivateReadTeam, DeactivateTeamExists,
        DeactivateUpdate, DeactivateCommit, DeactivateListOpenPRs, DeactivateNextPR,
        DeactivateLoopEnds, DeactivateReadPR, DeactivateReadReviewers, DeactivatePick,
        DeactivateFinish
  <2>2. ~Commit(r)
    BY <1>0 DEF Commit, Goto
  <2> QED
    BY <1>3, <2>1, <2>2 DEF ReplaceStep
<1> QED
  BY <1>6, <1>7, <1>8

------------------------------------------------------------------------------
\* The invariant SoleInv.

\* The seed satisfies it.
LEMMA InitSoleInv == ASSUME SeedExact, Init PROVE SoleInv
<1>1. \A r \in Requests : SoleOK(r)
  BY DEF Init, SoleOK, NoJob, NoTx, Replacements
<1>2. AtMostTwo /\ AuditExact
  BY DEF Init, SeedExact, AtMostTwo, AuditExact
<1> QED
  BY <1>1, <1>2 DEF SoleInv

\* The request that moves.
LEMMA SoleOwn ==
  ASSUME IInv, IInv', MergeInv', NEW r \in Requests, SoleOK(r),
         Arrive(r) \/ Step(r) \/ Failure(r),
         Clean(r) \/ (Writes(r) /\ RowsStay)
  PROVE  SoleOK(r)'
<1>0. /\ job \in [Requests -> Job] /\ tx \in [Requests -> TxState] /\ pc \in [Requests -> Labels]
      /\ job[r] \in Job /\ tx[r] \in TxState /\ RequestOK(r) /\ RequestOK(r)' /\ SessionOK(r)'
  BY DEF IInv, TypeOK, MergeInv
<1>1. job'[r].op \in Traffic[r] \cup {"none"}
  BY OpSent DEF SoleOK
<1>2. CASE ReplaceCheckAssigned(r) /\ pc'[r] = "rp_delete"
  <2>1. /\ pc[r] = "rp_assigned" /\ UNCHANGED <<job, tx, reviewers>>
        /\ job[r].user \in reviewers[job[r].pr]
    BY <1>0, <1>2 DEF ReplaceCheckAssigned, ReplaceFails, Reply, SkipUser, Goto, db
  <2> QED
    BY <1>1, <1>2, <2>1 DEF SoleOK
<1>3. CASE ReplaceDelete(r)
  <2>1. /\ pc[r] = "rp_delete" /\ UNCHANGED <<job, reviewers>>
        /\ tx' = [tx EXCEPT ![r].gone = {job[r].user} \cap reviewers[job[r].pr],
                            ![r].dropped = {job[r].user}]
        /\ pc'[r] \in {"rp_insert", "commit"}
    BY <1>0, <1>3 DEF ReplaceDelete, Goto, db
  <2>2. job[r].user \in reviewers[job[r].pr]
    BY <2>1 DEF SoleOK
  <2>3. tx'[r].gone = {job[r].user} /\ tx'[r].dropped = {job[r].user}
    BY <1>0, <2>1, <2>2 DEF TxState
  <2> QED
    BY <1>1, <2>1, <2>2, <2>3 DEF SoleOK
<1>4. CASE ReplaceInsert(r) /\ pc'[r] = "commit"
  <2>1. /\ pc[r] = "rp_insert" /\ UNCHANGED <<job, reviewers>>
        /\ tx' = [tx EXCEPT ![r].new = job[r].picked]
    BY <1>0, <1>4 DEF ReplaceInsert, ReplaceFails, Reply, SkipUser, Goto, db
  <2>2. tx'[r].gone = tx[r].gone /\ tx'[r].dropped = tx[r].dropped
    BY <1>0, <2>1 DEF TxState
  <2>3. job[r].op \in Replacements
    BY <1>0, <2>1 DEF RequestOK, Arguments, OpsAt, Replacements
  <2> QED
    BY <1>1, <1>4, <2>1, <2>2, <2>3 DEF SoleOK
\* Anything else leaves nothing written about reviewers, or creates a PR.
<1>5. CASE /\ ~(ReplaceCheckAssigned(r) /\ pc'[r] = "rp_delete")
           /\ ~ReplaceDelete(r)
           /\ ~(ReplaceInsert(r) /\ pc'[r] = "commit")
  <2>1. ~(job'[r].op \in Replacements /\ pc'[r] \in {"rp_delete", "rp_insert", "commit"})
    <3> SUFFICES ASSUME job'[r].op \in Replacements,
                        pc'[r] \in {"rp_delete", "rp_insert", "commit"}
                 PROVE  FALSE
      OBVIOUS
    <3>1. ReplaceCheckAssigned(r) \/ ReplaceInsert(r)
      BY <1>5, ReplacementSteps
    <3>2. pc'[r] \in {"rp_delete", "commit", "done", "md_next"}
      BY <1>0, <3>1
      DEF ReplaceCheckAssigned, ReplaceInsert, ReplaceFails, Reply, SkipUser, Goto
    <3>3. ReplaceCheckAssigned(r) => pc'[r] # "commit"
      BY <1>0 DEF ReplaceCheckAssigned, ReplaceFails, Reply, SkipUser, Goto
    <3>4. ReplaceInsert(r) => pc'[r] # "rp_delete"
      BY <1>0 DEF ReplaceInsert, ReplaceFails, Reply, SkipUser, Goto
    <3> QED
      BY <1>5, <3>1, <3>2, <3>3, <3>4
  <2>2. pc'[r] = "rp_delete" => job'[r].op \in Replacements
    BY <1>0 DEF RequestOK, Arguments, OpsAt, Replacements
  <2>3. tx'[r].gone = {} /\ tx'[r].dropped = {}
    BY <1>0, <2>1 DEF SessionOK, Replacements
  <2> QED
    BY <1>1, <2>1, <2>2, <2>3 DEF SoleOK
<1> QED
  BY <1>2, <1>3, <1>4, <1>5

\* Another request: if it replaces a reviewer then r does not, and removes nobody.
LEMMA SoleOthers ==
  ASSUME OneReplacer, IInv, MergeInv, NEW r \in Requests, SoleOK(r), OnlyMoves(r),
         RowsStay \/ Publish(r), NEW s \in Requests \ {r}, SoleOK(s)
  PROVE  SoleOK(s)'
<1>0. RequestOK(s) /\ SessionOK(r) /\ SessionOK(s) /\ reviewers \in [PRIDs -> SUBSET UserIDs]
  BY DEF IInv, MergeInv, TypeOK, ReviewerTable
<1>1. pc'[s] = pc[s] /\ job'[s] = job[s] /\ tx'[s] = tx[s]
  BY DEF OnlyMoves
<1>2. CASE job[s].op \in Replacements
  <2>1. job[r].op \notin Replacements
    <3>1. Traffic[s] \cap Replacements # {}
      BY <1>2 DEF SoleOK, Replacements
    <3>2. Traffic[r] \cap Replacements = {}
      BY <3>1 DEF OneReplacer
    <3> QED
      BY <3>2 DEF SoleOK, Replacements
  <2>2. tx[r].gone = {}
    BY <1>0, <2>1 DEF SessionOK, Replacements
  <2>3. \A p \in PRIDs : reviewers[p] \subseteq reviewers'[p]
    BY <2>2 DEF RowsStay, Publish
  <2>4. pc[s] = "rp_delete" \/ tx[s].gone # {} => job[s].pr \in PRIDs
    BY <1>0, <1>2 DEF SessionOK, RequestOK, Arguments, InLoop, Replacements
  <2> QED
    BY <1>1, <2>3, <2>4 DEF SoleOK
<1>3. CASE job[s].op \notin Replacements
  <2>1. pc[s] # "rp_delete"
    BY <1>0, <1>3 DEF RequestOK, Arguments, OpsAt, Replacements
  <2>2. tx[s].gone = {}
    BY <1>0, <1>3 DEF SessionOK, Replacements
  <2> QED
    BY <1>1, <1>3, <2>1, <2>2 DEF SoleOK
<1> QED
  BY <1>2, <1>3

\* A commit keeps at most two reviewers: a creation fills a PR that had none, and a
\* replacement takes one out for the one it puts in.
LEMMA PublishKeepsTwo ==
  ASSUME IsFiniteSet(UserIDs), StrongInv, SoleInv, NEW r \in Requests, Publish(r)
  PROVE  AtMostTwo'
<1> SUFFICES ASSUME NEW p \in PRIDs PROVE Cardinality(reviewers'[p]) <= 2
  BY DEF AtMostTwo
<1> DEFINE R == reviewers[p]
           new == tx[r].new
           gone == tx[r].gone
<1>0. /\ RequestOK(r) /\ SessionOK(r) /\ SlotsOK(r) /\ SoleOK(r) /\ tx[r] \in TxState
      /\ R \in SUBSET UserIDs /\ Cardinality(R) <= 2
  BY DEF StrongInv, IInv, MergeInv, SlotInv, SoleInv, AtMostTwo, TypeOK, ReviewerTable
<1>1. /\ \A S \in SUBSET UserIDs : IsFiniteSet(S)
      /\ \A S, T \in SUBSET UserIDs : S \subseteq T => Cardinality(S) <= Cardinality(T)
      /\ \A S \in SUBSET UserIDs : Cardinality(S) \in Nat
  BY FS_Subset, FS_CardinalityType
<1>2. reviewers'[p] = IF p = job[r].pr THEN (R \ gone) \cup new ELSE R
  BY DEF Publish
<1>3. new \in SUBSET UserIDs
  BY <1>0 DEF TxState
<1>4. CASE p # job[r].pr
  BY <1>0, <1>2, <1>4
<1>5. CASE p = job[r].pr /\ new = {}
  <2>1. reviewers'[p] \subseteq R /\ reviewers'[p] \in SUBSET UserIDs
    BY <1>0, <1>2, <1>5
  <2>2. Cardinality(reviewers'[p]) <= Cardinality(R)
    BY <1>0, <1>1, <2>1
  <2> HIDE DEF R
  <2> QED
    BY <1>0, <1>1, <2>1, <2>2
<1>6. CASE p = job[r].pr /\ new # {} /\ job[r].op = "create"
  <2>1. ~Exists(p) /\ new = job[r].picked
    BY <1>0, <1>6 DEF RequestOK, Written, SlotsOK
  <2>2. R = {}
    BY <2>1 DEF StrongInv, IInv, ForeignKeysHold
  <2>3. reviewers'[p] = job[r].picked
    BY <1>2, <1>6, <2>1, <2>2
  <2> QED
    BY <1>0, <1>6, <2>3 DEF SlotsOK
<1>7. CASE p = job[r].pr /\ new # {} /\ job[r].op # "create"
  <2>1. job[r].op \in Replacements /\ pc[r] = "commit" /\ new = job[r].picked
    BY <1>0, <1>7 DEF SessionOK, RequestOK, Written, SlotsOK, Replacements
  <2>2. gone = {job[r].user} /\ job[r].user \in R
    BY <1>0, <1>7, <2>1 DEF SoleOK
  <2>3. Cardinality(new) <= 1
    BY <1>0, <1>7, <2>1 DEF SlotsOK
  <2> HIDE DEF R, new, gone
  <2>4. Cardinality(R \ {job[r].user}) = Cardinality(R) - 1
    BY <1>0, <1>1, <2>2, FS_RemoveElement
  <2> DEFINE kept == R \ {job[r].user}
  <2>5. kept \in SUBSET UserIDs /\ kept \cap new \in SUBSET UserIDs
    BY <1>0
  <2>6. Cardinality(kept \cup new) = Cardinality(kept) + Cardinality(new)
                                       - Cardinality(kept \cap new)
    BY <1>1, <1>3, <2>5, FS_Union
  <2>7. reviewers'[p] = kept \cup new
    BY <1>2, <1>7, <2>2
  <2>8. Cardinality(kept) = Cardinality(R) - 1
    BY <2>4
  <2>9. /\ Cardinality(kept) \in Nat /\ Cardinality(new) \in Nat
        /\ Cardinality(kept \cap new) \in Nat /\ Cardinality(R) \in Nat
    BY <1>0, <1>1, <1>3, <2>5
  <2> HIDE DEF kept
  <2> QED
    BY <1>0, <2>3, <2>6, <2>7, <2>8, <2>9
<1> QED
  BY <1>4, <1>5, <1>6, <1>7

\* A commit keeps the balance of events and rows: it adds and removes rows that were
\* not and were there, with one event for each.
LEMMA PublishKeepsBalance ==
  ASSUME StrongInv, SoleInv, NEW r \in Requests, Publish(r)
  PROVE  AuditExact'
<1> SUFFICES ASSUME NEW p \in PRIDs, NEW u \in UserIDs
             PROVE  assigned'[p][u] = unassigned'[p][u]
                                        + (IF u \in reviewers'[p] THEN 1 ELSE 0)
  BY DEF AuditExact
<1> DEFINE a == assigned[p][u]
           b == unassigned[p][u]
<1>1. a \in Nat /\ b \in Nat /\ a = b + (IF u \in reviewers[p] THEN 1 ELSE 0)
  BY DEF StrongInv, IInv, TypeOK, EventCounts, SoleInv, AuditExact
<1>2. /\ assigned'[p][u] = a + (IF p = job[r].pr /\ u \in tx[r].new THEN 1 ELSE 0)
      /\ unassigned'[p][u] = b + (IF p = job[r].pr /\ u \in tx[r].dropped THEN 1 ELSE 0)
      /\ reviewers'[p] = IF p = job[r].pr THEN (reviewers[p] \ tx[r].gone) \cup tx[r].new
                                          ELSE reviewers[p]
  BY DEF Publish
<1>3. p = job[r].pr => tx[r].new \cap reviewers[p] = {}
  BY DEF StrongInv, AuditInv, KeysDisjoint
<1>4. tx[r].dropped = tx[r].gone /\ (p = job[r].pr => tx[r].gone \subseteq reviewers[p])
  BY DEF SoleInv, SoleOK
<1> HIDE DEF a, b
<1>5. CASE p # job[r].pr
  BY <1>1, <1>2, <1>5
<1>6. CASE p = job[r].pr /\ u \in tx[r].new
  <2>1. u \notin reviewers[p] /\ u \notin tx[r].gone /\ u \in reviewers'[p]
    BY <1>2, <1>3, <1>4, <1>6
  <2> QED
    BY <1>1, <1>2, <1>4, <1>6, <2>1
<1>7. CASE p = job[r].pr /\ u \notin tx[r].new /\ u \in tx[r].gone
  <2>1. u \in reviewers[p] /\ u \notin reviewers'[p]
    BY <1>2, <1>4, <1>7
  <2> QED
    BY <1>1, <1>2, <1>4, <1>7, <2>1
<1>8. CASE p = job[r].pr /\ u \notin tx[r].new /\ u \notin tx[r].gone
  <2>1. (u \in reviewers'[p]) <=> (u \in reviewers[p])
    BY <1>2, <1>8
  <2> QED
    BY <1>1, <1>2, <1>4, <1>8, <2>1
<1> QED
  BY <1>5, <1>6, <1>7, <1>8

\* Every step preserves the invariant.
LEMMA SoleInvNext ==
  ASSUME OneReplacer, IsFiniteSet(UserIDs), StrongInv, StrongInv', SoleInv, [Next]_vars
  PROVE  SoleInv'
<1>0. IInv /\ MergeInv /\ IInv' /\ MergeInv'
  BY DEF StrongInv
<1>1. ASSUME NEW r \in Requests, Arrive(r) \/ Step(r) \/ Failure(r) PROVE SoleInv'
  <2>1. SessionOK(r) /\ Timed(r) /\ SoleOK(r)
    BY <1>0 DEF MergeInv, SoleInv
  <2>2. OnlyMoves(r) /\ (Clean(r) \/ (Writes(r) /\ RowsStay)) /\ (RowsStay \/ Publish(r))
    BY <1>0, <1>1, <2>1, ArriveClean, StepKinds
  <2>3. SoleOK(r)'
    BY <1>0, <1>1, <2>1, <2>2, SoleOwn
  <2>4. ASSUME NEW s \in Requests \ {r} PROVE SoleOK(s)'
    BY <1>0, <2>1, <2>2, SoleOthers DEF SoleInv
  <2>5. AtMostTwo' /\ AuditExact'
    BY <2>2, PublishKeepsTwo, PublishKeepsBalance DEF RowsStay, SoleInv, AtMostTwo, AuditExact
  <2> QED
    BY <2>3, <2>4, <2>5 DEF SoleInv
<1>2. CASE Crash
  <2>1. \A r \in Requests : SoleOK(r)'
    BY <1>2 DEF Crash, SoleInv, SoleOK, NoTx, NoJob
  <2> QED
    BY <1>2, <2>1 DEF Crash, db, SoleInv, AtMostTwo, AuditExact
<1>3. CASE Terminating \/ UNCHANGED vars
  BY <1>3 DEF Terminating, vars, SoleInv, SoleOK, AtMostTwo, AuditExact
<1> QED
  BY <1>1, <1>2, <1>3 DEF Next

\* From its check of the reviewers to its COMMIT the only replacement of reviewers on its
\* way finds the row it looked at (checkReviewerAssigned, removeReviewer); that keeps
\* both bounds below, and is inductive relative to StrongInv.
THEOREM SoleInvariant ==
  ASSUME OneReplacer, SeedExact, IsFiniteSet(UserIDs)
  PROVE  Spec => [](StrongInv /\ SoleInv)
<1>1. Init => SoleInv
  BY InitSoleInv
<1>2. StrongInv /\ StrongInv' /\ SoleInv /\ [Next]_vars => SoleInv'
  BY SoleInvNext
<1> QED
  BY <1>1, <1>2, StrongInvariant, PTL DEF Spec

\* As long as one goroutine replaces reviewers, whatever the other requests do and
\* whatever fails, a PR has at most two of them (CreatePullRequest, ReplaceReviewer).
THEOREM TwoReviewersAtMost ==
  ASSUME OneReplacer, SeedExact, IsFiniteSet(UserIDs)
  PROVE  Spec => []AtMostTwo
<1>1. SoleInv => AtMostTwo
  BY DEF SoleInv
<1> QED
  BY <1>1, SoleInvariant, PTL

\* Then the events of a PR also say exactly who its reviewers are (removeReviewer,
\* insertReviewers).
THEOREM EventsAreExact ==
  ASSUME OneReplacer, SeedExact, IsFiniteSet(UserIDs)
  PROVE  Spec => []AuditExact
<1>1. SoleInv => AuditExact
  BY DEF SoleInv
<1> QED
  BY <1>1, SoleInvariant, PTL

------------------------------------------------------------------------------
\* As long as nobody changes teams: the invariant TeamInv.

\* The seed satisfies TeamInv.
LEMMA InitTeamInv == ASSUME SeedFromTeam, Init PROVE TeamInv
<1>1. \A r \in Requests : FromTeam(r)
  BY DEF Init, FromTeam, NoJob, NoTx, Replacements, Replacing
<1>2. \A u \in UserIDs : users[u].team = TeamOf(u)
  BY DEF Init, TeamOf
<1>3. \A p \in PRIDs : \A u \in reviewers[p] : TeamOf(u) = TeamOf(prs[p].author)
  BY DEF Init, SeedFromTeam
<1> QED
  BY <1>1, <1>2, <1>3 DEF TeamInv

\* Who is offered as a candidate is of the team asked for.
LEMMA CandidatesFromTeam ==
  ASSUME TeamInv, NEW team, NEW exclude, NEW limit,
         NEW S \in RandomPicks(ActiveTeamMembers(team, exclude), limit)
  PROVE  \A u \in S : TeamOf(u) = team
BY DEF RandomPicks, ActiveTeamMembers, TeamInv

\* What a request that ends leaves, and a user skipped.
LEMMA EndedFromTeam ==
  ASSUME StrongInv, KeepsMerged, TeamInv, NEW r \in Requests,
         (\E code \in Codes : Reply(r, code)) \/ (SkipUser(r) /\ job[r].op = "deactivate")
  PROVE  FromTeam(r)'
<1>0. /\ job \in [Requests -> Job] /\ tx \in [Requests -> TxState] /\ pc \in [Requests -> Labels]
      /\ job[r] \in Job /\ FromTeam(r) /\ RequestOK(r)
  BY DEF StrongInv, IInv, TypeOK, TeamInv
<1>1. tx' = [tx EXCEPT ![r] = NoTx] /\ pc'[r] \in {"done", "md_next"}
  BY <1>0 DEF Reply, SkipUser, Goto
<1>2. tx'[r].new = {} /\ \A u \in UserIDs : tx'[r].users[u] = Null
  BY <1>0, <1>1 DEF NoTx
<1>3. CASE \E code \in Codes : Reply(r, code)
  <2>1. PICK code \in Codes : job' = [job EXCEPT ![r] = Answer(r, code)]
    BY <1>3 DEF Reply, Answer
  <2> DEFINE j == Answer(r, code)
  <2>2. /\ j.op = job[r].op /\ j.team = job[r].team /\ j.picked = {}
        /\ j.targets = job[r].targets /\ j.work = [u \in UserIDs |-> {}]
    BY <1>0 DEF Answer, NoJob
  <2> HIDE DEF j
  <2>3. /\ job'[r].op = job[r].op /\ job'[r].team = job[r].team /\ job'[r].picked = {}
        /\ job'[r].targets = job[r].targets /\ \A u \in UserIDs : job'[r].work[u] = {}
    BY <1>0, <2>1, <2>2 DEF j
  <2> QED
    BY <1>0, <1>1, <1>2, <2>3 DEF FromTeam, Replacing
<1>4. CASE SkipUser(r) /\ job[r].op = "deactivate"
  <2> DEFINE j == [job[r] EXCEPT !.skipped = @ \cup {job[r].user},
                                 !.work = [@ EXCEPT ![job[r].user] = {}]]
  <2>1. job' = [job EXCEPT ![r] = j]
    BY <1>4 DEF SkipUser
  <2>2. /\ j.op = job[r].op /\ j.team = job[r].team /\ j.targets = job[r].targets
        /\ \A u \in UserIDs : j.work[u] \subseteq job[r].work[u]
    BY <1>0 DEF Job
  <2> HIDE DEF j
  <2>3. job'[r] = j
    BY <1>0, <2>1
  <2>4. \A u \in UserIDs : \A p \in job[r].work[u] :
          p \in PRIDs /\ prs'[p].author = prs[p].author
    BY <1>0 DEF Job, RequestOK, ReadsLast, KeepsMerged
  <2> QED
    BY <1>0, <1>1, <1>2, <1>4, <2>2, <2>3, <2>4 DEF FromTeam, Replacing
<1> QED
  BY <1>3, <1>4

\* A request that has just arrived.
LEMMA ArrivedFromTeam ==
  ASSUME StrongInv, TeamInv, NEW r \in Requests, Arrive(r)
  PROVE  FromTeam(r)'
<1>0. /\ job \in [Requests -> Job] /\ tx \in [Requests -> TxState] /\ pc \in [Requests -> Labels]
      /\ FromTeam(r) /\ SessionOK(r) /\ IInv
  BY DEF StrongInv, MergeInv, IInv, TypeOK, TeamInv
<1>1. job'[r].op \in Traffic[r] \cup {"none"}
  BY <1>0, OpSent DEF FromTeam
<1>2. /\ UNCHANGED tx /\ tx[r].new = {}
      /\ pc'[r] \in {"at_exists", "sa_update", "cp_author", "mg_status", "ra_pr", "md_team"}
  <2>1. \E j : \E l \in {"at_exists", "sa_update", "cp_author", "mg_status", "ra_pr", "md_team"} :
          Accept(r, j, l)
    BY DEF Arrive, ArriveAddTeam, ArriveSetActive, ArriveCreate, ArriveMerge, ArriveReassign,
           ArriveDeactivate, AcceptAddTeam, AcceptSetActive, AcceptCreate, AcceptMerge,
           AcceptReassign, AcceptDeactivate
  <2>2. pc[r] \in {"idle", "done"}
    BY <2>1 DEF Accept
  <2> QED
    BY <1>0, <2>1, <2>2 DEF Accept, SessionOK
<1>3. job'[r].picked = {} /\ job'[r].targets = {} /\ \A u \in UserIDs : job'[r].work[u] = {}
  <2> USE DEF Accept, NoJob
  <2>1. CASE ArriveAddTeam(r)
    BY <1>0, <2>1 DEF ArriveAddTeam, AcceptAddTeam
  <2>2. CASE ArriveSetActive(r)
    <3> PICK u \in UserIDs, active \in BOOLEAN : AcceptSetActive(r, u, active)
      BY <2>2 DEF ArriveSetActive
    <3> DEFINE on == IF active THEN {u} ELSE {}
    <3>1. job' = [job EXCEPT ![r] =
            [[NoJob EXCEPT !.op = "set_active", !.user = u, !.on = on] EXCEPT
               !.now = issued + 1]]
      BY DEF AcceptSetActive
    <3> HIDE DEF on
    <3> QED
      BY <1>0, <3>1
  <2>3. CASE ArriveCreate(r)
    BY <1>0, <2>3 DEF ArriveCreate, AcceptCreate
  <2>4. CASE ArriveMerge(r)
    BY <1>0, <2>4 DEF ArriveMerge, AcceptMerge
  <2>5. CASE ArriveReassign(r)
    BY <1>0, <2>5 DEF ArriveReassign, AcceptReassign
  <2>6. CASE ArriveDeactivate(r)
    BY <1>0, <2>6 DEF ArriveDeactivate, AcceptDeactivate
  <2> QED
    BY <2>1, <2>2, <2>3, <2>4, <2>5, <2>6 DEF Arrive
<1> QED
  BY <1>0, <1>1, <1>2, <1>3 DEF FromTeam, Replacing

\* The calls of a creation.
LEMMA CreateFromTeam ==
  ASSUME StrongInv, KeepsMerged, TeamInv, NEW r \in Requests, CreateStep(r)
  PROVE  FromTeam(r)'
<1>0. /\ job \in [Requests -> Job] /\ tx \in [Requests -> TxState] /\ pc \in [Requests -> Labels]
      /\ job[r] \in Job /\ tx[r] \in TxState /\ FromTeam(r) /\ Arguments(r)
  BY DEF StrongInv, IInv, TypeOK, TeamInv, RequestOK
<1>1. job[r].op = "create" /\ job[r].user \in UserIDs
  BY <1>0 DEF CreateStep, CreateReadAuthor, CreatePickReviewers, CreateCheckExists,
              CreateInsertPR, CreateInsertReviewers, Arguments, OpsAt
<1>2. ASSUME NEW code \in Codes, Reply(r, code) PROVE FromTeam(r)'
  BY <1>2, EndedFromTeam
<1>3. CASE CreateReadAuthor(r) /\ ~Reply(r, "NOT_FOUND")
  <2>1. /\ job' = [job EXCEPT ![r].team = users[job[r].user].team] /\ UNCHANGED tx
        /\ pc'[r] = "cp_candidates"
    BY <1>0, <1>3 DEF CreateReadAuthor, Goto
  <2>2. /\ job'[r].op = "create" /\ job'[r].user = job[r].user /\ job'[r].picked = job[r].picked
        /\ job'[r].team = TeamOf(job[r].user)
    BY <1>0, <1>1, <2>1 DEF Job, TeamInv
  <2> QED
    BY <1>0, <1>1, <2>1, <2>2 DEF FromTeam, Replacing, Replacements
<1>4. CASE CreatePickReviewers(r)
  <2>1. PICK S \in RandomPicks(ActiveTeamMembers(job[r].team, {job[r].user}), 2) :
          job' = [job EXCEPT ![r].picked = S]
    BY <1>4 DEF CreatePickReviewers
  <2>2. \A u \in S : TeamOf(u) = TeamOf(job[r].user)
    BY <1>0, <1>1, <1>4, CandidatesFromTeam DEF CreatePickReviewers, FromTeam
  <2>3. pc'[r] = "cp_exists" /\ UNCHANGED tx
    BY <1>0, <1>4 DEF CreatePickReviewers, Goto
  <2>4. job'[r].op = "create" /\ job'[r].user = job[r].user /\ job'[r].picked = S
    BY <1>0, <1>1, <2>1 DEF Job
  <2> QED
    BY <1>0, <1>1, <2>2, <2>3, <2>4 DEF FromTeam, Replacing, Replacements
<1>5. CASE CreateCheckExists(r) /\ ~Reply(r, "PR_EXISTS")
  BY <1>0, <1>1, <1>5 DEF CreateCheckExists, Goto, FromTeam, Replacing, Replacements
<1>6. CASE CreateInsertPR(r) /\ ~Reply(r, "INTERNAL_ERROR")
  <2>1. UNCHANGED job /\ pc'[r] = "cp_reviewers" /\ tx'[r].users = tx[r].users
    BY <1>0, <1>6 DEF CreateInsertPR, Goto, TxState
  <2> QED
    BY <1>0, <1>1, <2>1 DEF FromTeam, Replacing, Replacements
<1>7. CASE CreateInsertReviewers(r)
  <2>1. UNCHANGED job /\ pc'[r] = "commit" /\ tx'[r].users = tx[r].users
    BY <1>0, <1>7 DEF CreateInsertReviewers, Goto, TxState
  <2> QED
    BY <1>0, <1>1, <2>1 DEF FromTeam, Replacing, Replacements
<1> QED
  BY <1>2, <1>3, <1>4, <1>5, <1>6, <1>7 DEF CreateStep, Codes

\* The calls of a reassignment before its transaction.
LEMMA ReassignFromTeam ==
  ASSUME StrongInv, KeepsMerged, TeamInv, NEW r \in Requests, ReassignStep(r)
  PROVE  FromTeam(r)'
<1>0. /\ job \in [Requests -> Job] /\ tx \in [Requests -> TxState] /\ pc \in [Requests -> Labels]
      /\ job[r] \in Job /\ tx[r] \in TxState /\ FromTeam(r) /\ Arguments(r) /\ SessionOK(r)
  BY DEF StrongInv, IInv, MergeInv, TypeOK, TeamInv, RequestOK
<1>1. job[r].op = "reassign" /\ job[r].user \in UserIDs /\ job[r].pr \in PRIDs /\ tx[r].new = {}
  BY <1>0 DEF ReassignStep, ReassignReadPR, ReassignReadReviewers, ReassignReadUser,
              ReassignPick, Arguments, OpsAt, SessionOK
<1>2. ASSUME NEW code \in Codes, Reply(r, code) PROVE FromTeam(r)'
  BY <1>2, EndedFromTeam
<1>3. CASE ReassignReadPR(r) /\ ~ \E code \in Codes : Reply(r, code)
  <2>1. UNCHANGED tx /\ pc'[r] = "ra_reviewers" /\ job'[r].op = job[r].op
    BY <1>0, <1>3 DEF ReassignReadPR, Goto, Job, Codes
  <2> QED
    BY <1>0, <1>1, <2>1 DEF FromTeam, Replacing
<1>4. CASE ReassignReadReviewers(r) /\ ~ \E code \in Codes : Reply(r, code)
  <2>1. /\ UNCHANGED <<prs, tx>> /\ pc'[r] = "ra_user" /\ job'[r].op = job[r].op
        /\ job'[r].user = job[r].user /\ job'[r].pr = job[r].pr
        /\ job[r].user \in reviewers[job[r].pr]
    BY <1>0, <1>4 DEF ReassignReadReviewers, Goto, Job, Codes, db
  <2>2. TeamOf(job[r].user) = TeamOf(prs[job[r].pr].author)
    BY <1>1, <2>1 DEF TeamInv
  <2> QED
    BY <1>0, <1>1, <2>1, <2>2 DEF FromTeam, Replacing
<1>5. CASE ReassignReadUser(r)
  <2>1. /\ UNCHANGED <<prs, tx>> /\ pc'[r] = "ra_candidates" /\ job'[r].op = job[r].op
        /\ job'[r].user = job[r].user /\ job'[r].pr = job[r].pr
        /\ job'[r].team = TeamOf(job[r].user) /\ pc[r] = "ra_user"
    BY <1>0, <1>1, <1>5 DEF ReassignReadUser, Goto, Job, db, TeamInv
  <2> QED
    BY <1>0, <1>1, <2>1 DEF FromTeam, Replacing
<1>6. CASE ReassignPick(r) /\ ~ \E code \in Codes : Reply(r, code)
  <2>1. PICK S \in RandomPicks(ActiveTeamMembers(job[r].team, Excluded(r)), 1) :
          job' = [job EXCEPT ![r].picked = S]
    BY <1>6 DEF ReassignPick, Codes
  <2>2. pc[r] = "ra_candidates" /\ pc'[r] = "rp_status" /\ UNCHANGED <<prs, tx>>
    BY <1>0, <1>6 DEF ReassignPick, Codes, Goto, db
  <2>3. \A u \in S : TeamOf(u) = TeamOf(prs[job[r].pr].author)
    <3>1. \A u \in S : TeamOf(u) = job[r].team
      BY CandidatesFromTeam
    <3> QED
      BY <1>0, <2>2, <3>1 DEF FromTeam
  <2>4. job'[r].op = job[r].op /\ job'[r].pr = job[r].pr /\ job'[r].picked = S
    BY <1>0, <2>1 DEF Job
  <2> QED
    BY <1>0, <1>1, <2>2, <2>3, <2>4 DEF FromTeam
<1> QED
  BY <1>2, <1>3, <1>4, <1>5, <1>6 DEF ReassignStep

\* The transaction of a replacement.
LEMMA ReplaceFromTeam ==
  ASSUME StrongInv, KeepsMerged, TeamInv, NEW r \in Requests, ReplaceStep(r)
  PROVE  FromTeam(r)'
<1>0. /\ job \in [Requests -> Job] /\ tx \in [Requests -> TxState] /\ pc \in [Requests -> Labels]
      /\ job[r] \in Job /\ tx[r] \in TxState /\ FromTeam(r) /\ Arguments(r) /\ SessionOK(r)
  BY DEF StrongInv, IInv, MergeInv, TypeOK, TeamInv, RequestOK
<1>1. ASSUME NEW code \in Codes, ReplaceFails(r, code) PROVE FromTeam(r)'
  BY <1>1, EndedFromTeam DEF ReplaceFails
<1>2. CASE ~ \E code \in Codes : ReplaceFails(r, code)
  <2>1. /\ UNCHANGED <<prs, job>> /\ job[r].op \in Replacements /\ pc[r] \in Replacing
        /\ pc'[r] \in Replacing \cup {"commit"}
    BY <1>0, <1>2
    DEF ReplaceStep, ReplaceReadStatus, ReplaceCheckAssigned, ReplaceDelete, ReplaceInsert,
        Goto, Codes, db, Replacing, Replacements, Arguments, OpsAt
  <2>2. tx'[r].users = tx[r].users /\ tx'[r].new \subseteq tx[r].new \cup job[r].picked
    BY <1>0, <1>2
    DEF ReplaceStep, ReplaceReadStatus, ReplaceCheckAssigned, ReplaceDelete, ReplaceInsert,
        Codes, TxState
  <2> QED
    BY <1>0, <2>1, <2>2 DEF FromTeam, Replacing, Replacements
<1> QED
  BY <1>1, <1>2

\* The calls of a mass deactivation outside of its replacements.
LEMMA DeactivateFromTeam ==
  ASSUME StrongInv, KeepsMerged, TeamInv, NEW r \in Requests, DeactivateStep(r)
  PROVE  FromTeam(r)'
<1>0. /\ job \in [Requests -> Job] /\ tx \in [Requests -> TxState] /\ pc \in [Requests -> Labels]
      /\ job[r] \in Job /\ tx[r] \in TxState /\ FromTeam(r) /\ RequestOK(r) /\ SessionOK(r)
      /\ users \in UserTable
  BY DEF StrongInv, IInv, MergeInv, TypeOK, TeamInv
<1>1. job[r].op = "deactivate" /\ job[r].team \in TeamNames /\ tx[r].new = {}
  BY <1>0 DEF DeactivateStep, DeactivateReadTeam, DeactivateTeamExists, DeactivateUpdate,
              DeactivateCommit, DeactivateListOpenPRs, DeactivateNextPR, DeactivateLoopEnds,
              DeactivateReadPR, DeactivateReadReviewers, DeactivatePick, DeactivateFinish,
              RequestOK, Arguments, OpsAt, SessionOK
\* What is still to be gone through keeps its authors.
<1>2. \A u \in UserIDs : \A p \in job[r].work[u] :
        TeamOf(prs'[p].author) = job[r].team
  BY <1>0, <1>1 DEF Job, RequestOK, ReadsLast, KeepsMerged, FromTeam
<1>3. ASSUME NEW code \in Codes, Reply(r, code) PROVE FromTeam(r)'
  BY <1>3, EndedFromTeam
\* Steps after which nothing is to be known but what was known before.
<1>4. ASSUME job'[r].op = job[r].op, job'[r].team = job[r].team, job'[r].picked = job[r].picked,
             job'[r].targets = job[r].targets, job'[r].work = job[r].work,
             tx'[r].new = {},
             \A u \in UserIDs : tx'[r].users[u] # Null => tx'[r].users[u].team = TeamOf(u),
             pc'[r] \in {"md_exists", "md_update", "md_commit", "md_list", "md_next", "md_finish"}
      PROVE  FromTeam(r)'
  BY <1>0, <1>1, <1>2, <1>4 DEF FromTeam, Replacing, Replacements
<1>5. CASE DeactivateReadTeam(r) /\ ~ \E code \in Codes : Reply(r, code)
  <2>1. CASE UNCHANGED job
    BY <1>0, <1>1, <1>4, <1>5, <2>1 DEF DeactivateReadTeam, Goto, Codes, FromTeam
  <2>2. CASE ~UNCHANGED job
    <3>1. /\ job' = [job EXCEPT ![r].targets = DeactivationTargets(job[r].team, job[r].ids),
                               ![r].ids = DeactivationTargets(job[r].team, job[r].ids)]
          /\ UNCHANGED tx /\ pc'[r] = "md_update" /\ job[r].ids \subseteq Members(job[r].team)
      BY <1>0, <1>5, <2>2 DEF DeactivateReadTeam, Goto, Codes
    <3>2. \A u \in DeactivationTargets(job[r].team, job[r].ids) : TeamOf(u) = job[r].team
      BY <3>1 DEF DeactivationTargets, Members, TeamInv
    <3>3. /\ job'[r].op = job[r].op /\ job'[r].team = job[r].team
          /\ job'[r].targets = DeactivationTargets(job[r].team, job[r].ids)
          /\ job'[r].work = job[r].work
      BY <1>0, <3>1 DEF Job
    <3> QED
      BY <1>0, <1>1, <1>2, <3>1, <3>2, <3>3 DEF FromTeam, Replacing, Replacements
  <2> QED
    BY <2>1, <2>2
<1>6. CASE DeactivateUpdate(r)
  <2>1. PICK u \in job[r].ids :
          /\ tx' = [tx EXCEPT ![r].users = [@ EXCEPT ![u] = [users[u] EXCEPT !.active = FALSE]]]
          /\ job' = [job EXCEPT ![r].ids = @ \ {u}]
    BY <1>6 DEF DeactivateUpdate
  <2>2. u \in UserIDs /\ users[u] \in UserRow /\ pc'[r] \in {"md_update", "md_commit"}
    BY <1>0, <1>6 DEF DeactivateUpdate, Goto, Job, RequestOK, ReadsLast, Known, UserTable
  <2> DEFINE row == [users[u] EXCEPT !.active = FALSE]
  <2>3. row.team = TeamOf(u)
    BY <2>2 DEF UserRow, TeamInv
  <2> HIDE DEF row
  <2>4. tx' = [tx EXCEPT ![r].users = [@ EXCEPT ![u] = row]]
    BY <2>1 DEF row
  <2>5. /\ tx'[r].new = {}
        /\ \A v \in UserIDs : tx'[r].users[v] # Null => tx'[r].users[v].team = TeamOf(v)
    BY <1>0, <1>1, <2>2, <2>3, <2>4 DEF TxState, UserTable, FromTeam
  <2>6. /\ job'[r].op = job[r].op /\ job'[r].team = job[r].team /\ job'[r].picked = job[r].picked
        /\ job'[r].targets = job[r].targets /\ job'[r].work = job[r].work
    BY <1>0, <2>1 DEF Job
  <2> QED
    BY <1>4, <2>2, <2>5, <2>6
<1>7. CASE DeactivateCommit(r)
  <2>1. UNCHANGED job /\ tx' = [tx EXCEPT ![r] = NoTx] /\ pc'[r] = "md_list"
    BY <1>0, <1>7 DEF DeactivateCommit, Publish, Goto
  <2>2. tx'[r].new = {} /\ \A u \in UserIDs : tx'[r].users[u] = Null
    BY <1>0, <2>1 DEF NoTx
  <2> QED
    BY <1>4, <2>1, <2>2
<1>8. CASE DeactivateListOpenPRs(r)
  <2> DEFINE listed == [u \in UserIDs |->
               IF u \in job[r].targets
               THEN {p \in PRIDs : u \in reviewers[p] /\ prs[p].status = "OPEN"}
               ELSE {}]
  <2>1. job' = [job EXCEPT ![r].work = listed] /\ UNCHANGED <<prs, tx>> /\ pc'[r] = "md_next"
    BY <1>0, <1>8 DEF DeactivateListOpenPRs, Goto, db
  <2>2. \A u \in UserIDs : \A p \in listed[u] : TeamOf(prs[p].author) = job[r].team
    BY <1>0, <1>1 DEF FromTeam, TeamInv
  <2> HIDE DEF listed
  <2>3. /\ job'[r].op = job[r].op /\ job'[r].team = job[r].team
        /\ job'[r].targets = job[r].targets /\ job'[r].work = listed
    BY <1>0, <2>1 DEF Job
  <2> QED
    BY <1>0, <1>1, <2>1, <2>2, <2>3 DEF FromTeam, Replacing, Replacements
<1>9. CASE DeactivateNextPR(r)
  <2> PICK u \in CurrentUsers(r) : \E p \in job[r].work[u] :
        job' = [job EXCEPT ![r] = [@ EXCEPT !.user = u, !.pr = p,
                                            !.work = [job[r].work EXCEPT ![u] = @ \ {p}]]]
    BY <1>9 DEF DeactivateNextPR
  <2>1. PICK p \in job[r].work[u] :
          job' = [job EXCEPT ![r] = [@ EXCEPT !.user = u, !.pr = p,
                                              !.work = [job[r].work EXCEPT ![u] = @ \ {p}]]]
    OBVIOUS
  <2> DEFINE rest == [job[r].work EXCEPT ![u] = @ \ {p}]
  <2>2. UNCHANGED <<prs, tx>> /\ pc'[r] = "md_pr"
    BY <1>0, <1>9 DEF DeactivateNextPR, Goto, db
  <2>3. u \in UserIDs
    BY <1>0 DEF CurrentUsers, Job
  <2>4. TeamOf(prs[p].author) = job[r].team
        /\ \A v \in UserIDs : rest[v] \subseteq job[r].work[v]
    BY <1>0, <1>1, <2>3 DEF FromTeam, Job
  <2>5. job' = [job EXCEPT ![r] = [@ EXCEPT !.user = u, !.pr = p, !.work = rest]]
    BY <2>1
  <2> HIDE DEF rest
  <2>6. /\ job'[r].op = job[r].op /\ job'[r].team = job[r].team /\ job'[r].pr = p
        /\ job'[r].targets = job[r].targets /\ job'[r].work = rest
    BY <1>0, <2>5 DEF Job
  <2> QED
    BY <1>0, <1>1, <1>2, <2>2, <2>4, <2>6 DEF FromTeam, Replacing, Replacements
<1>10. CASE DeactivateReadPR(r) \/ DeactivateReadReviewers(r)
  <2>1. /\ UNCHANGED <<prs, tx>> /\ pc[r] \in {"md_pr", "md_reviewers"}
        /\ pc'[r] \in {"md_reviewers", "md_candidates"}
    BY <1>0, <1>10 DEF DeactivateReadPR, DeactivateReadReviewers, Goto, db
  <2>2. /\ job'[r].op = job[r].op /\ job'[r].team = job[r].team /\ job'[r].pr = job[r].pr
        /\ job'[r].targets = job[r].targets /\ job'[r].work = job[r].work
    BY <1>0, <1>10 DEF DeactivateReadPR, DeactivateReadReviewers, Job
  <2> QED
    BY <1>0, <1>1, <2>1, <2>2 DEF FromTeam, Replacing, Replacements
<1>11. CASE DeactivatePick(r)
  <2>1. PICK S \in RandomPicks(ActiveTeamMembers(job[r].team, Excluded(r)), 1) :
          job' = [job EXCEPT ![r].picked = S]
    BY <1>11 DEF DeactivatePick
  <2>2. UNCHANGED <<prs, tx>> /\ pc[r] = "md_candidates" /\ pc'[r] = "rp_status"
    BY <1>0, <1>11 DEF DeactivatePick, Goto, db
  <2>3. \A u \in S : TeamOf(u) = TeamOf(prs[job[r].pr].author)
    <3>1. \A u \in S : TeamOf(u) = job[r].team
      BY CandidatesFromTeam
    <3> QED
      BY <1>0, <2>2, <3>1 DEF FromTeam
  <2>4. /\ job'[r].op = job[r].op /\ job'[r].team = job[r].team /\ job'[r].pr = job[r].pr
        /\ job'[r].targets = job[r].targets /\ job'[r].work = job[r].work /\ job'[r].picked = S
    BY <1>0, <2>1 DEF Job
  <2> QED
    BY <1>0, <1>1, <2>2, <2>3, <2>4 DEF FromTeam, Replacing, Replacements
<1>12. CASE DeactivateTeamExists(r) \/ DeactivateFinish(r)
  BY <1>3, <1>12 DEF DeactivateTeamExists, DeactivateFinish, Codes
<1>13. CASE DeactivateLoopEnds(r)
  BY <1>0, <1>1, <1>4, <1>13 DEF DeactivateLoopEnds, Goto, FromTeam
<1> QED
  BY <1>3, <1>5, <1>6, <1>7, <1>8, <1>9, <1>10, <1>11, <1>12, <1>13 DEF DeactivateStep

\* Every step of a request.
LEMMA OwnFromTeam ==
  ASSUME NobodyMoves, StrongInv, KeepsMerged, TeamInv, NEW r \in Requests,
         Arrive(r) \/ Step(r) \/ Failure(r)
  PROVE  FromTeam(r)'
<1>0. /\ job \in [Requests -> Job] /\ tx \in [Requests -> TxState] /\ pc \in [Requests -> Labels]
      /\ job[r] \in Job /\ tx[r] \in TxState /\ FromTeam(r) /\ RequestOK(r) /\ SessionOK(r)
  BY DEF StrongInv, IInv, MergeInv, TypeOK, TeamInv
<1>1. job[r].op # "add_team"
  BY <1>0 DEF FromTeam, NobodyMoves
<1>2. ASSUME NEW code \in Codes, Reply(r, code) PROVE FromTeam(r)'
  BY <1>2, EndedFromTeam
\* A step after which only the loop of a deactivation has something to know.
<1>3. ASSUME UNCHANGED job, tx'[r].new = {},
             \A u \in UserIDs : tx'[r].users[u] # Null => tx'[r].users[u].team = TeamOf(u),
             pc'[r] \in {"readback", "md_next"}
      PROVE  FromTeam(r)'
  <2>1. job[r].op = "deactivate" =>
          \A u \in UserIDs : \A p \in job[r].work[u] : TeamOf(prs'[p].author) = job[r].team
    BY <1>0 DEF Job, RequestOK, ReadsLast, KeepsMerged, FromTeam
  <2> QED
    BY <1>0, <1>3, <2>1 DEF FromTeam, Replacing
<1>4. CASE TeamStep(r)
  <2>1. SetUserActivity(r)
    BY <1>0, <1>1, <1>4
    DEF TeamStep, AddTeamCheckExists, AddTeamInsert, AddTeamUpsert, RequestOK, Arguments, OpsAt
  <2>2. CASE ~Reply(r, "NOT_FOUND")
    <3>1. UNCHANGED <<job, tx>> /\ pc'[r] = "readback" /\ pc[r] = "sa_update"
      BY <1>0, <2>1, <2>2 DEF SetUserActivity, Goto
    <3>2. tx'[r].new = {}
      BY <1>0, <3>1 DEF SessionOK
    <3> QED
      BY <1>0, <1>3, <3>1, <3>2 DEF FromTeam
  <2> QED
    BY <1>2, <2>2 DEF Codes
<1>5. CASE MergeStep(r)
  <2>1. job[r].op = "merge"
    BY <1>0, <1>5 DEF MergeStep, MergeReadStatus, MergeUpdate, RequestOK, Arguments, OpsAt
  <2>2. CASE ~Reply(r, "NOT_FOUND")
    <3>1. /\ UNCHANGED job /\ pc'[r] \in {"commit", "mg_update"}
          /\ tx'[r].users = tx[r].users
      BY <1>0, <1>5, <2>2 DEF MergeStep, MergeReadStatus, MergeUpdate, Goto, TxState
    <3> QED
      BY <1>0, <2>1, <3>1 DEF FromTeam, Replacing, Replacements
  <2> QED
    BY <1>2, <2>2 DEF Codes
<1>6. CASE Commit(r)
  <2>1. UNCHANGED job /\ tx' = [tx EXCEPT ![r] = NoTx] /\ pc'[r] = "readback"
    BY <1>0, <1>6 DEF Commit, Publish, Goto
  <2>2. tx'[r].new = {} /\ \A u \in UserIDs : tx'[r].users[u] = Null
    BY <1>0, <2>1 DEF NoTx
  <2> QED
    BY <1>3, <2>1, <2>2
<1>7. CASE ReadBack(r)
  <2>1. CASE ~Reply(r, "OK")
    <3>1. UNCHANGED <<job, tx>> /\ pc'[r] = "md_next" /\ tx[r].new = {}
      BY <1>0, <1>7, <2>1 DEF ReadBack, Goto, SessionOK
    <3> QED
      BY <1>0, <1>3, <3>1 DEF FromTeam
  <2> QED
    BY <1>2, <2>1 DEF Codes
<1>8. CASE Failure(r)
  BY <1>8, EndedFromTeam
  DEF Failure, CallError, DeactivateExpires, CommitAnswerLost, DeadlockAbort, CallFails,
      InLoop, Codes
<1> QED
  BY <1>4, <1>5, <1>6, <1>7, <1>8, ArrivedFromTeam, CreateFromTeam, ReassignFromTeam,
     ReplaceFromTeam, DeactivateFromTeam
  DEF Step

\* The other requests: authors stay with their PRs.
LEMMA OthersFromTeam ==
  ASSUME StrongInv, KeepsMerged, NEW r \in Requests, OnlyMoves(r),
         NEW s \in Requests \ {r}, FromTeam(s)
  PROVE  FromTeam(s)'
<1>0. RequestOK(s) /\ SessionOK(s) /\ job[s] \in Job
  BY DEF StrongInv, IInv, MergeInv, TypeOK
<1>1. pc'[s] = pc[s] /\ job'[s] = job[s] /\ tx'[s] = tx[s]
  BY DEF OnlyMoves
<1>2. \A u \in UserIDs : \A p \in job[s].work[u] : prs'[p].author = prs[p].author
  BY <1>0 DEF Job, RequestOK, ReadsLast, KeepsMerged
<1>3. pc[s] \in Found \ {"mg_update"} => prs'[job[s].pr].author = prs[job[s].pr].author
  <2>1. pc[s] \in Found \ {"mg_update"} => job[s].pr \in PRIDs
    BY <1>0 DEF RequestOK, Arguments, OpsAt, InLoop, Found, Replacing
  <2> QED
    BY <1>0, <2>1 DEF RequestOK, ReadsLast, KeepsMerged
<1>4. job[s].op \in Replacements /\ tx[s].new # {}
        => prs'[job[s].pr].author = prs[job[s].pr].author
  <2>1. job[s].op \in Replacements /\ tx[s].new # {} => job[s].pr \in PRIDs /\ Exists(job[s].pr)
    BY <1>0 DEF RequestOK, Written, SessionOK, Replacements
  <2> QED
    BY <2>1 DEF KeepsMerged
<1> QED
  BY <1>1, <1>2, <1>3, <1>4 DEF FromTeam, Found, Replacing

\* A commit brings no reviewer from another team, and moves no user.
LEMMA PublishFromTeam ==
  ASSUME StrongInv, KeepsMerged, TeamInv, NEW r \in Requests, Publish(r)
  PROVE  /\ \A u \in UserIDs : users'[u].team = TeamOf(u)
         /\ \A p \in PRIDs : \A u \in reviewers'[p] : TeamOf(u) = TeamOf(prs'[p].author)
<1>0. /\ FromTeam(r) /\ RequestOK(r) /\ SessionOK(r) /\ SlotsOK(r)
      /\ ForeignKeysHold
  BY DEF StrongInv, IInv, MergeInv, SlotInv, TeamInv
<1>1. \A u \in UserIDs : users'[u].team = TeamOf(u)
  BY <1>0 DEF Publish, TeamInv, FromTeam
<1>2. ASSUME NEW p \in PRIDs, NEW u \in reviewers'[p]
      PROVE  TeamOf(u) = TeamOf(prs'[p].author)
  <2>1. CASE u \in reviewers[p]
    <3>1. prs'[p].author = prs[p].author
      BY <1>0, <2>1 DEF ForeignKeysHold, KeepsMerged
    <3> QED
      BY <2>1, <3>1 DEF TeamInv
  <2>2. CASE u \notin reviewers[p]
    <3>1. p = job[r].pr /\ u \in tx[r].new
      BY <1>2, <2>2 DEF Publish
    <3>2. CASE job[r].op = "create"
      <4>1. tx[r].pr # Null /\ tx[r].pr.author = job[r].user /\ u \in job[r].picked
        BY <1>0, <3>1, <3>2 DEF RequestOK, Written, SlotsOK
      <4>2. prs'[p].author = job[r].user
        BY <3>1, <4>1 DEF Publish, HoldsPR
      <4> QED
        BY <1>0, <3>2, <4>1, <4>2 DEF FromTeam
    <3>3. CASE job[r].op # "create"
      <4>1. job[r].op \in Replacements /\ Exists(p)
        BY <1>0, <3>1, <3>3 DEF SessionOK, Replacements
      <4>2. prs'[p].author = prs[p].author
        BY <4>1 DEF KeepsMerged
      <4> QED
        BY <1>0, <3>1, <4>1, <4>2 DEF FromTeam
    <3> QED
      BY <3>2, <3>3
  <2> QED
    BY <2>1, <2>2
<1> QED
  BY <1>1, <1>2

\* Every step preserves the invariant.
LEMMA TeamInvNext ==
  ASSUME NobodyMoves, StrongInv, TeamInv, [Next]_vars
  PROVE  TeamInv'
<1>0. IInv /\ MergeInv /\ KeepsMerged
  BY NextKeepsMerged DEF StrongInv
<1>1. ASSUME NEW r \in Requests, Arrive(r) \/ Step(r) \/ Failure(r) PROVE TeamInv'
  <2>1. SessionOK(r) /\ Timed(r)
    BY <1>0 DEF MergeInv
  <2>2. OnlyMoves(r) /\ (RowsStay \/ Publish(r))
    BY <1>0, <1>1, <2>1, ArriveClean, StepKinds
  <2>3. \A s \in Requests : FromTeam(s)'
    BY <1>0, <1>1, <2>2, OwnFromTeam, OthersFromTeam DEF TeamInv
  <2>4. \A u \in UserIDs : users'[u].team = TeamOf(u)
    <3>1. CASE UNCHANGED users
      BY <3>1 DEF TeamInv
    <3>2. CASE Publish(r)
      BY <1>0, <3>2, PublishFromTeam
    <3>3. CASE SetUserActivity(r) /\ ~UNCHANGED users
      <4>1. users' = [users EXCEPT ![job[r].user] = [@ EXCEPT !.active = job[r].user \in job[r].on]]
            /\ users[job[r].user] # Null
        BY <3>3 DEF SetUserActivity
      <4> DEFINE row == [users[job[r].user] EXCEPT !.active = job[r].user \in job[r].on]
      <4>2. users \in [UserIDs -> UserRow \cup {Null}]
        BY <1>0 DEF IInv, TypeOK, UserTable
      <4>3. job[r].user \in UserIDs => row.team = TeamOf(job[r].user)
        BY <4>1, <4>2 DEF UserRow, TeamInv
      <4>4. users' = [users EXCEPT ![job[r].user] = row]
        BY <4>1
      <4> HIDE DEF row
      <4> QED
        BY <4>2, <4>3, <4>4 DEF TeamInv
    <3> QED
      BY <1>1, <3>1, <3>2, <3>3, TeamsStay
  <2>5. \A p \in PRIDs : \A u \in reviewers'[p] : TeamOf(u) = TeamOf(prs'[p].author)
    BY <1>0, <2>2, PublishFromTeam DEF RowsStay, TeamInv
  <2> QED
    BY <2>3, <2>4, <2>5 DEF TeamInv
<1>2. CASE Crash
  <2>1. \A r \in Requests : FromTeam(r)'
    <3> SUFFICES ASSUME NEW r \in Requests PROVE FromTeam(r)'
      OBVIOUS
    <3>1. tx'[r].new = {} /\ \A u \in UserIDs : tx'[r].users[u] = Null
      BY <1>2 DEF Crash, NoTx
    <3>2. CASE pc[r] = "done"
      BY <1>2, <3>1, <3>2 DEF Crash, db, TeamInv, FromTeam, Replacing
    <3>3. CASE pc[r] # "done"
      BY <1>2, <3>1, <3>3 DEF Crash, NoJob, FromTeam, Replacing
    <3> QED
      BY <3>2, <3>3
  <2> QED
    BY <1>2, <2>1 DEF Crash, db, TeamInv
<1>3. CASE Terminating \/ UNCHANGED vars
  <2>0. UNCHANGED <<users, prs, reviewers, pc, job, tx>>
    BY <1>3 DEF Terminating, vars
  <2>1. \A r \in Requests : FromTeam(r)'
    BY <2>0 DEF TeamInv, FromTeam
  <2> QED
    BY <2>0, <2>1 DEF TeamInv
<1> QED
  BY <1>1, <1>2, <1>3 DEF Next

\* As long as nobody changes teams, every user a request on its way replaces, draws or
\* inserts is of the team of the author of its PR (pickReplacement, MassDeactivate);
\* inductive relative to StrongInv.
THEOREM TeamInvariant ==
  ASSUME NobodyMoves, SeedFromTeam
  PROVE  Spec => [](StrongInv /\ TeamInv)
<1>1. Init => TeamInv
  BY InitTeamInv
<1>2. StrongInv /\ TeamInv /\ [Next]_vars => TeamInv'
  BY TeamInvNext
<1> QED
  BY <1>1, <1>2, StrongInvariant, PTL DEF Spec

\* As long as nobody changes teams, the reviewers of a PR are of the team of its author,
\* through any number of replacements and whatever they are interleaved with
\* (CreatePullRequest, ReassignReviewer, MassDeactivate).
THEOREM ReviewersStayInTeam ==
  ASSUME NobodyMoves, SeedFromTeam
  PROVE  Spec => []ReviewersFromAuthorsTeam
<1>1. StrongInv /\ TeamInv => ReviewersFromAuthorsTeam
  <2> SUFFICES ASSUME StrongInv, TeamInv, NEW p \in PRIDs, NEW u \in reviewers[p]
               PROVE  users[u].team = users[prs[p].author].team
    BY DEF ReviewersFromAuthorsTeam
  <2>1. Exists(p) /\ u \in UserIDs
    BY DEF StrongInv, IInv, ForeignKeysHold, TypeOK, ReviewerTable
  <2>2. prs[p].author \in UserIDs
    BY <2>1 DEF StrongInv, IInv, TypeOK, PRTable, PRRow, Exists
  <2> QED
    BY <2>1, <2>2 DEF TeamInv
<1> QED
  BY <1>1, TeamInvariant, PTL

------------------------------------------------------------------------------
\* The invariant FreedInv.

\* Users change by requests that have drawn nobody.
LEMMA UsersWriter ==
  ASSUME StrongInv, NEW r \in Requests, Arrive(r) \/ Step(r) \/ Failure(r)
  PROVE  \/ UNCHANGED users
         \/ /\ job[r].op \in {"set_active", "deactivate", "add_team"}
            /\ job[r].picked = {}
<1>0. Arguments(r) /\ UsersOK(r) /\ users \in [UserIDs -> UserRow \cup {Null}]
  BY DEF StrongInv, IInv, RequestOK, UserInv, TypeOK, UserTable
<1>1. CASE SetUserActivity(r)
  <2>1. job[r].op = "set_active"
    BY <1>0, <1>1 DEF SetUserActivity, Arguments, OpsAt
  <2> QED
    BY <1>0, <2>1 DEF UsersOK
<1>2. CASE Publish(r) /\ WritesUsers(r)
  <2>1. /\ pc[r] = "at_upsert" => job[r].op = "add_team"
        /\ pc[r] \in {"md_update", "md_commit"} => job[r].op = "deactivate"
    BY <1>0 DEF Arguments, OpsAt
  <2> QED
    BY <1>0, <1>2, <2>1 DEF UsersOK
<1>3. CASE Publish(r) /\ ~WritesUsers(r)
  BY <1>0, <1>3 DEF Publish, WritesUsers
<1> QED
  BY <1>1, <1>2, <1>3, TeamsStay

\* What it reads of the tables, after a step that takes nothing back.
TablesKept ==
  /\ UNCHANGED <<users, reviewers>>
  /\ \A p \in PRIDs : Merged(p) => Merged(p)'

\* The requests beside a mass deactivation change none of it.
LEMMA MergesBeside ==
  ASSUME StrongInv, KeepsMerged, NEW r \in Requests, Arrive(r) \/ Step(r) \/ Failure(r),
         job[r].op \in {"merge", "none"}
  PROVE  TablesKept
<1>0. IInv /\ MergeInv /\ SessionOK(r) /\ Timed(r) /\ reviewers \in [PRIDs -> SUBSET UserIDs]
  BY DEF StrongInv, MergeInv, IInv, TypeOK, ReviewerTable
<1>1. UNCHANGED users
  BY UsersWriter
<1>2. UNCHANGED reviewers
  <2>1. tx[r].gone = {} /\ tx[r].new = {}
    BY <1>0 DEF SessionOK
  <2>2. RowsStay \/ Publish(r)
    BY <1>0, ArriveClean, StepKinds
  <2> QED
    BY <1>0, <2>1, <2>2 DEF RowsStay, Publish
<1> QED
  BY <1>1, <1>2 DEF KeepsMerged, Merged, Exists, TablesKept

LEMMA FreedOthers ==
  ASSUME NEW s \in Requests, FreedOK(s), TablesKept,
         pc'[s] = pc[s], job'[s] = job[s], tx'[s] = tx[s]
  PROVE  FreedOK(s)'
<1>1. \A p \in PRIDs : ~Merged(p)' => ~Merged(p)
  BY DEF TablesKept
<1>2. \A u, p : AtHand(s, u, p)' <=> AtHand(s, u, p)
  BY DEF AtHand
<1> QED
  BY <1>1, <1>2 DEF FreedOK, TablesKept

\* An answer that is not OK, or of another operation.
LEMMA FreedAnswer ==
  ASSUME IInv, NEW r \in Requests, NEW code \in Codes \ {"OK"}, Reply(r, code)
  PROVE  FreedOK(r)'
<1>0. job \in [Requests -> Job] /\ pc \in [Requests -> Labels] /\ job[r] \in Job
  BY DEF IInv, TypeOK
<1>1. job' = [job EXCEPT ![r] = Answer(r, code)] /\ pc'[r] = "done"
  BY <1>0 DEF Reply, Answer, Goto
<1>2. job'[r] = Answer(r, code)
  BY <1>0, <1>1
<1>3. job'[r].picked = {} /\ job'[r].res = code
  BY <1>2 DEF Answer, NoJob
<1> QED
  BY <1>1, <1>3 DEF FreedOK, AtPR, Replacing

\* The answer OK, once the lists are empty or when there was nobody to deactivate.
LEMMA FreedAnswerOK ==
  ASSUME IInv, NEW r \in Requests, FreedOK(r), job[r].op = "deactivate",
         Reply(r, "OK"), UNCHANGED db, pc[r] \in {"md_team", "md_exists", "md_finish"}
  PROVE  FreedOK(r)'
<1>0. job \in [Requests -> Job] /\ pc \in [Requests -> Labels] /\ job[r] \in Job
  BY DEF IInv, TypeOK
<1>1. job' = [job EXCEPT ![r] = Answer(r, "OK")] /\ pc'[r] = "done"
  BY <1>0 DEF Reply, Answer, Goto
<1>2. job'[r] = Answer(r, "OK")
  BY <1>0, <1>1
<1>3. /\ job'[r].picked = {} /\ job'[r].targets = job[r].targets
      /\ job'[r].skipped = job[r].skipped /\ \A u \in UserIDs : job'[r].work[u] = {}
  BY <1>2 DEF Answer, NoJob
<1>4. ASSUME NEW u \in job[r].targets \ job[r].skipped, NEW p \in PRIDs,
             u \in reviewers[p], ~Merged(p)
      PROVE  FALSE
  <2>1. pc[r] = "md_finish" /\ u \in UserIDs
    BY <1>0 DEF FreedOK, Job
  <2>2. p \in job[r].work[u] \/ AtHand(r, u, p)
    BY <1>4, <2>1 DEF FreedOK
  <2>3. ~AtHand(r, u, p)
    BY <2>1 DEF AtHand, AtPR, Replacing
  <2> QED
    BY <2>1, <2>2, <2>3 DEF FreedOK
<1>5. reviewers' = reviewers /\ \A p \in PRIDs : Merged(p)' <=> Merged(p)
  BY DEF db, Merged, Exists
<1> QED
  BY <1>1, <1>3, <1>4, <1>5 DEF FreedOK, AtPR, Replacing

\* A call of the loop fails: the user is reported as skipped.
LEMMA FreedSkip ==
  ASSUME IInv, NEW r \in Requests, FreedOK(r), job[r].op = "deactivate",
         pc[r] \in AtPR \cup {"readback"}, SkipUser(r), UNCHANGED users,
         \A p \in PRIDs : Merged(p) => Merged(p)',
         \A u \in job[r].targets, p \in PRIDs : u \in reviewers'[p] => u \in reviewers[p]
  PROVE  FreedOK(r)'
<1>0. job \in [Requests -> Job] /\ pc \in [Requests -> Labels] /\ job[r] \in Job
  BY DEF IInv, TypeOK
<1> DEFINE w == [job[r].work EXCEPT ![job[r].user] = {}]
           k == job[r].skipped \cup {job[r].user}
<1>1. \A u \in UserIDs : u # job[r].user => w[u] = job[r].work[u]
  BY <1>0 DEF Job
<1>2. pc'[r] = "md_next" /\ job' = [job EXCEPT ![r].skipped = k, ![r].work = w]
  BY <1>0 DEF SkipUser, Goto
<1> HIDE DEF w, k
<1>3. /\ job'[r].picked = job[r].picked /\ job'[r].targets = job[r].targets
      /\ job'[r].skipped = k /\ job'[r].work = w
  BY <1>0, <1>2 DEF Job
<1>4. ASSUME NEW u \in job'[r].targets \ job'[r].skipped, NEW p \in PRIDs,
             u \in reviewers'[p], ~Merged(p)'
      PROVE  p \in job'[r].work[u]
  <2>1. u \in job[r].targets \ job[r].skipped /\ u # job[r].user /\ u \in UserIDs
    BY <1>0, <1>3 DEF k, Job
  <2>2. u \in reviewers[p] /\ ~Merged(p)
    BY <1>4, <2>1
  <2>3. p \in job[r].work[u] \/ AtHand(r, u, p)
    BY <2>1, <2>2 DEF FreedOK
  <2> QED
    BY <1>1, <1>3, <2>1, <2>3 DEF AtHand
<1>5. \A u \in job'[r].targets : ~users'[u].active
  BY <1>3 DEF FreedOK
<1>6. job'[r].picked \cap job'[r].targets = {}
  BY <1>3 DEF FreedOK
<1> QED
  BY <1>2, <1>4, <1>5, <1>6 DEF FreedOK, AtPR, Replacing

\* A step in the loop that keeps the lists and the PR at hand.
LEMMA FreedLoop ==
  ASSUME NEW r \in Requests, FreedOK(r), job[r].op = "deactivate", UNCHANGED db,
         pc[r] \in AtPR, pc'[r] \in AtPR,
         job'[r].user = job[r].user, job'[r].pr = job[r].pr, job'[r].work = job[r].work,
         job'[r].targets = job[r].targets, job'[r].skipped = job[r].skipped,
         job'[r].picked \cap job[r].targets = {},
         pc'[r] \in {"rp_insert", "commit"} =>
           {job[r].user} \cap reviewers[job[r].pr] \subseteq tx'[r].gone
  PROVE  FreedOK(r)'
<1>1. \A u, p : AtHand(r, u, p)' <=> AtHand(r, u, p)
  BY DEF AtHand
<1>2. reviewers' = reviewers /\ users' = users /\ \A p \in PRIDs : Merged(p)' <=> Merged(p)
  BY DEF db, Merged, Exists
<1>3. pc'[r] \notin {"md_team", "md_exists", "md_update", "md_commit", "md_finish", "done"}
  BY DEF AtPR, Replacing
<1> QED
  BY <1>1, <1>2, <1>3 DEF FreedOK

\* A COMMIT of the loop brings no review of a user to deactivate.
LEMMA LoopPublish ==
  ASSUME StrongInv, NEW r \in Requests, FreedOK(r), job[r].op = "deactivate", Publish(r),
         pc[r] = "commit"
  PROVE  /\ UNCHANGED users
         /\ \A u \in job[r].targets, p \in PRIDs :
              u \in reviewers'[p] => u \in reviewers[p] /\ ~(p = job[r].pr /\ u \in tx[r].gone)
<1>0. UsersOK(r) /\ SlotsOK(r) /\ users \in [UserIDs -> UserRow \cup {Null}]
  BY DEF StrongInv, IInv, UserInv, SlotInv, TypeOK, UserTable
<1>1. UNCHANGED users
  <2>1. ~WritesUsers(r)
    BY <1>0 DEF UsersOK
  <2> QED
    BY <1>0, <2>1 DEF Publish, WritesUsers
<1>2. tx[r].new \cap job[r].targets = {}
  BY <1>0 DEF SlotsOK, FreedOK
<1> QED
  BY <1>1, <1>2 DEF Publish

\* The steps of ReplaceReviewer.
LEMMA FreedReplace ==
  ASSUME StrongInv, NEW r \in Requests, FreedOK(r), job[r].op = "deactivate", ReplaceStep(r)
  PROVE  FreedOK(r)'
<1>0. /\ job \in [Requests -> Job] /\ tx \in [Requests -> TxState] /\ pc \in [Requests -> Labels]
      /\ job[r] \in Job /\ tx[r] \in TxState /\ IInv
  BY DEF StrongInv, IInv, TypeOK
<1>1. pc[r] \in Replacing /\ UNCHANGED db
  BY DEF ReplaceStep, ReplaceReadStatus, ReplaceCheckAssigned, ReplaceDelete, ReplaceInsert,
         Replacing
<1>2. ASSUME NEW code \in Codes, ReplaceFails(r, code) PROVE FreedOK(r)'
  <2>1. SkipUser(r)
    BY <1>2 DEF ReplaceFails
  <2>2. UNCHANGED <<users, reviewers, prs>>
    BY <1>1 DEF db
  <2> QED
    BY <1>0, <1>1, <2>1, <2>2, FreedSkip DEF AtPR, Merged, Exists
<1>3. ASSUME UNCHANGED job, pc'[r] \in AtPR,
             pc'[r] \in {"rp_insert", "commit"} =>
               {job[r].user} \cap reviewers[job[r].pr] \subseteq tx'[r].gone
      PROVE  FreedOK(r)'
  <2>1. job[r].picked \cap job[r].targets = {}
    BY DEF FreedOK
  <2> QED
    BY <1>1, <1>3, <2>1, FreedLoop DEF AtPR
<1>4. CASE (ReplaceReadStatus(r) \/ ReplaceCheckAssigned(r))
           /\ ~ \E code \in Codes : ReplaceFails(r, code)
  <2>1. UNCHANGED job /\ pc'[r] \in {"rp_assigned", "rp_delete"}
    BY <1>0, <1>4 DEF ReplaceReadStatus, ReplaceCheckAssigned, Goto, Codes
  <2> QED
    BY <1>3, <2>1 DEF AtPR, Replacing
<1>5. CASE ReplaceDelete(r)
  <2>1. UNCHANGED job /\ pc'[r] \in {"rp_insert", "commit"}
        /\ tx'[r].gone = {job[r].user} \cap reviewers[job[r].pr]
    BY <1>0, <1>5 DEF ReplaceDelete, Goto, TxState
  <2> QED
    BY <1>3, <2>1 DEF AtPR, Replacing
<1>6. CASE ReplaceInsert(r) /\ ~ \E code \in Codes : ReplaceFails(r, code)
  <2>1. /\ UNCHANGED job /\ pc[r] = "rp_insert" /\ pc'[r] = "commit"
        /\ tx' = [tx EXCEPT ![r].new = job[r].picked]
    BY <1>0, <1>6 DEF ReplaceInsert, Goto, Codes
  <2>2. tx'[r].gone = tx[r].gone
    BY <1>0, <2>1 DEF TxState
  <2>3. {job[r].user} \cap reviewers[job[r].pr] \subseteq tx'[r].gone
    BY <2>1, <2>2 DEF FreedOK
  <2> QED
    BY <1>3, <2>1, <2>3 DEF AtPR
<1> QED
  BY <1>2, <1>4, <1>5, <1>6 DEF ReplaceStep

\* The COMMIT of ReplaceReviewer and the read after it.
LEMMA FreedCommit ==
  ASSUME StrongInv, KeepsMerged, NEW r \in Requests, FreedOK(r), job[r].op = "deactivate",
         Commit(r) \/ ReadBack(r)
  PROVE  FreedOK(r)'
<1>0. pc \in [Requests -> Labels] /\ job[r] \in Job
  BY DEF StrongInv, IInv, TypeOK
<1>1. /\ UNCHANGED job /\ pc[r] \in {"commit", "readback"} /\ pc'[r] \in {"readback", "md_next"}
  BY <1>0 DEF Commit, ReadBack, Goto
<1>2. /\ UNCHANGED users
      /\ \A u \in job[r].targets, p \in PRIDs :
           u \in reviewers'[p] => u \in reviewers[p] /\ ~AtHand(r, u, p)
  <2>1. CASE Commit(r)
    <3>1. Publish(r) /\ pc[r] = "commit"
      BY <2>1 DEF Commit
    <3>2. ASSUME NEW u \in job[r].targets, NEW p \in PRIDs, AtHand(r, u, p), u \in reviewers[p]
          PROVE  p = job[r].pr /\ u \in tx[r].gone
      BY <3>1, <3>2 DEF AtHand, FreedOK
    <3> QED
      BY <3>1, <3>2, LoopPublish
  <2>2. CASE ReadBack(r)
    BY <2>2 DEF ReadBack, db, AtHand, AtPR, Replacing
  <2> QED
    BY <2>1, <2>2
<1>3. \A p \in PRIDs : ~Merged(p)' => ~Merged(p)
  BY DEF KeepsMerged, Merged, Exists
<1>4. ASSUME NEW u \in job[r].targets \ job[r].skipped, NEW p \in PRIDs,
             u \in reviewers'[p], ~Merged(p)'
      PROVE  p \in job[r].work[u]
  BY <1>1, <1>2, <1>3, <1>4 DEF FreedOK, AtPR
<1>5. /\ \A u \in job[r].targets : ~users'[u].active
      /\ job[r].picked \cap job[r].targets = {}
  BY <1>1, <1>2 DEF FreedOK, AtPR
<1> QED
  BY <1>1, <1>4, <1>5 DEF FreedOK, AtPR, Replacing

\* The update of the users, row by row, and its COMMIT.
LEMMA FreedUpdate ==
  ASSUME StrongInv, NEW r \in Requests, FreedOK(r),
         DeactivateUpdate(r) \/ DeactivateCommit(r)
  PROVE  FreedOK(r)'
<1>0. /\ job \in [Requests -> Job] /\ tx \in [Requests -> TxState] /\ pc \in [Requests -> Labels]
      /\ job[r] \in Job /\ tx[r] \in TxState /\ IInv /\ RequestOK(r) /\ UsersOK(r)
      /\ users \in [UserIDs -> UserRow \cup {Null}]
  BY DEF StrongInv, IInv, TypeOK, UserTable, UserInv
<1>1. job[r].op = "deactivate" /\ job[r].picked = {}
  BY <1>0 DEF DeactivateUpdate, DeactivateCommit, RequestOK, Arguments, OpsAt, UsersOK
<1>2. CASE DeactivateUpdate(r)
  <2>1. PICK u \in job[r].ids :
          /\ tx' = [tx EXCEPT ![r].users = [@ EXCEPT ![u] = [users[u] EXCEPT !.active = FALSE]]]
          /\ job' = [job EXCEPT ![r].ids = @ \ {u}]
          /\ pc' = [pc EXCEPT ![r] = IF job[r].ids = {u} THEN "md_commit" ELSE "md_update"]
    BY <1>2 DEF DeactivateUpdate, Goto
  <2>2. pc[r] = "md_update" /\ u \in UserIDs /\ users[u] \in UserRow
    BY <1>0, <1>2 DEF DeactivateUpdate, RequestOK, ReadsLast, Known, Job
  <2> DEFINE row == [users[u] EXCEPT !.active = FALSE]
  <2>3. row # Null /\ ~row.active
    <3>1. row \in UserRow /\ ~row.active
      BY <2>2 DEF UserRow
    <3> QED
      BY <3>1, NullAssumption
  <2>4. tx' = [tx EXCEPT ![r].users = [@ EXCEPT ![u] = row]]
    BY <2>1
  <2> HIDE DEF row
  <2>5. tx'[r].users = [tx[r].users EXCEPT ![u] = row]
    BY <1>0, <2>4 DEF TxState
  <2>6. tx[r].users \in [UserIDs -> UserRow \cup {Null}]
    BY <1>0 DEF TxState, UserTable
  <2>7. tx'[r].users[u] = row /\ \A v \in UserIDs : v # u => tx'[r].users[v] = tx[r].users[v]
    BY <2>2, <2>5, <2>6
  <2>8. /\ job'[r].targets = job[r].targets /\ job'[r].ids = job[r].ids \ {u}
        /\ job'[r].picked = {}
    BY <1>0, <1>1, <2>1 DEF Job
  <2>9. ASSUME NEW v \in job'[r].targets \ job'[r].ids
        PROVE  tx'[r].users[v] # Null /\ ~tx'[r].users[v].active
    <3>1. v \in UserIDs /\ v \in job[r].targets
      BY <1>0, <2>8 DEF Job
    <3>2. CASE v = u
      BY <2>3, <2>7, <3>2
    <3>3. CASE v # u
      <4>1. tx[r].users[v] # Null /\ ~tx[r].users[v].active
        BY <1>1, <2>2, <2>8, <3>1, <3>3 DEF FreedOK
      <4> QED
        BY <2>7, <3>1, <3>3, <4>1
    <3> QED
      BY <3>2, <3>3
  <2>10. /\ pc'[r] \in {"md_update", "md_commit"}
         /\ pc'[r] = "md_commit" => job'[r].ids = {}
    BY <1>0, <2>1, <2>8
  <2> QED
    BY <2>8, <2>9, <2>10 DEF FreedOK, AtPR, Replacing
<1>3. CASE DeactivateCommit(r)
  <2>1. pc[r] = "md_commit" /\ pc'[r] = "md_list" /\ UNCHANGED job /\ Publish(r)
    BY <1>0, <1>3 DEF DeactivateCommit, Goto
  <2>2. ASSUME NEW u \in job[r].targets PROVE ~users'[u].active
    <3>1. tx[r].users[u] # Null /\ ~tx[r].users[u].active /\ u \in UserIDs
      BY <1>0, <1>1, <2>1 DEF FreedOK, Job
    <3> QED
      BY <2>1, <3>1 DEF Publish
  <2> QED
    BY <1>1, <2>1, <2>2 DEF FreedOK, AtPR, Replacing
<1> QED
  BY <1>2, <1>3

\* The lists of open PRs, and the loop over them.
LEMMA FreedLists ==
  ASSUME StrongInv, NEW r \in Requests, FreedOK(r),
         DeactivateListOpenPRs(r) \/ DeactivateNextPR(r) \/ DeactivateLoopEnds(r)
  PROVE  FreedOK(r)'
<1>0. /\ job \in [Requests -> Job] /\ pc \in [Requests -> Labels] /\ job[r] \in Job
      /\ IInv /\ RequestOK(r)
  BY DEF StrongInv, IInv, TypeOK
<1>1. job[r].op = "deactivate" /\ UNCHANGED db
  BY <1>0
  DEF DeactivateListOpenPRs, DeactivateNextPR, DeactivateLoopEnds, RequestOK, Arguments, OpsAt
<1>2. reviewers' = reviewers /\ users' = users /\ \A p \in PRIDs : Merged(p)' <=> Merged(p)
  BY <1>1 DEF db, Merged, Exists
<1>3. /\ \A u \in job[r].targets : ~users[u].active
      /\ job[r].picked \cap job[r].targets = {}
  BY <1>1 DEF FreedOK, DeactivateListOpenPRs, DeactivateNextPR, DeactivateLoopEnds
<1>4. CASE DeactivateListOpenPRs(r)
  <2> DEFINE w == [u \in UserIDs |-> IF u \in job[r].targets
                     THEN {p \in PRIDs : u \in reviewers[p] /\ prs[p].status = "OPEN"}
                     ELSE {}]
  <2>1. job' = [job EXCEPT ![r].work = w] /\ pc'[r] = "md_next"
    BY <1>0, <1>4 DEF DeactivateListOpenPRs, Goto
  <2>2. ASSUME NEW u \in job[r].targets, NEW p \in PRIDs, u \in reviewers[p], ~Merged(p)
        PROVE  p \in w[u]
    <3>1. Exists(p)
      BY <1>0, <2>2 DEF IInv, ForeignKeysHold
    <3>2. prs[p] \in PRRow /\ u \in UserIDs
      BY <1>0, <3>1 DEF IInv, TypeOK, PRTable, Exists, Job
    <3>3. prs[p].status = "OPEN"
      BY <2>2, <3>1, <3>2 DEF Merged, PRRow
    <3> QED
      BY <2>2, <3>2, <3>3
  <2> HIDE DEF w
  <2>3. /\ job'[r].work = w /\ job'[r].targets = job[r].targets
        /\ job'[r].picked = job[r].picked
    BY <1>0, <2>1 DEF Job
  <2> QED
    BY <1>2, <1>3, <2>1, <2>2, <2>3 DEF FreedOK, AtPR, Replacing
<1>5. CASE DeactivateNextPR(r)
  <2>1. PICK u \in CurrentUsers(r) : \E p \in job[r].work[u] :
          job' = [job EXCEPT ![r] = [@ EXCEPT !.user = u, !.pr = p,
                                              !.work = [job[r].work EXCEPT ![u] = @ \ {p}]]]
    BY <1>5 DEF DeactivateNextPR
  <2>2. PICK p \in job[r].work[u] :
          job' = [job EXCEPT ![r] = [@ EXCEPT !.user = u, !.pr = p,
                                              !.work = [job[r].work EXCEPT ![u] = @ \ {p}]]]
    BY <2>1
  <2> DEFINE w == [job[r].work EXCEPT ![u] = @ \ {p}]
  <2>3. \A v \in UserIDs : \A q : q \in job[r].work[v] => q \in w[v] \/ (v = u /\ q = p)
    BY <1>0 DEF Job
  <2>4. job' = [job EXCEPT ![r] = [@ EXCEPT !.user = u, !.pr = p, !.work = w]]
    BY <2>2
  <2> HIDE DEF w
  <2>5. /\ job'[r].work = w /\ job'[r].targets = job[r].targets /\ job'[r].user = u
        /\ job'[r].skipped = job[r].skipped /\ job'[r].picked = job[r].picked /\ job'[r].pr = p
    BY <1>0, <2>4 DEF Job
  <2>6. pc[r] = "md_next" /\ pc'[r] = "md_pr"
    BY <1>0, <1>5 DEF DeactivateNextPR, Goto
  <2>7. ASSUME NEW v \in job[r].targets \ job[r].skipped, NEW q \in PRIDs,
               v \in reviewers[q], ~Merged(q)
        PROVE  q \in w[v] \/ AtHand(r, v, q)'
    <3>1. q \in job[r].work[v] /\ v \in UserIDs
      BY <1>0, <1>1, <2>6, <2>7 DEF FreedOK, AtHand, AtPR, Replacing, Job
    <3> QED
      BY <2>3, <2>5, <2>6, <3>1 DEF AtHand, AtPR
  <2> QED
    BY <1>2, <1>3, <2>5, <2>6, <2>7 DEF FreedOK
<1>6. CASE DeactivateLoopEnds(r)
  <2>1. pc[r] = "md_next" /\ pc'[r] = "md_finish" /\ UNCHANGED job
    BY <1>0, <1>6 DEF DeactivateLoopEnds, Goto
  <2>2. \A u \in UserIDs : job[r].work[u] = {}
    BY <1>6 DEF DeactivateLoopEnds, CurrentUsers
  <2>3. ASSUME NEW v \in job[r].targets \ job[r].skipped, NEW q \in PRIDs,
               v \in reviewers[q], ~Merged(q)
        PROVE  q \in job[r].work[v]
    BY <1>1, <2>1, <2>3 DEF FreedOK, AtHand, AtPR, Replacing
  <2> QED
    BY <1>2, <1>3, <2>1, <2>2, <2>3 DEF FreedOK, AtPR, Replacing
<1> QED
  BY <1>4, <1>5, <1>6

\* The other steps of MassDeactivate.
LEMMA FreedDeactivate ==
  ASSUME StrongInv, NEW r \in Requests, FreedOK(r), DeactivateStep(r)
  PROVE  FreedOK(r)'
<1>0. /\ job \in [Requests -> Job] /\ pc \in [Requests -> Labels] /\ job[r] \in Job
      /\ IInv /\ RequestOK(r) /\ UsersOK(r)
  BY DEF StrongInv, IInv, TypeOK, UserInv
<1>1. job[r].op = "deactivate"
  BY <1>0
  DEF DeactivateStep, DeactivateReadTeam, DeactivateTeamExists, DeactivateUpdate,
      DeactivateCommit, DeactivateListOpenPRs, DeactivateNextPR, DeactivateLoopEnds,
      DeactivateReadPR, DeactivateReadReviewers, DeactivatePick, DeactivateFinish,
      RequestOK, Arguments, OpsAt
<1>2. CASE DeactivateReadTeam(r)
  <2>0. pc[r] = "md_team" /\ UNCHANGED db
    BY <1>2 DEF DeactivateReadTeam
  <2>1. CASE Reply(r, "NOT_FOUND")
    BY <1>0, <2>1, FreedAnswer DEF Codes
  <2>2. CASE Reply(r, "OK")
    BY <1>0, <1>1, <2>0, <2>2, FreedAnswerOK
  <2>3. CASE pc'[r] = "md_exists" /\ UNCHANGED job
    BY <1>1, <2>0, <2>3 DEF FreedOK, AtPR, Replacing
  <2>4. CASE /\ pc'[r] = "md_update"
             /\ \E T : job' = [job EXCEPT ![r].targets = T, ![r].ids = T]
    <3>1. PICK T : job' = [job EXCEPT ![r].targets = T, ![r].ids = T]
      BY <2>4
    <3>2. job'[r].targets = T /\ job'[r].ids = T /\ job'[r].picked = job[r].picked
      BY <1>0, <3>1 DEF Job
    <3>3. job[r].picked = {}
      BY <1>0, <2>0 DEF UsersOK
    <3> QED
      BY <2>4, <3>2, <3>3 DEF FreedOK, AtPR, Replacing
  <2> QED
    BY <1>0, <1>2, <2>1, <2>2, <2>3, <2>4 DEF DeactivateReadTeam, Goto
<1>3. CASE DeactivateTeamExists(r) \/ DeactivateFinish(r)
  BY <1>0, <1>1, <1>3, FreedAnswer, FreedAnswerOK
  DEF DeactivateTeamExists, DeactivateFinish, Codes
<1>4. CASE DeactivateUpdate(r) \/ DeactivateCommit(r)
  BY <1>4, FreedUpdate
<1>5. CASE DeactivateListOpenPRs(r) \/ DeactivateNextPR(r) \/ DeactivateLoopEnds(r)
  BY <1>5, FreedLists
<1>6. CASE DeactivateReadPR(r) \/ DeactivateReadReviewers(r)
  <2>1. /\ pc[r] \in {"md_pr", "md_reviewers"} /\ pc'[r] \in {"md_reviewers", "md_candidates"}
        /\ UNCHANGED db
    BY <1>0, <1>6 DEF DeactivateReadPR, DeactivateReadReviewers, Goto
  <2>2. /\ job'[r].user = job[r].user /\ job'[r].pr = job[r].pr /\ job'[r].work = job[r].work
        /\ job'[r].targets = job[r].targets /\ job'[r].skipped = job[r].skipped
        /\ job'[r].picked = job[r].picked
    BY <1>0, <1>6 DEF DeactivateReadPR, DeactivateReadReviewers, Job
  <2>3. job[r].picked \cap job[r].targets = {}
    BY <1>1 DEF FreedOK
  <2> QED
    BY <1>1, <2>1, <2>2, <2>3, FreedLoop DEF AtPR
<1>7. CASE DeactivatePick(r)
  <2>1. PICK S \in RandomPicks(ActiveTeamMembers(job[r].team, Excluded(r)), 1) :
          job' = [job EXCEPT ![r].picked = S]
    BY <1>7 DEF DeactivatePick
  <2>2. pc[r] = "md_candidates" /\ pc'[r] = "rp_status" /\ UNCHANGED db
    BY <1>0, <1>7 DEF DeactivatePick, Goto
  <2>3. /\ job'[r].user = job[r].user /\ job'[r].pr = job[r].pr /\ job'[r].work = job[r].work
        /\ job'[r].targets = job[r].targets /\ job'[r].skipped = job[r].skipped
        /\ job'[r].picked = S
    BY <1>0, <2>1 DEF Job
  <2>4. \A u \in S : users[u].active
    BY DEF RandomPicks, ActiveTeamMembers
  <2>5. \A u \in job[r].targets : ~users[u].active
    BY <1>1, <2>2 DEF FreedOK, AtPR
  <2> QED
    BY <1>1, <2>2, <2>3, <2>4, <2>5, FreedLoop DEF AtPR, Replacing
<1> QED
  BY <1>2, <1>3, <1>4, <1>5, <1>6, <1>7 DEF DeactivateStep

\* A call that fails.
LEMMA FreedFailure ==
  ASSUME StrongInv, KeepsMerged, NEW r \in Requests, FreedOK(r), job[r].op = "deactivate",
         Failure(r)
  PROVE  FreedOK(r)'
<1>0. IInv
  BY DEF StrongInv
<1>1. ASSUME Reply(r, "INTERNAL_ERROR") PROVE FreedOK(r)'
  BY <1>0, <1>1, FreedAnswer DEF Codes
<1>2. \A p \in PRIDs : Merged(p) => Merged(p)'
  BY DEF KeepsMerged, Merged, Exists
<1>3. ASSUME SkipUser(r), InLoop(r), UNCHANGED db PROVE FreedOK(r)'
  <2>1. UNCHANGED <<users, reviewers>>
    BY <1>3 DEF db
  <2> QED
    BY <1>0, <1>2, <1>3, <2>1, FreedSkip DEF InLoop, AtPR, Replacing
<1>4. ASSUME SkipUser(r), InLoop(r), Publish(r), pc[r] \in {"commit", "md_commit"}
      PROVE  FreedOK(r)'
  <2>1. pc[r] = "commit"
    BY <1>4 DEF InLoop
  <2>2. /\ UNCHANGED users
        /\ \A u \in job[r].targets, p \in PRIDs : u \in reviewers'[p] => u \in reviewers[p]
    BY <1>4, <2>1, LoopPublish
  <2> QED
    BY <1>0, <1>2, <1>4, <2>1, <2>2, FreedSkip DEF AtPR
<1> QED
  BY <1>1, <1>3, <1>4
  DEF Failure, CallError, DeactivateExpires, CommitAnswerLost, DeadlockAbort, CallFails

\* The request that moves.
LEMMA FreedOwn ==
  ASSUME StrongInv, KeepsMerged, NEW r \in Requests, FreedOK(r),
         Arrive(r) \/ Step(r) \/ Failure(r)
  PROVE  FreedOK(r)'
<1>0. IInv /\ pc \in [Requests -> Labels] /\ Arguments(r)
  BY DEF StrongInv, IInv, TypeOK, RequestOK
<1>1. CASE Arrive(r)
  <2>1. \E l \in {"at_exists", "sa_update", "cp_author", "mg_status", "ra_pr", "md_team"} :
          pc' = [pc EXCEPT ![r] = l]
    BY <1>1
    DEF Arrive, ArriveAddTeam, ArriveSetActive, ArriveCreate, ArriveMerge, ArriveReassign,
        ArriveDeactivate, AcceptAddTeam, AcceptSetActive, AcceptCreate, AcceptMerge,
        AcceptReassign, AcceptDeactivate, Accept
  <2>2. job'[r].picked = {} /\ job'[r].targets = {}
    BY <1>0, <1>1, ArrivesEmpty
  <2> QED
    BY <1>0, <2>1, <2>2 DEF FreedOK, AtPR, Replacing
<1>2. CASE (Step(r) \/ Failure(r)) /\ job[r].op # "deactivate"
  BY <1>0, <1>2, OpStays DEF FreedOK
<1>3. CASE Failure(r) /\ job[r].op = "deactivate"
  BY <1>3, FreedFailure
<1>4. CASE Step(r) /\ job[r].op = "deactivate"
  <2>1. ~(TeamStep(r) \/ CreateStep(r) \/ MergeStep(r) \/ ReassignStep(r))
    BY <1>0, <1>4
    DEF TeamStep, CreateStep, MergeStep, ReassignStep, AddTeamCheckExists, AddTeamInsert,
        AddTeamUpsert, SetUserActivity, CreateReadAuthor, CreatePickReviewers,
        CreateCheckExists, CreateInsertPR, CreateInsertReviewers, MergeReadStatus,
        MergeUpdate, ReassignReadPR, ReassignReadReviewers, ReassignReadUser, ReassignPick,
        Arguments, OpsAt
  <2> QED
    BY <1>4, <2>1, FreedReplace, FreedCommit, FreedDeactivate DEF Step
<1> QED
  BY <1>1, <1>2, <1>3, <1>4

\* Every step preserves the invariant.
LEMMA FreedInvNext ==
  ASSUME OnlyMergesBeside, StrongInv, FreedInv, [Next]_vars
  PROVE  FreedInv'
<1>0. IInv /\ MergeInv /\ KeepsMerged
  BY NextKeepsMerged DEF StrongInv
<1>1. ASSUME NEW r \in Requests, Arrive(r) \/ Step(r) \/ Failure(r) PROVE FreedInv'
  <2>1. SessionOK(r) /\ Timed(r) /\ FreedOK(r) /\ job[r].op \in Traffic[r] \cup {"none"}
    BY <1>0 DEF MergeInv, FreedInv
  <2>2. OnlyMoves(r)
    BY <1>0, <1>1, <2>1, ArriveClean, StepKinds
  <2>3. job'[r].op \in Traffic[r] \cup {"none"} /\ FreedOK(r)'
    BY <1>0, <1>1, <2>1, OpSent, FreedOwn
  <2>4. ASSUME NEW s \in Requests \ {r}
        PROVE  job'[s].op \in Traffic[s] \cup {"none"} /\ FreedOK(s)'
    <3>1. /\ pc'[s] = pc[s] /\ job'[s] = job[s] /\ tx'[s] = tx[s]
          /\ job[s].op \in Traffic[s] \cup {"none"} /\ FreedOK(s)
      BY <2>2 DEF OnlyMoves, FreedInv
    <3>2. CASE job[s].op = "deactivate"
      <4>1. job[r].op \in {"merge", "none"}
        BY <2>1, <3>1, <3>2 DEF OnlyMergesBeside
      <4> QED
        BY <1>0, <1>1, <3>1, <4>1, MergesBeside, FreedOthers
    <3>3. CASE job[s].op # "deactivate"
      BY <3>1, <3>3 DEF FreedOK
    <3> QED
      BY <3>1, <3>2, <3>3
  <2> QED
    BY <2>3, <2>4 DEF FreedInv
<1>2. CASE Crash
  <2> SUFFICES ASSUME NEW r \in Requests
               PROVE  job'[r].op \in Traffic[r] \cup {"none"} /\ FreedOK(r)'
    BY DEF FreedInv
  <2>1. CASE pc[r] = "done"
    <3>1. /\ job'[r] = job[r] /\ pc'[r] = "done" /\ reviewers' = reviewers
          /\ \A p \in PRIDs : Merged(p)' <=> Merged(p)
      BY <1>2, <2>1 DEF Crash, db, Merged, Exists
    <3>2. FreedOK(r) /\ \A u, p : ~AtHand(r, u, p)
      BY <2>1 DEF FreedInv, AtHand, AtPR, Replacing
    <3> QED
      BY <2>1, <3>1, <3>2 DEF FreedInv, FreedOK, AtPR, Replacing
  <2>2. CASE pc[r] # "done"
    BY <1>2, <2>2 DEF Crash, NoJob, FreedOK
  <2> QED
    BY <2>1, <2>2
<1>3. CASE Terminating \/ UNCHANGED vars
  <2>1. UNCHANGED <<users, reviewers, prs, pc, job, tx>>
    BY <1>3 DEF Terminating, vars
  <2>2. TablesKept
    BY <2>1 DEF TablesKept, Merged, Exists
  <2> QED
    BY <2>1, <2>2, FreedOthers DEF FreedInv
<1> QED
  BY <1>1, <1>2, <1>3 DEF Next

\* As long as nothing but merges runs beside a mass deactivation, each review of an open
\* PR by a user it has deactivated and not skipped is still in its lists, or is being
\* replaced (Service.MassDeactivate); inductive relative to StrongInv.
THEOREM FreedInvariant ==
  ASSUME OnlyMergesBeside
  PROVE  Spec => [](StrongInv /\ FreedInv)
<1>1. Init => FreedInv
  BY DEF Init, FreedInv, FreedOK, NoJob
<1>2. StrongInv /\ FreedInv /\ [Next]_vars => FreedInv'
  BY FreedInvNext
<1> QED
  BY <1>1, <1>2, StrongInvariant, PTL DEF Spec

\* Then no user deactivated and not reported as skipped reviews an open PR after the
\* answer OK, whatever calls of the loop have failed (Service.MassDeactivate).
THEOREM DeactivationFrees ==
  ASSUME OnlyMergesBeside
  PROVE  Spec => []DeactivatedAreFreed
<1>1. ASSUME StrongInv, FreedInv, NEW r \in Requests, Answered(r, "deactivate", "OK"),
             NEW u \in job[r].targets \ job[r].skipped, NEW p \in PRIDs, u \in reviewers[p]
      PROVE  Merged(p)
  <2>1. FreedOK(r) /\ job[r] \in Job /\ pc[r] = "done" /\ job[r].res = "OK"
        /\ job[r].op = "deactivate"
    BY <1>1 DEF FreedInv, StrongInv, IInv, TypeOK, Answered
  <2>2. job[r].work[u] = {} /\ ~AtHand(r, u, p)
    BY <2>1 DEF FreedOK, AtHand, AtPR, Replacing, Job
  <2> QED
    BY <1>1, <2>1, <2>2 DEF FreedOK
<1>2. StrongInv /\ FreedInv => DeactivatedAreFreed
  BY <1>1 DEF DeactivatedAreFreed
<1> QED
  BY <1>2, FreedInvariant, PTL
==============================================================================
