---------------------------- MODULE ReviewService ----------------------------
(***************************************************************************)
(* The service: every operation of Service on its goroutine, interleaved   *)
(* call by call with the others on one database, with the failures of a    *)
(* call, the deadlines of requests, the deadlock detector of PostgreSQL    *)
(* and the death and restart of the process.                               *)
(***************************************************************************)
EXTENDS Teams, MassDeactivation

CONSTANTS Traffic,  \* the operations clients send to each goroutine
          Faults    \* what may fail: "error", "lost_commit", "crash"

ASSUME TrafficType == Traffic \in [Requests -> SUBSET Ops]

ASSUME FaultsType == Faults \subseteq {"error", "lost_commit", "crash"}

Init ==
  /\ teams = Seed.teams
  /\ users = Seed.users
  /\ prs = Seed.prs
  /\ reviewers = Seed.reviewers
  /\ assigned = Seed.assigned
  /\ unassigned = Seed.unassigned
  /\ pc = [r \in Requests |-> "idle"]
  /\ job = [r \in Requests |-> NoJob]
  /\ tx = [r \in Requests |-> NoTx]
  /\ issued = 0

------------------------------------------------------------------------------
\* Requests arrive.  The handlers decode the bodies and the service validates
\* them; what is refused there never reaches the database and is left out.

ArriveAddTeam(r) ==
  /\ "add_team" \in Traffic[r]
  /\ \E t \in TeamNames, members \in SUBSET UserIDs :
       \E on \in SUBSET members : AcceptAddTeam(r, t, members, on)

ArriveSetActive(r) ==
  /\ "set_active" \in Traffic[r]
  /\ \E u \in UserIDs, active \in BOOLEAN : AcceptSetActive(r, u, active)

ArriveCreate(r) ==
  /\ "create" \in Traffic[r]
  /\ \E p \in PRIDs, author \in UserIDs : AcceptCreate(r, p, author)

ArriveMerge(r) ==
  /\ "merge" \in Traffic[r]
  /\ \E p \in PRIDs : AcceptMerge(r, p)

ArriveReassign(r) ==
  /\ "reassign" \in Traffic[r]
  /\ \E p \in PRIDs, old \in UserIDs : AcceptReassign(r, p, old)

ArriveDeactivate(r) ==
  /\ "deactivate" \in Traffic[r]
  /\ \E t \in TeamNames, ids \in SUBSET UserIDs : AcceptDeactivate(r, t, ids)

Arrive(r) ==
  \/ ArriveAddTeam(r) \/ ArriveSetActive(r) \/ ArriveCreate(r)
  \/ ArriveMerge(r) \/ ArriveReassign(r) \/ ArriveDeactivate(r)

------------------------------------------------------------------------------
\* The calls of the operations.

TeamStep(r) ==
  AddTeamCheckExists(r) \/ AddTeamInsert(r) \/ AddTeamUpsert(r) \/ SetUserActivity(r)

CreateStep(r) ==
  \/ CreateReadAuthor(r) \/ CreatePickReviewers(r) \/ CreateCheckExists(r)
  \/ CreateInsertPR(r) \/ CreateInsertReviewers(r)

MergeStep(r) == MergeReadStatus(r) \/ MergeUpdate(r)

ReassignStep(r) ==
  ReassignReadPR(r) \/ ReassignReadReviewers(r) \/ ReassignReadUser(r) \/ ReassignPick(r)

ReplaceStep(r) ==
  ReplaceReadStatus(r) \/ ReplaceCheckAssigned(r) \/ ReplaceDelete(r) \/ ReplaceInsert(r)

DeactivateStep(r) ==
  \/ DeactivateReadTeam(r) \/ DeactivateTeamExists(r) \/ DeactivateUpdate(r)
  \/ DeactivateCommit(r) \/ DeactivateListOpenPRs(r) \/ DeactivateNextPR(r)
  \/ DeactivateLoopEnds(r) \/ DeactivateReadPR(r) \/ DeactivateReadReviewers(r)
  \/ DeactivatePick(r) \/ DeactivateFinish(r)

Step(r) ==
  \/ TeamStep(r) \/ CreateStep(r) \/ MergeStep(r) \/ ReassignStep(r)
  \/ ReplaceStep(r) \/ DeactivateStep(r) \/ Commit(r) \/ ReadBack(r)

------------------------------------------------------------------------------
\* Failures.

\* The body of the loop of MassDeactivate: an error here skips the user.
InLoop(r) ==
  /\ job[r].op = "deactivate"
  /\ pc[r] \in {"md_pr", "md_reviewers", "md_candidates", "rp_status", "rp_assigned",
                "rp_delete", "rp_insert", "commit", "readback"}

\* What the service does with an error of the call it is making.
CallFails(r) ==
  IF InLoop(r) THEN SkipUser(r) ELSE Reply(r, "INTERNAL_ERROR")

\* A call fails: the connection, the server or the deadline of the request.
CallError(r) ==
  /\ "error" \in Faults
  /\ pc[r] \notin {"idle", "done", "md_next"}
  /\ CallFails(r)
  /\ UNCHANGED <<db, issued>>

\* The deadline of a mass deactivation in its loop: every later call of the loop
\* fails at once, then the manager cannot commit.
DeactivateExpires(r) ==
  /\ "error" \in Faults
  /\ pc[r] = "md_next" \/ InLoop(r)
  /\ Reply(r, "INTERNAL_ERROR")
  /\ UNCHANGED <<db, issued>>

\* The server commits and the answer is lost: the service sees an error.
CommitAnswerLost(r) ==
  /\ "lost_commit" \in Faults
  /\ pc[r] \in {"commit", "md_commit"}
  /\ Publish(r)
  /\ CallFails(r)
  /\ UNCHANGED issued

\* r is in a statement that has to wait for a row or key s holds.
Waits(r, s) ==
  /\ r # s
  /\ LET p == job[r].pr IN
     CASE pc[r] = "at_insert" -> HoldsTeam(s, job[r].team)
       [] pc[r] \in {"at_upsert", "md_update"} -> \E u \in job[r].ids : HoldsUser(s, u)
       [] pc[r] \in {"cp_insert", "mg_update"} -> HoldsPR(s, p)
       [] pc[r] = "rp_delete" ->
            job[r].user \in reviewers[p] /\ HoldsReviewer(s, p, job[r].user)
       [] pc[r] = "rp_insert" -> \E u \in job[r].picked : HoldsReviewer(s, p, u)
       [] OTHER -> FALSE

InDeadlock(r) ==
  \E D \in SUBSET Requests :
    /\ r \in D
    /\ \A s \in D : (\E t \in D : Waits(s, t)) /\ (\E t \in D : Waits(t, s))

\* The deadlock detector fails the statement of one of the sessions of a cycle.
DeadlockAbort(r) ==
  /\ InDeadlock(r)
  /\ CallFails(r)
  /\ UNCHANGED <<db, issued>>

\* The process dies and is started again: the server rolls its sessions back.  A
\* reply that was sent stays sent.
Crash ==
  /\ "crash" \in Faults
  /\ \E r \in Requests : pc[r] \notin {"idle", "done"}
  /\ pc' = [r \in Requests |-> IF pc[r] = "done" THEN "done" ELSE "idle"]
  /\ job' = [r \in Requests |-> IF pc[r] = "done" THEN job[r] ELSE NoJob]
  /\ tx' = [r \in Requests |-> NoTx]
  /\ UNCHANGED <<db, issued>>

\* The bound MaxRequests is reached and every request has been answered.
Terminating ==
  /\ issued = MaxRequests
  /\ \A r \in Requests : pc[r] \in {"idle", "done"}
  /\ UNCHANGED vars

Failure(r) ==
  CallError(r) \/ DeactivateExpires(r) \/ CommitAnswerLost(r) \/ DeadlockAbort(r)

Next ==
  \/ \E r \in Requests : Arrive(r) \/ Step(r) \/ Failure(r)
  \/ Crash
  \/ Terminating

Spec == Init /\ [][Next]_vars

\* The scheduler runs every goroutine, every call returns, and PostgreSQL breaks a
\* deadlock after deadlock_timeout.
Fairness == \A r \in Requests : WF_vars(Step(r)) /\ WF_vars(DeadlockAbort(r))

FairSpec == Spec /\ Fairness
==============================================================================
