-------------------------------- MODULE Teams --------------------------------
(***************************************************************************)
(* Service.CreateTeam and Service.SetUserActivity, statement by statement. *)
(***************************************************************************)
EXTENDS ReviewStore

\* POST /team/add with the given members, those in on sent as active.
AcceptAddTeam(r, t, members, on) ==
  Accept(r, [NoJob EXCEPT !.op = "add_team", !.team = t, !.ids = members, !.on = on],
         "at_exists")

\* Mutant: the row of a member is locked (SELECT ... FOR UPDATE) before the name is
\* inserted.
AddTeamLockMember(r) ==
  /\ pc[r] = "at_exists"
  /\ LET there == {u \in job[r].ids : users[u] # Null} IN
     \/ job[r].team \in teams /\ Reply(r, "TEAM_EXISTS")
     \/ /\ job[r].team \notin teams
        /\ \/ there = {} /\ UNCHANGED tx
           \/ \E u \in there : /\ UserFree(r, u)
                               /\ tx' = [tx EXCEPT ![r].users[u] = users[u]]
        /\ Goto(r, "at_insert")
        /\ UNCHANGED job
  /\ UNCHANGED <<db, issued>>

AddTeamCheckExists(r) ==
  /\ pc[r] = "at_exists"
  /\ \/ /\ job[r].team \in teams
        /\ Reply(r, "TEAM_EXISTS")
     \/ /\ job[r].team \notin teams
        /\ Goto(r, "at_insert")
        /\ UNCHANGED <<job, tx>>
  /\ UNCHANGED <<db, issued>>

\* Mutant: INSERT INTO teams ... ON CONFLICT DO NOTHING.
AddTeamInsertIfNew(r) ==
  /\ pc[r] = "at_insert"
  /\ TeamFree(r, job[r].team)
  /\ tx' = [tx EXCEPT ![r].team = job[r].team]
  /\ Goto(r, IF job[r].ids = {} THEN "commit" ELSE "at_upsert")
  /\ UNCHANGED <<db, job, issued>>

\* INSERT INTO teams: waits for a concurrent insert of the name, and violates the
\* primary key if that one has committed.
AddTeamInsert(r) ==
  /\ pc[r] = "at_insert"
  /\ TeamFree(r, job[r].team)
  /\ \/ /\ job[r].team \in teams
        /\ Reply(r, "INTERNAL_ERROR")
     \/ /\ job[r].team \notin teams
        /\ tx' = [tx EXCEPT ![r].team = job[r].team]
        /\ Goto(r, IF job[r].ids = {} THEN "commit" ELSE "at_upsert")
        /\ UNCHANGED job
  /\ UNCHANGED <<db, issued>>

\* INSERT INTO users ... ON CONFLICT DO UPDATE, for the members one after the
\* other, in the order of the request (any order); each waits for its row.
AddTeamUpsert(r) ==
  /\ pc[r] = "at_upsert"
  /\ \E u \in job[r].ids :
       /\ UserFree(r, u)
       /\ tx' = [tx EXCEPT ![r].users = [@ EXCEPT ![u] =
                   [team |-> job[r].team, active |-> u \in job[r].on]]]
       /\ job' = [job EXCEPT ![r].ids = @ \ {u}]
       /\ Goto(r, IF job[r].ids = {u} THEN "commit" ELSE "at_upsert")
  /\ UNCHANGED <<db, issued>>

------------------------------------------------------------------------------
\* POST /users/setIsActive: one UPDATE outside of a transaction.  A row another
\* session has only inserted is not seen; a committed row is waited for.

AcceptSetActive(r, u, active) ==
  Accept(r, [NoJob EXCEPT !.op = "set_active", !.user = u,
                          !.on = IF active THEN {u} ELSE {}], "sa_update")

SetUserActivity(r) ==
  /\ pc[r] = "sa_update"
  /\ LET u == job[r].user IN
     \/ /\ users[u] = Null
        /\ Reply(r, "NOT_FOUND")
        /\ UNCHANGED users
     \/ /\ users[u] # Null
        /\ UserFree(r, u)
        /\ users' = [users EXCEPT ![u] = [@ EXCEPT !.active = u \in job[r].on]]
        /\ Goto(r, "readback")
        /\ UNCHANGED <<job, tx>>
  /\ UNCHANGED <<teams, prs, reviewers, assigned, unassigned, issued>>
==============================================================================
