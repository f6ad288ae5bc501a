------------------------------- MODULE TxProofs -------------------------------
(***************************************************************************)
(* What a transaction of Storage.WithTransaction may rely on holds for any *)
(* number of transactions, rows and calls.                                 *)
(***************************************************************************)
EXTENDS TxProperties, TLAPS

LEMMA NullFacts ==
  /\ Null \notin UserIDs /\ Null \notin TeamNames /\ Null \notin PRIDs
  /\ Null \notin UserRow /\ Null \notin PRRow
BY NullAssumption

LEMMA OverType == ASSUME NEW d \in Database, NEW w \in Writes PROVE Over(d, w) \in Database
BY DEF Over, Database, Writes

LEMMA ViewType == ASSUME TypeOK, NEW s \in Sessions PROVE View(s) \in Database
BY OverType DEF TypeOK, View

LEMMA NothingType == Nothing \in Writes
BY DEF Nothing, Writes

LEMMA NoCallType == NoCall \in Call
BY DEF NoCall, Call, Methods, Reads

\* The keys a transaction holds are those of the rows it has written.
LEMMA InHeld ==
  ASSUME NEW s \in Sessions
  PROVE  /\ \A t : <<"team", t>> \in Held(s) <=> t \in wrote[s].teams
         /\ \A u : <<"user", u>> \in Held(s) <=> u \in UserIDs /\ wrote[s].users[u] # Null
         /\ \A p : <<"pr", p>> \in Held(s) <=> p \in PRIDs /\ wrote[s].prs[p] # Null
         /\ \A row : <<"reviewer", row>> \in Held(s) <=> row \in wrote[s].gone \cup wrote[s].new
BY DEF Held

------------------------------------------------------------------------------
\* What a step of s does to the rows.

TeamWrite(s) ==
  \E t \in TeamNames :
    /\ Free(s, <<"team", t>>)
    /\ wrote' = [wrote EXCEPT ![s] = [wrote[s] EXCEPT !.teams = @ \cup {t}]]

UserWrite(s) ==
  \E u \in UserIDs, row \in UserRow :
    /\ Free(s, <<"user", u>>)
    /\ wrote' = [wrote EXCEPT ![s] = [wrote[s] EXCEPT !.users[u] = row]]

\* A new row, or a version of the one s sees that leaves a merged row as it is.
PRWrite(s) ==
  \E p \in PRIDs, row \in PRRow :
    /\ Free(s, <<"pr", p>>)
    /\ row.status = "MERGED" => row.mergedAt # Null
    /\ View(s).prs[p] # Null =>
         /\ row.author = View(s).prs[p].author
         /\ View(s).prs[p].status = "MERGED" => row = View(s).prs[p]
    /\ wrote' = [wrote EXCEPT ![s] = [wrote[s] EXCEPT !.prs[p] = row]]

ReviewerDelete(s) ==
  \E row \in PRIDs \X UserIDs :
    /\ row \in View(s).reviewers => Free(s, <<"reviewer", row>>)
    /\ wrote' = [wrote EXCEPT ![s] =
         [wrote[s] EXCEPT !.gone = @ \cup ({row} \cap View(s).reviewers),
                          !.new = @ \ {row}, !.balance[row] = @ - 1]]

ReviewerInsert(s) ==
  \E rows \in SUBSET (PRIDs \X UserIDs) :
    /\ \A row \in rows : Free(s, <<"reviewer", row>>) /\ row \notin View(s).reviewers
    /\ wrote' = [wrote EXCEPT ![s] =
         [wrote[s] EXCEPT !.new = @ \cup rows,
                          !.balance = [row \in PRIDs \X UserIDs |->
                            @[row] + (IF row \in rows THEN 1 ELSE 0)]]]

RowStep(s) ==
  /\ UNCHANGED db
  /\ \/ UNCHANGED wrote
     \/ TeamWrite(s) \/ UserWrite(s) \/ PRWrite(s) \/ ReviewerDelete(s) \/ ReviewerInsert(s)

\* What it does to the control of s, and to nobody else's.
ControlStep(s) ==
  /\ \E place \in Places : at' = [at EXCEPT ![s] = place]
  /\ \E c \in Call : call' = [call EXCEPT ![s] = c]
  /\ \E first, second : answer' = [answer EXCEPT ![s] = [first |-> first, second |-> second]]
  /\ \E n \in Nat : calls' = [calls EXCEPT ![s] = n]

Inv == TypeOK /\ CallInv

\* A step of s with its writes and control.
LEMMA SameCall ==
  ASSUME TypeOK, NEW s \in Sessions, UNCHANGED <<call, answer, calls>>,
         NEW place \in Places, Goto(s, place)
  PROVE  ControlStep(s)
<1>1. at' = [at EXCEPT ![s] = place]
  BY DEF Goto
<1>2. call' = [call EXCEPT ![s] = call[s]] /\ call[s] \in Call
  BY DEF TypeOK
<1>3. answer' = [answer EXCEPT ![s] = [first |-> answer[s].first, second |-> answer[s].second]]
  BY DEF TypeOK
<1>4. calls' = [calls EXCEPT ![s] = calls[s]] /\ calls[s] \in Nat
  BY DEF TypeOK
<1> QED
  BY <1>1, <1>2, <1>3, <1>4 DEF ControlStep


\* Each statement is a step of the rows and of the control of s alone.
StepOf(s) == RowStep(s) /\ ControlStep(s)

LEMMA NoWrite ==
  ASSUME TypeOK, NEW s \in Sessions, UNCHANGED <<db, wrote, call, answer, calls>>,
         NEW place \in Places, Goto(s, place)
  PROVE  StepOf(s)
BY SameCall DEF StepOf, RowStep

LEMMA RefusedStep == ASSUME TypeOK, NEW s \in Sessions, Refused(s) PROVE StepOf(s)
BY NoWrite DEF Refused, Places

LEMMA AbortStep == ASSUME TypeOK, NEW s \in Sessions, Abort(s) PROVE StepOf(s)
BY NoWrite DEF Abort, Places

\* The rows that the statements on users write.
LEMMA NewUserRow ==
  ASSUME NEW t \in TeamNames, NEW b \in BOOLEAN
  PROVE  [team |-> t, active |-> b] \in UserRow
BY DEF UserRow

LEMMA SetUserRow ==
  ASSUME NEW old \in UserRow, NEW b \in BOOLEAN
  PROVE  [old EXCEPT !.active = b] \in UserRow
BY DEF UserRow

LEMMA CreateTeamSteps ==
  ASSUME Inv, NEW s \in Sessions, TeamExists(s) \/ TeamInsert(s) \/ TeamUpsert(s)
  PROVE  StepOf(s)
<1>1. CASE TeamExists(s)
  BY <1>1, NoWrite DEF TeamExists, Places, Inv
<1>2. CASE TeamInsert(s)
  <2>1. CASE Abort(s)
    BY <2>1, AbortStep DEF Inv
  <2>2. CASE ~Abort(s)
    <3>1. call[s].team \in TeamNames
      BY <1>2 DEF TeamInsert, Inv, CallInv, CallOK, Given
    <3>2. TeamWrite(s) /\ UNCHANGED <<db, call, answer, calls>>
      BY <1>2, <2>2, <3>1 DEF TeamInsert, TeamWrite, Write
    <3>3. ControlStep(s)
      BY <1>2, <2>2, SameCall DEF TeamInsert, Inv, Places
    <3> QED
      BY <3>2, <3>3 DEF StepOf, RowStep
  <2> QED
    BY <2>1, <2>2
<1>3. CASE TeamUpsert(s)
  <2>1. PICK u \in call[s].ids :
          /\ Free(s, <<"user", u>>)
          /\ Write(s, [wrote[s] EXCEPT !.users[u] =
                [team |-> call[s].team, active |-> u \in call[s].on]])
          /\ call' = [call EXCEPT ![s].ids = @ \ {u}]
          /\ Goto(s, IF call[s].ids = {u} THEN "read" ELSE "team_upsert")
    BY <1>3 DEF TeamUpsert
  <2>2. call[s] \in Call /\ call[s].team \in TeamNames /\ u \in UserIDs
    BY <1>3 DEF TeamUpsert, Inv, TypeOK, CallInv, CallOK, Given, Call
  <2>3. UserWrite(s)
    <3> DEFINE row == [team |-> call[s].team, active |-> u \in call[s].on]
    <3>1. (u \in call[s].on) \in BOOLEAN
      OBVIOUS
    <3>2. row \in UserRow
      BY <2>2, <3>1, NewUserRow, Zenon
    <3>3. /\ Free(s, <<"user", u>>)
          /\ wrote' = [wrote EXCEPT ![s] = [wrote[s] EXCEPT !.users[u] = row]]
      BY <2>1 DEF Write
    <3> HIDE DEF row
    <3> QED
      BY <2>2, <3>2, <3>3 DEF UserWrite
  <2>4. ControlStep(s)
    <3>1. [call[s] EXCEPT !.ids = @ \ {u}] \in Call
      BY <2>2 DEF Call
    <3>2. call' = [call EXCEPT ![s] = [call[s] EXCEPT !.ids = @ \ {u}]]
      BY <2>1
    <3>3. answer' = [answer EXCEPT ![s] = [first |-> answer[s].first, second |-> answer[s].second]]
      BY <1>3 DEF TeamUpsert, Inv, TypeOK
    <3>4. calls' = [calls EXCEPT ![s] = calls[s]] /\ calls[s] \in Nat
      BY <1>3 DEF TeamUpsert, Inv, TypeOK
    <3> QED
      BY <2>1, <3>1, <3>2, <3>3, <3>4 DEF ControlStep, Goto, Places
  <2> QED
    BY <1>3, <2>3, <2>4 DEF StepOf, RowStep, TeamUpsert
<1> QED
  BY <1>1, <1>2, <1>3

LEMMA UserSteps ==
  ASSUME Inv, NEW s \in Sessions, SetActive(s) \/ DeactivateRow(s)
  PROVE  StepOf(s)
<1>0. View(s) \in Database
  BY ViewType DEF Inv
<1>1. CASE SetActive(s)
  <2>1. CASE Refused(s)
    BY <2>1, RefusedStep DEF Inv
  <2>2. CASE ~Refused(s)
    <3> DEFINE u == call[s].user
               row == [View(s).users[u] EXCEPT !.active = u \in call[s].on]
    <3>1. u \in UserIDs
      BY <1>1 DEF SetActive, Inv, CallInv, CallOK, Given
    <3>2. row \in UserRow
      <4>1. View(s).users[u] \in UserRow
        BY <1>0, <1>1, <2>2, <3>1 DEF SetActive, Database
      <4>2. (u \in call[s].on) \in BOOLEAN
        OBVIOUS
      <4> QED
        BY <4>1, <4>2, SetUserRow, Zenon
    <3>3. /\ Free(s, <<"user", u>>) /\ UNCHANGED <<db, call, answer, calls>>
          /\ wrote' = [wrote EXCEPT ![s] = [wrote[s] EXCEPT !.users[u] = row]]
      BY <1>1, <2>2 DEF SetActive, Write
    <3>4. UserWrite(s)
      BY <3>1, <3>2, <3>3 DEF UserWrite
    <3>5. ControlStep(s)
      BY <1>1, <2>2, SameCall DEF SetActive, Inv, Places
    <3> QED
      BY <3>3, <3>4, <3>5 DEF StepOf, RowStep
  <2> QED
    BY <2>1, <2>2
<1>2. CASE DeactivateRow(s)
  <2>1. PICK u \in call[s].ids :
          /\ Free(s, <<"user", u>>)
          /\ Write(s, [wrote[s] EXCEPT !.users[u] =
                [View(s).users[u] EXCEPT !.active = FALSE]])
          /\ call' = [call EXCEPT ![s].ids = @ \ {u}]
          /\ Goto(s, IF call[s].ids = {u} THEN "read" ELSE "deactivate")
    BY <1>2 DEF DeactivateRow
  <2>2. call[s] \in Call /\ u \in UserIDs /\ View(s).users[u] # Null
    BY <1>2 DEF DeactivateRow, Inv, TypeOK, CallInv, CallOK, Call
  <2>3. [View(s).users[u] EXCEPT !.active = FALSE] \in UserRow
    BY <1>0, <2>2 DEF Database, UserRow
  <2>4. UserWrite(s)
    BY <2>1, <2>2, <2>3 DEF UserWrite, Write
  <2>5. ControlStep(s)
    <3>1. [call[s] EXCEPT !.ids = @ \ {u}] \in Call
      BY <2>2 DEF Call
    <3>2. call' = [call EXCEPT ![s] = [call[s] EXCEPT !.ids = @ \ {u}]]
      BY <2>1
    <3>3. answer' = [answer EXCEPT ![s] = [first |-> answer[s].first, second |-> answer[s].second]]
      BY <1>2 DEF DeactivateRow, Inv, TypeOK
    <3>4. calls' = [calls EXCEPT ![s] = calls[s]] /\ calls[s] \in Nat
      BY <1>2 DEF DeactivateRow, Inv, TypeOK
    <3> QED
      BY <2>1, <3>1, <3>2, <3>3, <3>4 DEF ControlStep, Goto, Places
  <2> QED
    BY <1>2, <2>4, <2>5 DEF StepOf, RowStep, DeactivateRow
<1> QED
  BY <1>1, <1>2

LEMMA CreatePRSteps ==
  ASSUME Inv, NEW s \in Sessions, PRExists(s) \/ PRInsert(s)
  PROVE  StepOf(s)
<1>1. CASE PRExists(s)
  BY <1>1, NoWrite DEF PRExists, Places, Inv
<1>2. CASE PRInsert(s)
  <2>1. CASE Abort(s)
    BY <2>1, AbortStep DEF Inv
  <2>2. CASE ~Abort(s)
    <3> DEFINE p == call[s].pr
               row == [status |-> "OPEN", author |-> call[s].user, mergedAt |-> Null]
    <3>1. p \in PRIDs /\ row \in PRRow
      BY <1>2 DEF PRInsert, Inv, CallInv, CallOK, Given, PRRow
    <3>2. /\ Free(s, <<"pr", p>>) /\ View(s).prs[p] = Null
          /\ UNCHANGED <<db, call, answer, calls>>
          /\ wrote' = [wrote EXCEPT ![s] = [wrote[s] EXCEPT !.prs[p] = row]]
      BY <1>2, <2>2 DEF PRInsert, Write
    <3>3. PRWrite(s)
      BY <3>1, <3>2 DEF PRWrite
    <3>4. ControlStep(s)
      BY <1>2, <2>2, SameCall DEF PRInsert, Inv, Places
    <3> QED
      BY <3>2, <3>3, <3>4 DEF StepOf, RowStep
  <2> QED
    BY <2>1, <2>2
<1> QED
  BY <1>1, <1>2

LEMMA MergeSteps ==
  ASSUME Inv, MergedInv, NEW s \in Sessions, MergeStatus(s) \/ MergeUpdate(s)
  PROVE  StepOf(s)
<1>1. CASE MergeStatus(s)
  BY <1>1, NoWrite DEF MergeStatus, Places, Inv
<1>2. CASE MergeUpdate(s)
  <2> DEFINE p == call[s].pr
             old == View(s).prs[p]
             row == MergedRow(s, old)
  <2>1. p \in PRIDs /\ old \in PRRow
    <3>1. p \in PRIDs /\ old # Null
      BY <1>2 DEF MergeUpdate, Inv, CallInv, CallOK, Given
    <3>2. View(s) \in Database
      BY ViewType DEF Inv
    <3> QED
      BY <3>1, <3>2 DEF Database
  <2>2. old.status = "MERGED" => old.mergedAt # Null
    <3>1. old = db.prs[p] \/ old = wrote[s].prs[p]
      BY <2>1 DEF View, Over
    <3>2. old # Null
      BY <2>1, NullFacts
    <3> QED
      BY <2>1, <3>1, <3>2 DEF MergedInv
  <2>3. /\ row \in PRRow /\ row.mergedAt # Null /\ row.author = old.author
        /\ old.status = "MERGED" => row = old
    <3> HIDE DEF old
    <3>1. s # Null
      BY NullAssumption
    <3> QED
      BY <2>1, <2>2, <3>1 DEF MergedRow, PRRow
  <2>4. /\ Free(s, <<"pr", p>>) /\ UNCHANGED <<db, call, answer, calls>>
        /\ wrote' = [wrote EXCEPT ![s] = [wrote[s] EXCEPT !.prs[p] = row]]
    BY <1>2 DEF MergeUpdate, Write
  <2>5. PRWrite(s)
    <3> HIDE DEF row
    <3> QED
      BY <2>1, <2>3, <2>4 DEF PRWrite
  <2>6. ControlStep(s)
    BY <1>2, SameCall DEF MergeUpdate, Inv, Places
  <2> QED
    BY <2>4, <2>5, <2>6 DEF StepOf, RowStep
<1> QED
  BY <1>1, <1>2

LEMMA ReplaceSteps ==
  ASSUME Inv, NEW s \in Sessions, ReplaceStatus(s) \/ ReplaceAssigned(s) \/ ReplaceDelete(s)
  PROVE  StepOf(s)
<1>1. CASE ReplaceStatus(s)
  BY <1>1, NoWrite DEF ReplaceStatus, Places, Inv
<1>2. CASE ReplaceAssigned(s)
  BY <1>2, NoWrite DEF ReplaceAssigned, Places, Inv
<1>3. CASE ReplaceDelete(s)
  <2>1. Old(s) \in PRIDs \X UserIDs
    BY <1>3 DEF ReplaceDelete, Old, Inv, CallInv, CallOK, Given
  <2>2. ReviewerDelete(s)
    BY <1>3, <2>1 DEF ReplaceDelete, ReviewerDelete, Write
  <2>3. ControlStep(s)
    BY <1>3, SameCall DEF ReplaceDelete, Inv, Places
  <2> QED
    BY <1>3, <2>2, <2>3 DEF StepOf, RowStep, ReplaceDelete
<1> QED
  BY <1>1, <1>2, <1>3

LEMMA InsertStep ==
  ASSUME Inv, NEW s \in Sessions, InsertReviewers(s)
  PROVE  StepOf(s)
<1>1. CASE Abort(s)
  BY <1>1, AbortStep DEF Inv
<1>2. CASE ~Abort(s)
  <2>1. New(s) \in SUBSET (PRIDs \X UserIDs)
    <3>1. /\ call[s].pr \in PRIDs /\ call[s].ids \subseteq UserIDs
          /\ call[s].method # "create_pr" => call[s].new \in UserIDs
      BY DEF InsertReviewers, Inv, TypeOK, CallInv, CallOK, Given, Call
    <3> QED
      BY <3>1 DEF New
  <2>2. /\ \A row \in New(s) : Free(s, <<"reviewer", row>>) /\ row \notin View(s).reviewers
        /\ Write(s, [wrote[s] EXCEPT !.new = @ \cup New(s),
                                     !.balance = [row \in PRIDs \X UserIDs |->
                                       @[row] + (IF row \in New(s) THEN 1 ELSE 0)]])
        /\ UNCHANGED <<db, call, answer, calls>> /\ Goto(s, "read")
    BY <1>2 DEF InsertReviewers
  <2>3. ReviewerInsert(s)
    BY <2>1, <2>2 DEF ReviewerInsert, Write
  <2>4. ControlStep(s)
    BY <2>2, SameCall DEF Inv, Places
  <2> QED
    BY <2>2, <2>3, <2>4 DEF StepOf, RowStep
<1> QED
  BY <1>1, <1>2

LEMMA ReadSteps ==
  ASSUME Inv, NEW s \in Sessions, Read(s) \/ ReadMore(s)
  PROVE  StepOf(s)
<1>1. UNCHANGED <<db, wrote, call, calls>>
  BY DEF Read, ReadMore
<1>2. \E place \in Places : at' = [at EXCEPT ![s] = place]
  BY DEF Read, ReadMore, Goto, Places
<1>3. \E first, second : answer' = [answer EXCEPT ![s] = [first |-> first, second |-> second]]
  <2>1. answer[s] = [first |-> answer[s].first, second |-> answer[s].second]
    BY DEF Inv, TypeOK
  <2>2. CASE Read(s)
    <3> DEFINE found == FirstQuery(View(s), call[s])
    <3>1. answer' = [answer EXCEPT ![s] = [answer[s] EXCEPT !.first = found]]
      BY <2>2 DEF Read
    <3> HIDE DEF found
    <3>2. [answer[s] EXCEPT !.first = found] = [first |-> found, second |-> answer[s].second]
      BY <2>1
    <3> QED
      BY <3>1, <3>2
  <2>3. CASE ReadMore(s)
    <3> DEFINE found == SecondQuery(View(s), call[s])
    <3>1. answer' = [answer EXCEPT ![s] = [answer[s] EXCEPT !.second = found]]
      BY <2>3 DEF ReadMore
    <3> HIDE DEF found
    <3>2. [answer[s] EXCEPT !.second = found] = [first |-> answer[s].first, second |-> found]
      BY <2>1
    <3> QED
      BY <3>1, <3>2
  <2> QED
    BY <2>2, <2>3
<1>4. \E c \in Call : call' = [call EXCEPT ![s] = c]
  BY <1>1 DEF Inv, TypeOK
<1>5. \E n \in Nat : calls' = [calls EXCEPT ![s] = n]
  BY <1>1 DEF Inv, TypeOK
<1> QED
  BY <1>1, <1>2, <1>3, <1>4, <1>5 DEF StepOf, RowStep, ControlStep

LEMMA CallSteps ==
  ASSUME Inv, NEW s \in Sessions, Begin(s) \/ CallMethod(s)
  PROVE  StepOf(s)
<1>1. CASE Begin(s)
  BY <1>1, NoWrite DEF Begin, Places, Inv
<1>2. CASE CallMethod(s)
  <2>1. \E c \in Call : call' = [call EXCEPT ![s] = c] /\ Goto(s, FirstPlace(c))
    <3>1. PICK c \in Calls :
            LET there == {u \in c.ids : View(s).users[u] # Null}
                d == IF c.method = "deactivate" THEN [c EXCEPT !.ids = there, !.on = c.ids]
                                              ELSE c
            IN call' = [call EXCEPT ![s] = d] /\ Goto(s, FirstPlace(d))
      BY <1>2 DEF CallMethod
    <3> DEFINE there == {u \in c.ids : View(s).users[u] # Null}
    <3>2. c \in Call
      BY CallsType
    <3>3. [c EXCEPT !.ids = there, !.on = c.ids] \in Call
      BY <3>2 DEF Call
    <3> QED
      BY <3>1, <3>2, <3>3
  <2>2. \A c \in Call : FirstPlace(c) \in Places
    BY DEF FirstPlace, Places, Call, Methods
  <2>3. answer' = [answer EXCEPT ![s] = [first |-> Null, second |-> Null]]
    BY <1>2 DEF CallMethod, NoAnswer
  <2>4. calls' = [calls EXCEPT ![s] = calls[s] + 1] /\ calls[s] + 1 \in Nat
    <3>1. calls \in [Sessions -> Nat]
      BY DEF Inv, TypeOK
    <3>2. calls' = [calls EXCEPT ![s] = @ + 1]
      BY <1>2 DEF CallMethod
    <3> QED
      BY <3>1, <3>2
  <2>5. ControlStep(s)
    BY <2>1, <2>2, <2>3, <2>4 DEF ControlStep, Goto
  <2> QED
    BY <1>2, <2>5 DEF StepOf, RowStep, CallMethod
<1> QED
  BY <1>1, <1>2

\* The steps of a transaction in progress.
Working(s) ==
  Begin(s) \/ CallMethod(s) \/ Statement(s) \/ StatementError(s) \/ DeadlockAbort(s)

LEMMA WorkingStep ==
  ASSUME Inv, MergedInv, NEW s \in Sessions, Working(s)
  PROVE  StepOf(s)
<1>1. CASE StatementError(s) \/ DeadlockAbort(s)
  BY <1>1, AbortStep DEF StatementError, DeadlockAbort, Inv
<1>2. CASE Begin(s) \/ CallMethod(s)
  BY <1>2, CallSteps
<1>3. CASE Statement(s)
  BY <1>3, CreateTeamSteps, UserSteps, CreatePRSteps, MergeSteps, ReplaceSteps, InsertStep,
     ReadSteps DEF Statement
<1> QED
  BY <1>1, <1>2, <1>3 DEF Working

------------------------------------------------------------------------------
\* Types.

LEMMA WrittenType ==
  ASSUME TypeOK, NEW s \in Sessions, RowStep(s)
  PROVE  \E w \in Writes : wrote' = [wrote EXCEPT ![s] = w]
<1>0. wrote \in [Sessions -> Writes] /\ wrote[s] \in Writes
  BY DEF TypeOK
<1>1. CASE UNCHANGED wrote
  BY <1>0, <1>1
<1>2. CASE TeamWrite(s)
  <2>1. \A t \in TeamNames : [wrote[s] EXCEPT !.teams = @ \cup {t}] \in Writes
    BY <1>0 DEF Writes
  <2> QED
    BY <1>2, <2>1 DEF TeamWrite
<1>3. CASE UserWrite(s)
  <2>1. \A u \in UserIDs, row \in UserRow : [wrote[s] EXCEPT !.users[u] = row] \in Writes
    BY <1>0 DEF Writes
  <2> QED
    BY <1>3, <2>1 DEF UserWrite
<1>4. CASE PRWrite(s)
  <2>1. \A p \in PRIDs, row \in PRRow : [wrote[s] EXCEPT !.prs[p] = row] \in Writes
    BY <1>0 DEF Writes
  <2> QED
    BY <1>4, <2>1 DEF PRWrite
<1>5. CASE ReviewerDelete(s)
  <2>1. ASSUME NEW row \in PRIDs \X UserIDs
        PROVE  [wrote[s] EXCEPT !.gone = @ \cup ({row} \cap View(s).reviewers),
                                !.new = @ \ {row}, !.balance[row] = @ - 1] \in Writes
    <3> DEFINE b == [wrote[s].balance EXCEPT ![row] = @ - 1]
               seen == View(s).reviewers
    <3>1. wrote[s].balance[row] - 1 \in Int /\ b \in [PRIDs \X UserIDs -> Int]
      BY <1>0 DEF Writes
    <3> HIDE DEF b, seen
    <3>2. [wrote[s] EXCEPT !.gone = @ \cup ({row} \cap seen), !.new = @ \ {row}, !.balance = b]
            \in Writes
      BY <1>0, <3>1 DEF Writes
    <3> QED
      BY <3>2, <1>0 DEF b, seen, Writes
  <2> QED
    BY <1>5, <2>1 DEF ReviewerDelete
<1>6. CASE ReviewerInsert(s)
  <2>1. ASSUME NEW rows \in SUBSET (PRIDs \X UserIDs)
        PROVE  [wrote[s] EXCEPT !.new = @ \cup rows,
                                !.balance = [row \in PRIDs \X UserIDs |->
                                  @[row] + (IF row \in rows THEN 1 ELSE 0)]] \in Writes
    <3> DEFINE b == [row \in PRIDs \X UserIDs |->
                       wrote[s].balance[row] + (IF row \in rows THEN 1 ELSE 0)]
    <3>1. b \in [PRIDs \X UserIDs -> Int]
      BY <1>0 DEF Writes
    <3> HIDE DEF b
    <3>2. [wrote[s] EXCEPT !.new = @ \cup rows, !.balance = b] \in Writes
      BY <1>0, <3>1 DEF Writes
    <3> QED
      BY <3>2 DEF b
  <2> QED
    BY <1>6, <2>1 DEF ReviewerInsert
<1> QED
  BY <1>1, <1>2, <1>3, <1>4, <1>5, <1>6 DEF RowStep

LEMMA ControlTypes ==
  ASSUME TypeOK, NEW s \in Sessions, ControlStep(s)
  PROVE  /\ at' \in [Sessions -> Places] /\ call' \in [Sessions -> Call]
         /\ calls' \in [Sessions -> Nat]
         /\ answer' = [x \in Sessions |-> [first |-> answer'[x].first,
                                          second |-> answer'[x].second]]
<1>1. at' \in [Sessions -> Places]
  BY DEF TypeOK, ControlStep
<1>2. call' \in [Sessions -> Call] /\ calls' \in [Sessions -> Nat]
  BY DEF TypeOK, ControlStep
<1>3. PICK first, second : answer' = [answer EXCEPT ![s] = [first |-> first, second |-> second]]
  BY DEF ControlStep
<1>4. answer = [x \in Sessions |-> [first |-> answer[x].first, second |-> answer[x].second]]
  BY DEF TypeOK
<1>5. DOMAIN answer' = Sessions
  BY <1>3, <1>4
<1>6. \A x \in Sessions : answer'[x] = [first |-> answer'[x].first, second |-> answer'[x].second]
  BY <1>3, <1>4
<1>7. answer' = [x \in Sessions |-> answer'[x]]
  BY <1>3, <1>4, <1>5
<1> QED
  BY <1>1, <1>2, <1>6, <1>7

LEMMA WorkingTypes ==
  ASSUME TypeOK, NEW s \in Sessions, StepOf(s)
  PROVE  TypeOK'
<1>1. db' \in Database
  BY DEF StepOf, RowStep, TypeOK
<1>2. wrote' \in [Sessions -> Writes]
  BY WrittenType DEF StepOf, TypeOK
<1>3. /\ at' \in [Sessions -> Places] /\ call' \in [Sessions -> Call]
      /\ calls' \in [Sessions -> Nat]
      /\ answer' = [x \in Sessions |-> [first |-> answer'[x].first,
                                       second |-> answer'[x].second]]
  BY ControlTypes DEF StepOf
<1> QED
  BY <1>1, <1>2, <1>3 DEF TypeOK

LEMMA EndControl ==
  ASSUME TypeOK, NEW s \in Sessions, NEW how \in {"committed", "failed"}, End(s, how)
  PROVE  ControlStep(s)
<1>1. at' = [at EXCEPT ![s] = how] /\ how \in Places
  BY DEF End, Goto, Places
<1>2. call' = [call EXCEPT ![s] = NoCall] /\ NoCall \in Call
  BY NoCallType DEF End
<1>3. answer' = [answer EXCEPT ![s] = [first |-> Null, second |-> Null]]
  BY DEF End, NoAnswer
<1>4. calls' = [calls EXCEPT ![s] = 0] /\ 0 \in Nat
  BY DEF End
<1> QED
  BY <1>1, <1>2, <1>3, <1>4 DEF ControlStep

\* The end of the transaction of s, and the crash.
CommitRows(s) == db' = Over(db, wrote[s]) /\ wrote' = [wrote EXCEPT ![s] = Nothing]

ForgetRows ==
  /\ UNCHANGED db
  /\ wrote' \in [Sessions -> Writes]
  /\ \A x \in Sessions : wrote'[x] \in {wrote[x], Nothing}

LEMMA FinishStep ==
  ASSUME TypeOK, NEW s \in Sessions, Finish(s)
  PROVE  (CommitRows(s) \/ ForgetRows) /\ ControlStep(s) /\ TypeOK'
<1>1. ControlStep(s)
  BY EndControl DEF Finish, CommitTx, Rollback
<1>2. wrote' = [wrote EXCEPT ![s] = Nothing] /\ wrote' \in [Sessions -> Writes]
  BY NothingType DEF Finish, CommitTx, Rollback, End, Write, TypeOK
<1>3. CommitRows(s) \/ ForgetRows
  BY <1>2 DEF Finish, CommitTx, Rollback, CommitRows, ForgetRows, TypeOK
<1>4. db' \in Database
  BY <1>3, OverType DEF CommitRows, ForgetRows, TypeOK
<1> QED
  BY <1>1, <1>2, <1>3, <1>4, ControlTypes DEF TypeOK

LEMMA CrashStep ==
  ASSUME TypeOK, Crash
  PROVE  ForgetRows /\ TypeOK'
<1>1. ForgetRows
  BY NothingType DEF Crash, ForgetRows
<1>2. at' \in [Sessions -> Places] /\ call' \in [Sessions -> Call] /\ calls' \in [Sessions -> Nat]
  BY NoCallType DEF Crash, TypeOK, Places
<1>3. answer' = [s \in Sessions |-> [first |-> answer'[s].first, second |-> answer'[s].second]]
  BY DEF Crash, NoAnswer
<1> QED
  BY <1>1, <1>2, <1>3 DEF ForgetRows, TypeOK

------------------------------------------------------------------------------
\* The invariants of the rows.

\* Who takes keys that are free shares none.
LEMMA LocksGrow ==
  ASSUME LocksInv, NEW s \in Sessions, NEW keys, \A key \in keys : Free(s, key),
         Held(s)' \subseteq Held(s) \cup keys,
         \A x \in Sessions \ {s} : Held(x)' = Held(x)
  PROVE  LocksInv'
BY DEF LocksInv, Free

LEMMA OthersHeld ==
  ASSUME TypeOK, NEW s \in Sessions, NEW w, wrote' = [wrote EXCEPT ![s] = w]
  PROVE  /\ wrote'[s] = w
         /\ \A x \in Sessions \ {s} : wrote'[x] = wrote[x] /\ Held(x)' = Held(x)
BY DEF TypeOK, Held

\* A row or a reviewer that one transaction has written, no other has.
LEMMA OneWriter ==
  ASSUME LocksInv, NEW s \in Sessions, NEW x \in Sessions, s # x
  PROVE  /\ \A p \in PRIDs : wrote[x].prs[p] # Null => wrote[s].prs[p] = Null
         /\ \A row \in wrote[x].gone \cup wrote[x].new :
              row \notin wrote[s].gone \cup wrote[s].new
<1>1. Held(s) \cap Held(x) = {}
  BY DEF LocksInv
<1>2. ASSUME NEW p \in PRIDs, wrote[x].prs[p] # Null, wrote[s].prs[p] # Null PROVE FALSE
  <2>1. <<"pr", p>> \in Held(s) /\ <<"pr", p>> \in Held(x)
    BY <1>2, InHeld
  <2> QED
    BY <1>1, <2>1
<1>3. ASSUME NEW row \in wrote[x].gone \cup wrote[x].new,
             row \in wrote[s].gone \cup wrote[s].new
      PROVE  FALSE
  <2>1. <<"reviewer", row>> \in Held(s) /\ <<"reviewer", row>> \in Held(x)
    BY <1>3, InHeld
  <2> QED
    BY <1>1, <2>1
<1> QED
  BY <1>2, <1>3

LEMMA TeamWriteRows ==
  ASSUME TypeOK, RowInv, NEW s \in Sessions, UNCHANGED db, TeamWrite(s)
  PROVE  RowInv'
<1>1. PICK t \in TeamNames :
        /\ Free(s, <<"team", t>>)
        /\ wrote' = [wrote EXCEPT ![s] = [wrote[s] EXCEPT !.teams = @ \cup {t}]]
  BY DEF TeamWrite
<1>2. /\ wrote'[s] = [wrote[s] EXCEPT !.teams = @ \cup {t}]
      /\ \A x \in Sessions \ {s} : wrote'[x] = wrote[x] /\ Held(x)' = Held(x)
  BY <1>1, OthersHeld
<1>3. \A x \in Sessions : /\ wrote'[x].users = wrote[x].users /\ wrote'[x].prs = wrote[x].prs
                          /\ wrote'[x].gone = wrote[x].gone /\ wrote'[x].new = wrote[x].new
                          /\ wrote'[x].balance = wrote[x].balance
  <2>1. wrote[s] \in Writes
    BY DEF TypeOK
  <2>2. /\ wrote'[s].users = wrote[s].users /\ wrote'[s].prs = wrote[s].prs
        /\ wrote'[s].gone = wrote[s].gone /\ wrote'[s].new = wrote[s].new
        /\ wrote'[s].balance = wrote[s].balance
    BY <1>2, <2>1 DEF Writes
  <2> QED
    BY <1>2, <2>2
<1>4. LocksInv'
  <2>1. wrote'[s].teams = wrote[s].teams \cup {t}
    BY <1>2 DEF TypeOK, Writes
  <2>2. Held(s)' \subseteq Held(s) \cup {<<"team", t>>}
    BY <1>3, <2>1 DEF Held
  <2> QED
    BY <1>1, <1>2, <2>2, LocksGrow DEF RowInv
<1>5. VersionsInv' /\ MergedInv' /\ EventsInv' /\ EventsBacked'
  BY <1>3 DEF RowInv, VersionsInv, MergedInv, EventsInv, EventsBacked
<1> QED
  BY <1>4, <1>5 DEF RowInv

LEMMA UserWriteRows ==
  ASSUME TypeOK, RowInv, NEW s \in Sessions, UNCHANGED db, UserWrite(s)
  PROVE  RowInv'
<1>1. PICK u \in UserIDs, row \in UserRow :
        /\ Free(s, <<"user", u>>)
        /\ wrote' = [wrote EXCEPT ![s] = [wrote[s] EXCEPT !.users[u] = row]]
  BY DEF UserWrite
<1>2. /\ wrote'[s] = [wrote[s] EXCEPT !.users[u] = row]
      /\ \A x \in Sessions \ {s} : wrote'[x] = wrote[x] /\ Held(x)' = Held(x)
  BY <1>1, OthersHeld
<1>3. \A x \in Sessions : /\ wrote'[x].teams = wrote[x].teams /\ wrote'[x].prs = wrote[x].prs
                          /\ wrote'[x].gone = wrote[x].gone /\ wrote'[x].new = wrote[x].new
                          /\ wrote'[x].balance = wrote[x].balance
  <2>1. wrote[s] \in Writes
    BY DEF TypeOK
  <2>2. /\ wrote'[s].teams = wrote[s].teams /\ wrote'[s].prs = wrote[s].prs
        /\ wrote'[s].gone = wrote[s].gone /\ wrote'[s].new = wrote[s].new
        /\ wrote'[s].balance = wrote[s].balance
    BY <1>2, <2>1 DEF Writes
  <2> QED
    BY <1>2, <2>2
<1>4. LocksInv'
  <2>1. wrote'[s].users = [wrote[s].users EXCEPT ![u] = row]
    BY <1>2 DEF TypeOK, Writes
  <2>2. wrote[s].users \in [UserIDs -> UserRow \cup {Null}]
    BY DEF TypeOK, Writes
  <2>3. Held(s)' \subseteq Held(s) \cup {<<"user", u>>}
    BY <1>3, <2>1, <2>2 DEF Held
  <2> QED
    BY <1>1, <1>2, <2>3, LocksGrow DEF RowInv
<1>5. VersionsInv' /\ MergedInv' /\ EventsInv' /\ EventsBacked'
  BY <1>3 DEF RowInv, VersionsInv, MergedInv, EventsInv, EventsBacked
<1> QED
  BY <1>4, <1>5 DEF RowInv

LEMMA PRWriteRows ==
  ASSUME TypeOK, RowInv, NEW s \in Sessions, UNCHANGED db, PRWrite(s)
  PROVE  RowInv'
<1>1. PICK p \in PRIDs, row \in PRRow :
        /\ Free(s, <<"pr", p>>)
        /\ row.status = "MERGED" => row.mergedAt # Null
        /\ View(s).prs[p] # Null =>
             /\ row.author = View(s).prs[p].author
             /\ View(s).prs[p].status = "MERGED" => row = View(s).prs[p]
        /\ wrote' = [wrote EXCEPT ![s] = [wrote[s] EXCEPT !.prs[p] = row]]
  BY DEF PRWrite
<1>2. /\ wrote'[s] = [wrote[s] EXCEPT !.prs[p] = row]
      /\ \A x \in Sessions \ {s} : wrote'[x] = wrote[x] /\ Held(x)' = Held(x)
  BY <1>1, OthersHeld
<1>3. \A x \in Sessions : /\ wrote'[x].teams = wrote[x].teams /\ wrote'[x].users = wrote[x].users
                          /\ wrote'[x].gone = wrote[x].gone /\ wrote'[x].new = wrote[x].new
                          /\ wrote'[x].balance = wrote[x].balance
  <2>1. wrote[s] \in Writes
    BY DEF TypeOK
  <2>2. /\ wrote'[s].teams = wrote[s].teams /\ wrote'[s].users = wrote[s].users
        /\ wrote'[s].gone = wrote[s].gone /\ wrote'[s].new = wrote[s].new
        /\ wrote'[s].balance = wrote[s].balance
    BY <1>2, <2>1 DEF Writes
  <2> QED
    BY <1>2, <2>2
<1>4. /\ wrote'[s].prs = [wrote[s].prs EXCEPT ![p] = row]
      /\ wrote[s].prs \in [PRIDs -> PRRow \cup {Null}]
  BY <1>2 DEF TypeOK, Writes
<1>5. LocksInv'
  <2>1. Held(s)' \subseteq Held(s) \cup {<<"pr", p>>}
    BY <1>3, <1>4 DEF Held
  <2> QED
    <3>1. \A key \in {<<"pr", p>>} : Free(s, key)
      BY <1>1
    <3> QED
      BY <1>2, <2>1, <3>1, LocksGrow DEF RowInv
<1>6. VersionsInv'
  <2> SUFFICES ASSUME NEW x \in Sessions, NEW q \in PRIDs,
                      db.prs[q] # Null, wrote'[x].prs[q] # Null
               PROVE  /\ wrote'[x].prs[q].author = db.prs[q].author
                      /\ db.prs[q].status = "MERGED" => wrote'[x].prs[q] = db.prs[q]
    BY DEF VersionsInv
  <2>1. CASE x # s \/ q # p
    <3>1. wrote'[x].prs[q] = wrote[x].prs[q]
      BY <1>2, <1>4, <2>1
    <3> QED
      BY <3>1 DEF RowInv, VersionsInv
  <2>2. CASE x = s /\ q = p
    <3>1. View(s).prs[p] = IF wrote[s].prs[p] # Null THEN wrote[s].prs[p] ELSE db.prs[p]
      BY DEF View, Over
    <3>2. wrote'[s].prs[p] = row
      BY <1>4
    <3>3. CASE wrote[s].prs[p] = Null
      BY <1>1, <2>2, <3>1, <3>2, <3>3
    <3>4. CASE wrote[s].prs[p] # Null
      <4>1. /\ wrote[s].prs[p].author = db.prs[p].author
            /\ db.prs[p].status = "MERGED" => wrote[s].prs[p] = db.prs[p]
        BY <2>2, <3>4 DEF RowInv, VersionsInv
      <4> QED
        BY <1>1, <2>2, <3>1, <3>2, <3>4, <4>1
    <3> QED
      BY <3>3, <3>4
  <2> QED
    BY <2>1, <2>2
<1>7. MergedInv'
  <2> SUFFICES ASSUME NEW q \in PRIDs, NEW x \in Sessions,
                      wrote'[x].prs[q] # Null, wrote'[x].prs[q].status = "MERGED"
               PROVE  wrote'[x].prs[q].mergedAt # Null
    BY DEF MergedInv, RowInv
  <2>1. wrote'[x].prs[q] = row \/ wrote'[x].prs[q] = wrote[x].prs[q]
    BY <1>2, <1>4
  <2> QED
    BY <1>1, <2>1 DEF RowInv, MergedInv
<1>8. EventsInv' /\ EventsBacked'
  BY <1>3 DEF RowInv, EventsInv, EventsBacked
<1> QED
  BY <1>5, <1>6, <1>7, <1>8 DEF RowInv

\* What EventsInv says of one row.
Backed(s, row) ==
  LET held == row \in wrote[s].gone \cup wrote[s].new IN
  /\ held => db.balance[row] + wrote[s].balance[row]
               <= (IF row \in wrote[s].new THEN 1 ELSE 0)
  /\ ~held => wrote[s].balance[row] <= 0

LEMMA EventsByRow ==
  /\ EventsInv <=> \A s \in Sessions, row \in PRIDs \X UserIDs : Backed(s, row)
  /\ EventsInv' <=> \A s \in Sessions, row \in PRIDs \X UserIDs : Backed(s, row)'
BY DEF EventsInv, Backed

LEMMA BalanceTypes ==
  ASSUME TypeOK
  PROVE  \A s \in Sessions, row \in PRIDs \X UserIDs :
           db.balance[row] \in Int /\ wrote[s].balance[row] \in Int
BY DEF TypeOK, Database, Writes

LEMMA DeleteRows ==
  ASSUME TypeOK, RowInv, NEW s \in Sessions, UNCHANGED db, ReviewerDelete(s)
  PROVE  RowInv'
<1> DEFINE seen == View(s).reviewers
<1>1. PICK row \in PRIDs \X UserIDs :
        /\ row \in seen => Free(s, <<"reviewer", row>>)
        /\ wrote' = [wrote EXCEPT ![s] =
             [wrote[s] EXCEPT !.gone = @ \cup ({row} \cap seen),
                              !.new = @ \ {row}, !.balance[row] = @ - 1]]
  BY DEF ReviewerDelete
<1>2. seen = (db.reviewers \ wrote[s].gone) \cup wrote[s].new
  BY DEF View, Over
<1> HIDE DEF seen
<1>3. /\ wrote'[s] = [wrote[s] EXCEPT !.gone = @ \cup ({row} \cap seen),
                                     !.new = @ \ {row}, !.balance[row] = @ - 1]
      /\ \A x \in Sessions \ {s} : wrote'[x] = wrote[x] /\ Held(x)' = Held(x)
  BY <1>1, OthersHeld
<1>4. /\ wrote'[s].teams = wrote[s].teams /\ wrote'[s].users = wrote[s].users
      /\ wrote'[s].prs = wrote[s].prs
      /\ wrote'[s].gone = wrote[s].gone \cup ({row} \cap seen)
      /\ wrote'[s].new = wrote[s].new \ {row}
      /\ wrote'[s].balance = [wrote[s].balance EXCEPT ![row] = @ - 1]
  <2>1. wrote[s] \in Writes
    BY DEF TypeOK
  <2> QED
    BY <1>3, <2>1 DEF Writes
<1>5. LocksInv'
  <2> DEFINE keys == {<<"reviewer", r>> : r \in {row} \cap seen}
  <2>1. Held(s)' \subseteq Held(s) \cup keys
    BY <1>4 DEF Held
  <2>2. \A key \in keys : Free(s, key)
    BY <1>1
  <2> HIDE DEF keys
  <2> QED
    BY <1>3, <2>1, <2>2, LocksGrow DEF RowInv
<1>6. VersionsInv' /\ MergedInv'
  <2>1. \A x \in Sessions : wrote'[x].prs = wrote[x].prs
    BY <1>3, <1>4
  <2> QED
    BY <2>1 DEF RowInv, VersionsInv, MergedInv
<1>7. EventsInv'
  <2> SUFFICES ASSUME NEW x \in Sessions, NEW r \in PRIDs \X UserIDs
               PROVE  Backed(x, r)'
    BY EventsByRow
  <2>0. /\ Backed(x, r) /\ db.balance[r] \in Int /\ wrote[x].balance[r] \in Int
        /\ wrote[s].balance \in [PRIDs \X UserIDs -> Int]
        /\ db.balance[r] <= (IF r \in db.reviewers THEN 1 ELSE 0)
    BY EventsByRow, BalanceTypes DEF RowInv, EventsBacked, TypeOK, Writes
  <2>1. CASE x # s
    BY <1>3, <2>0, <2>1 DEF Backed
  <2>2. CASE x = s /\ r # row
    <3>1. wrote'[s].balance[r] = wrote[s].balance[r]
      BY <1>4, <2>0, <2>2
    <3> QED
      BY <1>4, <2>0, <2>2, <3>1 DEF Backed
  <2>3. CASE x = s /\ r = row
    <3>1. wrote'[s].balance[r] = wrote[s].balance[r] - 1 /\ r \notin wrote'[s].new
      BY <1>4, <2>0, <2>3
    <3>2. r \in wrote'[s].gone <=> r \in wrote[s].gone \/ r \in seen
      BY <1>4, <2>3
    <3>3. db' = db
      OBVIOUS
    <3>4. CASE r \in wrote[s].new
      BY <1>2, <2>0, <2>3, <3>1, <3>2, <3>3, <3>4 DEF Backed
    <3>5. CASE r \notin wrote[s].new /\ r \in wrote[s].gone
      BY <1>2, <2>0, <2>3, <3>1, <3>2, <3>3, <3>5 DEF Backed
    <3>6. CASE r \notin wrote[s].new /\ r \notin wrote[s].gone
      BY <1>2, <2>0, <2>3, <3>1, <3>2, <3>3, <3>6 DEF Backed
    <3> QED
      BY <3>4, <3>5, <3>6
  <2> QED
    BY <2>1, <2>2, <2>3
<1>8. EventsBacked'
  BY DEF RowInv, EventsBacked
<1> QED
  BY <1>5, <1>6, <1>7, <1>8 DEF RowInv

LEMMA InsertRows ==
  ASSUME TypeOK, RowInv, NEW s \in Sessions, UNCHANGED db, ReviewerInsert(s)
  PROVE  RowInv'
<1>1. PICK rows \in SUBSET (PRIDs \X UserIDs) :
        /\ \A row \in rows : Free(s, <<"reviewer", row>>) /\ row \notin View(s).reviewers
        /\ wrote' = [wrote EXCEPT ![s] =
             [wrote[s] EXCEPT !.new = @ \cup rows,
                              !.balance = [row \in PRIDs \X UserIDs |->
                                @[row] + (IF row \in rows THEN 1 ELSE 0)]]]
  BY DEF ReviewerInsert
<1> DEFINE b == [row \in PRIDs \X UserIDs |->
                   wrote[s].balance[row] + (IF row \in rows THEN 1 ELSE 0)]
<1>2. wrote'[s] = [wrote[s] EXCEPT !.new = @ \cup rows, !.balance = b]
  <2> DEFINE w == [wrote[s] EXCEPT !.new = @ \cup rows, !.balance = b]
  <2>1. wrote' = [wrote EXCEPT ![s] = w]
    BY <1>1
  <2> HIDE DEF w
  <2>2. wrote'[s] = w
    BY <2>1, OthersHeld
  <2> QED
    BY <2>2 DEF w
<1>3. \A x \in Sessions \ {s} : wrote'[x] = wrote[x] /\ Held(x)' = Held(x)
  BY <1>1 DEF TypeOK, Held
<1> HIDE DEF b
<1>4. /\ wrote'[s].teams = wrote[s].teams /\ wrote'[s].users = wrote[s].users
      /\ wrote'[s].prs = wrote[s].prs /\ wrote'[s].gone = wrote[s].gone
      /\ wrote'[s].new = wrote[s].new \cup rows
      /\ wrote'[s].balance = b
  <2>1. wrote[s] \in Writes
    BY DEF TypeOK
  <2> QED
    BY <1>2, <2>1 DEF Writes
<1>5. LocksInv'
  <2> DEFINE keys == {<<"reviewer", r>> : r \in rows}
  <2>1. Held(s)' \subseteq Held(s) \cup keys
    BY <1>4 DEF Held
  <2>2. \A key \in keys : Free(s, key)
    BY <1>1
  <2> HIDE DEF keys
  <2> QED
    BY <1>3, <2>1, <2>2, LocksGrow DEF RowInv
<1>6. VersionsInv' /\ MergedInv'
  <2>1. \A x \in Sessions : wrote'[x].prs = wrote[x].prs
    BY <1>3, <1>4
  <2> QED
    BY <2>1 DEF RowInv, VersionsInv, MergedInv
<1>7. EventsInv'
  <2> SUFFICES ASSUME NEW x \in Sessions, NEW r \in PRIDs \X UserIDs
               PROVE  Backed(x, r)'
    BY EventsByRow
  <2>0. /\ Backed(x, r) /\ db.balance[r] \in Int /\ wrote[x].balance[r] \in Int
        /\ db.balance[r] <= (IF r \in db.reviewers THEN 1 ELSE 0)
    BY EventsByRow, BalanceTypes DEF RowInv, EventsBacked
  <2>1. CASE x # s
    BY <1>3, <2>0, <2>1 DEF Backed
  <2>2. CASE x = s /\ r \notin rows
    <3>1. wrote'[s].balance[r] = wrote[s].balance[r]
      BY <1>4, <2>0, <2>2 DEF b
    <3> QED
      BY <1>4, <2>0, <2>2, <3>1 DEF Backed
  <2>3. CASE x = s /\ r \in rows
    <3>1. wrote'[s].balance[r] = wrote[s].balance[r] + 1 /\ r \in wrote'[s].new
      BY <1>4, <2>0, <2>3 DEF b
    <3>2. r \notin (db.reviewers \ wrote[s].gone) \cup wrote[s].new
      BY <1>1, <2>3 DEF View, Over
    <3> QED
      BY <2>0, <2>3, <3>1, <3>2 DEF Backed
  <2> QED
    BY <2>1, <2>2, <2>3
<1>8. EventsBacked'
  BY DEF RowInv, EventsBacked
<1> QED
  BY <1>5, <1>6, <1>7, <1>8 DEF RowInv

LEMMA WorkingRows ==
  ASSUME TypeOK, RowInv, NEW s \in Sessions, RowStep(s)
  PROVE  RowInv'
<1>1. CASE UNCHANGED wrote
  <2>1. UNCHANGED <<db, wrote>>
    BY <1>1 DEF RowStep
  <2> QED
    BY <2>1 DEF RowInv, LocksInv, Held, VersionsInv, MergedInv, EventsInv, EventsBacked
<1> QED
  BY <1>1, TeamWriteRows, UserWriteRows, PRWriteRows, DeleteRows, InsertRows DEF RowStep

LEMMA CommitKeepsRows ==
  ASSUME TypeOK, RowInv, NEW s \in Sessions, CommitRows(s)
  PROVE  RowInv'
<1>1. /\ wrote'[s] = Nothing
      /\ \A x \in Sessions \ {s} : wrote'[x] = wrote[x] /\ Held(x)' = Held(x)
  BY OthersHeld DEF CommitRows
<1>2. /\ \A p \in PRIDs : db'.prs[p] = IF wrote[s].prs[p] # Null THEN wrote[s].prs[p]
                                                             ELSE db.prs[p]
      /\ db'.reviewers = (db.reviewers \ wrote[s].gone) \cup wrote[s].new
      /\ \A row \in PRIDs \X UserIDs :
           db'.balance[row] = db.balance[row] + wrote[s].balance[row]
  BY DEF CommitRows, Over
<1>3. LocksInv'
  <2>1. Held(s)' = {}
    BY <1>1 DEF Held, Nothing
  <2> QED
    BY <1>1, <2>1 DEF RowInv, LocksInv
<1>4. VersionsInv'
  <2> SUFFICES ASSUME NEW x \in Sessions, NEW p \in PRIDs,
                      db'.prs[p] # Null, wrote'[x].prs[p] # Null
               PROVE  /\ wrote'[x].prs[p].author = db'.prs[p].author
                      /\ db'.prs[p].status = "MERGED" => wrote'[x].prs[p] = db'.prs[p]
    BY DEF VersionsInv
  <2>1. x # s /\ wrote'[x] = wrote[x]
    BY <1>1 DEF Nothing
  <2>2. wrote[s].prs[p] = Null
    BY <2>1, OneWriter DEF RowInv
  <2> QED
    BY <1>2, <2>1, <2>2 DEF RowInv, VersionsInv
<1>5. MergedInv'
  <2> SUFFICES ASSUME NEW p \in PRIDs,
                      NEW row \in {db'.prs[p]} \cup {wrote'[x].prs[p] : x \in Sessions},
                      row # Null, row.status = "MERGED"
               PROVE  row.mergedAt # Null
    BY DEF MergedInv
  <2>1. row \in {db.prs[p]} \cup {wrote[x].prs[p] : x \in Sessions}
    BY <1>1, <1>2 DEF Nothing
  <2> QED
    BY <2>1 DEF RowInv, MergedInv
<1>6. EventsBacked'
  <2> SUFFICES ASSUME NEW row \in PRIDs \X UserIDs
               PROVE  db'.balance[row] <= (IF row \in db'.reviewers THEN 1 ELSE 0)
    BY DEF EventsBacked
  <2>1. /\ Backed(s, row) /\ db.balance[row] \in Int /\ wrote[s].balance[row] \in Int
        /\ db.balance[row] <= (IF row \in db.reviewers THEN 1 ELSE 0)
    BY EventsByRow, BalanceTypes DEF RowInv, EventsBacked
  <2> QED
    BY <1>2, <2>1 DEF Backed
<1>7. EventsInv'
  <2> SUFFICES ASSUME NEW x \in Sessions, NEW row \in PRIDs \X UserIDs
               PROVE  Backed(x, row)'
    BY EventsByRow
  <2>0. /\ Backed(s, row) /\ Backed(x, row)
        /\ db.balance[row] \in Int /\ wrote[s].balance[row] \in Int
        /\ wrote[x].balance[row] \in Int
    BY EventsByRow, BalanceTypes DEF RowInv
  <2>1. CASE x = s
    BY <1>1, <2>1 DEF Backed, Nothing
  <2>2. CASE x # s /\ row \in wrote[x].gone \cup wrote[x].new
    <3>1. row \notin wrote[s].gone \cup wrote[s].new
      BY <2>2, OneWriter DEF RowInv
    <3> QED
      BY <1>1, <1>2, <2>0, <2>2, <3>1 DEF Backed
  <2>3. CASE x # s /\ row \notin wrote[x].gone \cup wrote[x].new
    BY <1>1, <2>0, <2>3 DEF Backed
  <2> QED
    BY <2>1, <2>2, <2>3
<1> QED
  BY <1>3, <1>4, <1>5, <1>6, <1>7 DEF RowInv

LEMMA ForgetKeepsRows ==
  ASSUME TypeOK, RowInv, ForgetRows
  PROVE  RowInv'
<1>1. db' = db /\ \A x \in Sessions : wrote'[x] = wrote[x] \/ wrote'[x] = Nothing
  BY DEF ForgetRows
<1>2. \A x \in Sessions : Held(x)' \subseteq Held(x)
  BY <1>1 DEF Held, Nothing
<1>3. LocksInv'
  BY <1>2 DEF RowInv, LocksInv
<1>4. \A x \in Sessions, p \in PRIDs : wrote'[x].prs[p] # Null => wrote'[x] = wrote[x]
  BY <1>1 DEF Nothing
<1>5. VersionsInv' /\ MergedInv'
  BY <1>1, <1>4 DEF RowInv, VersionsInv, MergedInv
<1>6. EventsInv'
  <2> SUFFICES ASSUME NEW x \in Sessions, NEW row \in PRIDs \X UserIDs
               PROVE  Backed(x, row)'
    BY EventsByRow
  <2>1. CASE wrote'[x] = wrote[x]
    BY <1>1, <2>1, EventsByRow DEF RowInv, Backed
  <2>2. CASE wrote'[x] = Nothing
    BY <2>2 DEF Backed, Nothing
  <2> QED
    BY <1>1, <2>1, <2>2
<1> QED
  BY <1>1, <1>3, <1>5, <1>6 DEF RowInv, EventsBacked

------------------------------------------------------------------------------
\* The calls in progress.

\* What x sees of PRs and users does not go away.
KeepsView(x) ==
  /\ \A p \in PRIDs : View(x).prs[p] # Null => View(x)'.prs[p] # Null
  /\ \A u \in UserIDs : View(x).users[u] # Null => View(x)'.users[u] # Null

LEMMA RowStepKeepsViews ==
  ASSUME TypeOK, NEW s \in Sessions, RowStep(s)
  PROVE  \A x \in Sessions : KeepsView(x)
<1>1. /\ \A x \in Sessions, p \in PRIDs : wrote[x].prs[p] # Null => wrote'[x].prs[p] # Null
      /\ \A x \in Sessions, u \in UserIDs : wrote[x].users[u] # Null => wrote'[x].users[u] # Null
  <2>0. wrote[s] \in Writes /\ wrote \in [Sessions -> Writes]
    BY DEF TypeOK
  <2>1. CASE UNCHANGED wrote
    BY <2>1
  <2>2. CASE TeamWrite(s)
    BY <2>0, <2>2 DEF TeamWrite, Writes
  <2>3. CASE UserWrite(s)
    BY <2>0, <2>3, NullFacts DEF UserWrite, Writes
  <2>4. CASE PRWrite(s)
    BY <2>0, <2>4, NullFacts DEF PRWrite, Writes
  <2>5. CASE ReviewerDelete(s)
    BY <2>0, <2>5 DEF ReviewerDelete, Writes
  <2>6. CASE ReviewerInsert(s)
    BY <2>0, <2>6 DEF ReviewerInsert, Writes
  <2> QED
    BY <2>1, <2>2, <2>3, <2>4, <2>5, <2>6 DEF RowStep
<1>2. db' = db
  BY DEF RowStep
<1> QED
  BY <1>1, <1>2 DEF KeepsView, View, Over

LEMMA CommitKeepsViews ==
  ASSUME TypeOK, NEW s \in Sessions, CommitRows(s)
  PROVE  \A x \in Sessions \ {s} : KeepsView(x)
<1>1. \A x \in Sessions \ {s} : wrote'[x] = wrote[x]
  BY DEF CommitRows, TypeOK
<1>2. /\ \A p \in PRIDs : db.prs[p] # Null => db'.prs[p] # Null
      /\ \A u \in UserIDs : db.users[u] # Null => db'.users[u] # Null
  BY DEF CommitRows, Over
<1> QED
  BY <1>1, <1>2 DEF KeepsView, View, Over

\* The calls of the others are not disturbed.
LEMMA OthersCalls ==
  ASSUME TypeOK, CallInv, NEW s \in Sessions, ControlStep(s),
         \A x \in Sessions \ {s} : KeepsView(x)
  PROVE  \A x \in Sessions \ {s} : CallOK(x)'
<1> SUFFICES ASSUME NEW x \in Sessions \ {s} PROVE CallOK(x)'
  OBVIOUS
<1>1. at'[x] = at[x] /\ call'[x] = call[x] /\ answer'[x] = answer[x]
  BY DEF ControlStep, TypeOK
<1>2. CallOK(x) /\ KeepsView(x) /\ call[x] \in Call
  BY DEF CallInv, TypeOK
<1>3. at[x] = "merge_update" => View(x)'.prs[call[x].pr] # Null
  BY <1>2 DEF CallOK, KeepsView, Given
<1>4. at[x] = "deactivate" => \A u \in call[x].ids : View(x)'.users[u] # Null
  BY <1>2 DEF CallOK, KeepsView, Call
<1> QED
  BY <1>1, <1>2, <1>3, <1>4 DEF CallOK

\* A statement that leaves the call as it is, and goes on to neither of the places that
\* rely on a row.
LEMMA SameCallOK ==
  ASSUME TypeOK, NEW s \in Sessions, CallOK(s), UNCHANGED <<call, answer>>,
         NEW place, Goto(s, place),
         at[s] \notin {"idle", "ready", "read_more", "aborted", "committed", "failed"},
         \/ place \in {"ready", "aborted", "read"}
         \/ at[s] = "team_exists" /\ place = "team_insert"
         \/ at[s] = "team_insert" /\ place = "team_upsert"
         \/ at[s] = "pr_exists" /\ place = "pr_insert"
         \/ at[s] = "pr_insert" /\ place = "insert"
         \/ at[s] = "status" /\ place = "assigned"
         \/ at[s] = "assigned" /\ place = "delete"
         \/ at[s] = "delete" /\ place = "insert" /\ call[s].new \in UserIDs
  PROVE  CallOK(s)'
<1>1. at'[s] = place /\ call' = call /\ answer' = answer
  BY DEF Goto, TypeOK
<1>2. /\ at[s] \in {"team_exists", "team_insert"} => call[s].method = "create_team"
      /\ at[s] \in {"pr_exists", "pr_insert"} => call[s].method = "create_pr"
      /\ at[s] \in {"status", "assigned", "delete"} => call[s].method = "replace"
      /\ Given(call[s]) /\ answer[s].first = Null
  BY DEF CallOK
<1>3. at'[s] \notin {"merge_update", "deactivate", "read_more"}
  BY <1>1
<1>4. Given(call'[s]) /\ answer'[s].first = Null
  BY <1>1, <1>2
<1>5. Given(call[s])' <=> Given(call'[s])
  BY DEF Given
<1>6. CASE place \in {"ready", "aborted", "read"}
  BY <1>1, <1>4, <1>5, <1>6 DEF CallOK
<1>7. CASE place \notin {"ready", "aborted", "read"}
  <2>1. \/ place \in {"team_insert", "team_upsert"} /\ call[s].method = "create_team"
        \/ place = "pr_insert" /\ call[s].method = "create_pr"
        \/ place \in {"assigned", "delete"} /\ call[s].method = "replace"
        \/ place = "insert" /\ call[s].method = "create_pr"
        \/ place = "insert" /\ call[s].method = "replace" /\ call[s].new \in UserIDs
    BY <1>2, <1>7
  <2>2. CASE place \in {"team_insert", "team_upsert"} /\ call[s].method = "create_team"
    BY <1>1, <1>4, <1>5, <2>2 DEF CallOK
  <2>3. CASE place = "pr_insert" /\ call[s].method = "create_pr"
    BY <1>1, <1>4, <1>5, <2>3 DEF CallOK
  <2>4. CASE place \in {"assigned", "delete"} /\ call[s].method = "replace"
    BY <1>1, <1>4, <1>5, <2>4 DEF CallOK
  <2>5. CASE place = "insert" /\ call[s].method = "create_pr"
    <3>1. /\ at'[s] = "insert" /\ call'[s].method = "create_pr"
          /\ call[s]' = call'[s] /\ at[s]' = "insert" /\ answer[s].first' = Null
      BY <1>1, <1>4, <2>5
    <3>2. Given(call[s])'
      BY <1>4, <1>5
    <3> QED
      BY <3>1, <3>2 DEF CallOK
  <2>6. CASE place = "insert" /\ call[s].method = "replace" /\ call[s].new \in UserIDs
    <3>1. /\ at'[s] = "insert" /\ call'[s].method = "replace" /\ call'[s].new \in UserIDs
          /\ call[s]' = call'[s] /\ at[s]' = "insert" /\ answer[s].first' = Null
      BY <1>1, <1>4, <2>6
    <3> QED
      BY <3>1, <1>4, <1>5 DEF CallOK
  <2> QED
    BY <2>1, <2>2, <2>3, <2>4, <2>5, <2>6
<1> QED
  BY <1>6, <1>7

\* A statement that goes through the rows of its call one after the other.
LEMMA LessIdsOK ==
  ASSUME TypeOK, NEW s \in Sessions, CallOK(s), UNCHANGED answer,
         NEW u, call' = [call EXCEPT ![s].ids = @ \ {u}], KeepsView(s),
         at[s] \in {"team_upsert", "deactivate"},
         Goto(s, IF call[s].ids = {u} THEN "read" ELSE at[s])
  PROVE  CallOK(s)'
<1>1. call[s] \in Call /\ call'[s] = [call[s] EXCEPT !.ids = @ \ {u}]
  BY DEF TypeOK
<1>2. /\ call'[s].method = call[s].method /\ call'[s].team = call[s].team
      /\ call'[s].pr = call[s].pr /\ call'[s].user = call[s].user
      /\ call'[s].ids = call[s].ids \ {u}
  BY <1>1 DEF Call
<1>3. Given(call[s])'
  BY <1>2 DEF CallOK, Given
<1>4. at'[s] \in {"read", at[s]} /\ answer' = answer
  BY DEF Goto, TypeOK
<1>5. at[s] = "deactivate" => \A v \in call'[s].ids : View(s)'.users[v] # Null
  BY <1>1, <1>2 DEF CallOK, KeepsView, Call
<1>6. at[s] = "team_upsert" => call[s].method = "create_team"
  BY DEF CallOK
<1>7. at[s] = "deactivate" => call[s].method = "deactivate"
  BY DEF CallOK
<1>8. answer[s].first = Null
  BY DEF CallOK
<1>9. CASE at'[s] = "read"
  BY <1>3, <1>4, <1>8, <1>9 DEF CallOK
<1>10. CASE at'[s] = "team_upsert"
  <2>1. call'[s].method = "create_team" /\ answer'[s].first = Null
    BY <1>2, <1>4, <1>6, <1>8, <1>10
  <2> QED
    BY <1>3, <1>10, <2>1 DEF CallOK
<1>11. CASE at'[s] = "deactivate"
  <2>1. call'[s].method = "deactivate" /\ answer'[s].first = Null
    BY <1>2, <1>4, <1>7, <1>8, <1>11
  <2>2. \A v \in call'[s].ids : View(s)'.users[v] # Null
    BY <1>4, <1>5, <1>11
  <2> QED
    BY <1>3, <1>11, <2>1, <2>2 DEF CallOK
<1> QED
  BY <1>4, <1>9, <1>10, <1>11

LEMMA MergeStatusOK ==
  ASSUME TypeOK, NEW s \in Sessions, CallOK(s), MergeStatus(s)
  PROVE  CallOK(s)'
<1> DEFINE row == View(s).prs[call[s].pr]
<1>1. PICK place \in {"ready", "read", "merge_update"} :
        Goto(s, place) /\ (place = "merge_update" => row # Null)
  BY DEF MergeStatus
<1>2. UNCHANGED <<call, answer>> /\ UNCHANGED <<db, wrote>>
  BY DEF MergeStatus
<1>3. CASE place \in {"ready", "read"}
  BY <1>1, <1>2, <1>3, SameCallOK DEF MergeStatus
<1>4. CASE place = "merge_update"
  <2>1. at'[s] = "merge_update" /\ call' = call /\ answer' = answer
    BY <1>1, <1>2, <1>4 DEF Goto, TypeOK
  <2>2. View(s)'.prs[call[s].pr] # Null
    BY <1>1, <1>2, <1>4 DEF View
  <2>3. call[s].method = "merge" /\ Given(call[s]) /\ answer[s].first = Null
    BY DEF CallOK, MergeStatus
  <2>4. Given(call[s])'
    BY <2>1, <2>3 DEF Given
  <2> QED
    BY <2>1, <2>2, <2>3, <2>4 DEF CallOK
<1> QED
  BY <1>3, <1>4

LEMMA ReadsOK ==
  ASSUME TypeOK, NEW s \in Sessions, CallOK(s), Read(s) \/ ReadMore(s)
  PROVE  CallOK(s)'
<1>1. at'[s] \in {"ready", "read_more"} /\ call' = call
  BY DEF Read, ReadMore, Goto, TypeOK
<1>2. Given(call[s])
  BY DEF CallOK, Read, ReadMore
<1>3. Given(call[s])'
  BY <1>1, <1>2 DEF Given
<1> QED
  BY <1>1, <1>3 DEF CallOK

LEMMA CallMethodOK ==
  ASSUME TypeOK, NEW s \in Sessions, CallMethod(s)
  PROVE  CallOK(s)'
<1>1. PICK c \in Calls :
        LET there == {u \in c.ids : View(s).users[u] # Null}
            d == IF c.method = "deactivate" THEN [c EXCEPT !.ids = there, !.on = c.ids] ELSE c
        IN call' = [call EXCEPT ![s] = d] /\ Goto(s, FirstPlace(d))
  BY DEF CallMethod
<1> DEFINE there == {u \in c.ids : View(s).users[u] # Null}
           d == IF c.method = "deactivate" THEN [c EXCEPT !.ids = there, !.on = c.ids] ELSE c
<1>2. c \in Call /\ Given(c)
  BY CallsType
<1>3. /\ d.method = c.method /\ d.team = c.team /\ d.pr = c.pr /\ d.user = c.user
      /\ c.method = "deactivate" => d.ids = there
  BY <1>2 DEF Call
<1>4. call'[s] = d /\ at'[s] = FirstPlace(d)
  BY <1>1 DEF TypeOK, Goto
<1>5. answer'[s].first = Null
  BY DEF CallMethod, NoAnswer, TypeOK
<1>6. \A u \in there : View(s)'.users[u] # Null
  BY DEF CallMethod, View
<1> HIDE DEF d, there
<1>7. Given(call[s])'
  BY <1>2, <1>3, <1>4 DEF Given
<1>8. \/ at'[s] = "read"
      \/ at'[s] = "team_exists" /\ call'[s].method = "create_team"
      \/ at'[s] = "set_active" /\ call'[s].method = "set_active"
      \/ at'[s] = "deactivate" /\ call'[s].method = "deactivate"
      \/ at'[s] = "pr_exists" /\ call'[s].method = "create_pr"
      \/ at'[s] = "merge_status" /\ call'[s].method = "merge"
      \/ at'[s] = "status" /\ call'[s].method = "replace"
  BY <1>2, <1>3, <1>4 DEF FirstPlace, Call, Methods
<1>9. CASE at'[s] = "deactivate" /\ call'[s].method = "deactivate"
  <2>1. \A u \in call'[s].ids : View(s)'.users[u] # Null
    BY <1>3, <1>4, <1>6, <1>9
  <2> QED
    BY <1>5, <1>7, <1>9, <2>1 DEF CallOK
<1>10. CASE at'[s] # "deactivate"
  BY <1>5, <1>7, <1>8, <1>10 DEF CallOK
<1> QED
  BY <1>8, <1>9, <1>10

LEMMA WorkingCall ==
  ASSUME Inv, NEW s \in Sessions, Working(s), KeepsView(s)
  PROVE  CallOK(s)'
<1>0. TypeOK /\ CallOK(s)
  BY DEF Inv, CallInv
<1>1. CASE Abort(s) \/ Refused(s)
  <2>1. at'[s] \in {"aborted", "ready"}
    BY <1>0, <1>1 DEF Abort, Refused, Goto, TypeOK
  <2> QED
    BY <2>1 DEF CallOK
<1>2. CASE Begin(s)
  <2>1. at'[s] = "ready"
    BY <1>0, <1>2 DEF Begin, Goto, TypeOK
  <2> QED
    BY <2>1 DEF CallOK
<1>3. CASE TeamExists(s)
  BY <1>0, <1>3, SameCallOK DEF TeamExists
<1>4. CASE TeamInsert(s) /\ ~Abort(s)
  BY <1>0, <1>4, SameCallOK DEF TeamInsert
<1>5. CASE TeamUpsert(s)
  BY <1>0, <1>5, LessIdsOK DEF TeamUpsert
<1>6. CASE SetActive(s) /\ ~Refused(s)
  BY <1>0, <1>6, SameCallOK DEF SetActive
<1>7. CASE DeactivateRow(s)
  BY <1>0, <1>7, LessIdsOK DEF DeactivateRow
<1>8. CASE PRExists(s)
  BY <1>0, <1>8, SameCallOK DEF PRExists
<1>9. CASE PRInsert(s) /\ ~Abort(s)
  BY <1>0, <1>9, SameCallOK DEF PRInsert
<1>10. CASE InsertReviewers(s) /\ ~Abort(s)
  BY <1>0, <1>10, SameCallOK DEF InsertReviewers
<1>11. CASE MergeUpdate(s)
  BY <1>0, <1>11, SameCallOK DEF MergeUpdate
<1>12. CASE ReplaceStatus(s)
  BY <1>0, <1>12, SameCallOK DEF ReplaceStatus
<1>13. CASE ReplaceAssigned(s)
  BY <1>0, <1>13, SameCallOK DEF ReplaceAssigned
<1>14. CASE ReplaceDelete(s)
  <2>1. call[s].new = Null \/ call[s].new \in UserIDs
    BY <1>0 DEF TypeOK, Call
  <2> QED
    BY <1>0, <1>14, <2>1, SameCallOK DEF ReplaceDelete
<1> QED
  BY <1>0, <1>1, <1>2, <1>3, <1>4, <1>5, <1>6, <1>7, <1>8, <1>9, <1>10, <1>11, <1>12, <1>13,
     <1>14, MergeStatusOK, ReadsOK, CallMethodOK
     DEF Working, Statement, StatementError, DeadlockAbort

LEMMA EndCall ==
  ASSUME TypeOK, NEW s \in Sessions, Finish(s)
  PROVE  CallOK(s)'
<1>1. at'[s] \in {"committed", "failed"} /\ answer'[s].first = Null
  BY DEF Finish, CommitTx, Rollback, End, Goto, NoAnswer, TypeOK
<1> QED
  BY <1>1 DEF CallOK

LEMMA CrashCalls ==
  ASSUME TypeOK, CallInv, Crash
  PROVE  CallInv'
<1> SUFFICES ASSUME NEW s \in Sessions PROVE CallOK(s)'
  BY DEF CallInv
<1>1. at'[s] \in {"idle", "committed", "failed"} /\ answer'[s].first = Null
  BY DEF Crash, Open, NoAnswer, TypeOK
<1> QED
  BY <1>1 DEF CallOK

------------------------------------------------------------------------------
\* The inductive invariant.

LEMMA InitTx == Init => TxInv
<1> SUFFICES ASSUME Init PROVE TxInv
  OBVIOUS
<1>1. /\ db = Seed /\ wrote = [s \in Sessions |-> Nothing]
      /\ at = [s \in Sessions |-> "idle"] /\ call = [s \in Sessions |-> NoCall]
      /\ answer = [s \in Sessions |-> NoAnswer] /\ calls = [s \in Sessions |-> 0]
  BY DEF Init
<1>2. TypeOK
  <2>1. db \in Database /\ wrote \in [Sessions -> Writes]
    BY <1>1, SeedType, NothingType
  <2>2. at \in [Sessions -> Places] /\ call \in [Sessions -> Call] /\ calls \in [Sessions -> Nat]
    BY <1>1, NoCallType DEF Places
  <2>3. answer = [s \in Sessions |-> [first |-> answer[s].first, second |-> answer[s].second]]
    BY <1>1 DEF NoAnswer
  <2> QED
    BY <2>1, <2>2, <2>3 DEF TypeOK
<1>3. CallInv
  BY <1>1 DEF CallInv, CallOK, NoAnswer
<1>4. LocksInv
  BY <1>1 DEF LocksInv, Held, Nothing
<1>5. VersionsInv
  BY <1>1 DEF VersionsInv, Nothing
<1>6. MergedInv
  BY <1>1, SeedType DEF MergedInv, Nothing
<1>7. EventsInv
  BY <1>1 DEF EventsInv, Nothing
<1>8. EventsBacked
  BY <1>1, SeedType DEF EventsBacked
<1> QED
  BY <1>2, <1>3, <1>4, <1>5, <1>6, <1>7, <1>8 DEF TxInv, RowInv

\* Every step works in one transaction, ends one, or is the crash.
LEMMA StepKinds ==
  ASSUME Next
  PROVE  \/ \E s \in Sessions : Working(s) \/ Finish(s)
         \/ Crash
         \/ UNCHANGED vars
BY DEF Next, Working, Terminating

LEMMA TxStep ==
  ASSUME TxInv, [Next]_vars
  PROVE  TxInv'
<1>0. TypeOK /\ CallInv /\ RowInv /\ MergedInv /\ Inv
  BY DEF TxInv, RowInv, Inv
<1>1. ASSUME NEW s \in Sessions, Working(s) PROVE TxInv'
  <2>1. RowStep(s) /\ ControlStep(s)
    BY <1>0, <1>1, WorkingStep DEF StepOf
  <2>2. TypeOK' /\ RowInv'
    BY <1>0, <2>1, WorkingTypes, WorkingRows DEF StepOf
  <2>3. \A x \in Sessions : KeepsView(x)
    BY <1>0, <2>1, RowStepKeepsViews
  <2>4. CallOK(s)'
    BY <1>0, <1>1, <2>3, WorkingCall
  <2>5. \A x \in Sessions \ {s} : CallOK(x)'
    BY <1>0, <2>1, <2>3, OthersCalls
  <2> QED
    BY <2>2, <2>4, <2>5 DEF TxInv, CallInv
<1>2. ASSUME NEW s \in Sessions, Finish(s) PROVE TxInv'
  <2>1. (CommitRows(s) \/ ForgetRows) /\ ControlStep(s) /\ TypeOK'
    BY <1>0, <1>2, FinishStep
  <2>2. RowInv'
    BY <1>0, <2>1, CommitKeepsRows, ForgetKeepsRows
  <2>3. \A x \in Sessions \ {s} : KeepsView(x)
    <3>1. CASE CommitRows(s)
      BY <1>0, <3>1, CommitKeepsViews
    <3>2. CASE UNCHANGED db
      <4>1. \A x \in Sessions \ {s} : wrote'[x] = wrote[x]
        BY <1>0, <1>2 DEF Finish, CommitTx, Rollback, End, Write, TypeOK
      <4> QED
        BY <3>2, <4>1 DEF KeepsView, View, Over
    <3> QED
      BY <2>1, <3>1, <3>2 DEF ForgetRows
  <2>4. CallOK(s)'
    BY <1>0, <1>2, EndCall
  <2>5. \A x \in Sessions \ {s} : CallOK(x)'
    BY <1>0, <2>1, <2>3, OthersCalls
  <2> QED
    BY <2>1, <2>2, <2>4, <2>5 DEF TxInv, CallInv
<1>3. CASE Crash
  BY <1>0, <1>3, CrashStep, CrashCalls, ForgetKeepsRows DEF TxInv
<1>4. CASE UNCHANGED vars
  <2>1. UNCHANGED <<db, wrote, at, call, answer, calls>>
    BY <1>4 DEF vars
  <2>2. TypeOK'
    BY <1>0, <2>1 DEF TypeOK
  <2>3. CallInv'
    BY <1>0, <2>1 DEF CallInv, CallOK, View, Given
  <2>4. RowInv'
    BY <1>0, <2>1 DEF RowInv, LocksInv, Held, VersionsInv, MergedInv, EventsInv, EventsBacked
  <2> QED
    BY <2>2, <2>3, <2>4 DEF TxInv
<1> QED
  BY <1>1, <1>2, <1>3, <1>4, StepKinds

\* Whatever the callers of WithTransaction do, and whatever fails, no two transactions
\* have written the same row, their versions of a PR were made from the committed one,
\* and their events are backed by the rows of reviewers.
THEOREM TransactionInvariant == Spec => []TxInv
<1>1. Init => TxInv
  BY InitTx
<1>2. TxInv /\ [Next]_vars => TxInv'
  BY TxStep
<1> QED
  BY <1>1, <1>2, PTL DEF Spec

\* The events of committed transactions never say that a user is assigned more often
\* than the table of reviewers does (insertReviewers and removeReviewer write both in
\* one transaction).
THEOREM EventsAreBacked == Spec => []EventsBacked
<1>1. TxInv => EventsBacked
  BY DEF TxInv, RowInv
<1> QED
  BY <1>1, TransactionInvariant, PTL

------------------------------------------------------------------------------
\* What a commit may change.

MergedRowsStay ==
  \A p \in PRIDs : db.prs[p] # Null =>
    /\ db'.prs[p] # Null
    /\ db'.prs[p].author = db.prs[p].author
    /\ db.prs[p].status = "MERGED" => db'.prs[p] = db.prs[p]

LEMMA MergedStaysStep ==
  ASSUME TxInv, [Next]_vars
  PROVE  MergedRowsStay
<1>0. TypeOK /\ VersionsInv /\ MergedInv /\ Inv
  BY DEF TxInv, RowInv, Inv
<1>1. CASE UNCHANGED db
  BY <1>1 DEF MergedRowsStay
<1>2. ASSUME NEW s \in Sessions, CommitRows(s) PROVE MergedRowsStay
  <2>1. \A p \in PRIDs : db'.prs[p] = IF wrote[s].prs[p] # Null THEN wrote[s].prs[p]
                                                            ELSE db.prs[p]
    BY <1>2 DEF CommitRows, Over
  <2> QED
    BY <1>0, <2>1 DEF MergedRowsStay, VersionsInv
<1>3. ASSUME NEW s \in Sessions, Working(s) PROVE UNCHANGED db
  BY <1>0, <1>3, WorkingStep DEF StepOf, RowStep
<1>4. ASSUME NEW s \in Sessions, Finish(s) PROVE UNCHANGED db \/ CommitRows(s)
  BY <1>0, <1>4, FinishStep DEF ForgetRows
<1>5. Crash => UNCHANGED db
  BY DEF Crash
<1>6. UNCHANGED vars => UNCHANGED db
  BY DEF vars
<1> QED
  BY <1>1, <1>2, <1>3, <1>4, <1>5, <1>6, StepKinds

\* A PR stays in the table with its author, and once MERGED its row never changes,
\* whatever other transactions had read before it committed (COALESCE in the UPDATE,
\* which waits for the row).
THEOREM MergedStaysMerged == Spec => MergedStays
<1>1. TxInv /\ [Next]_vars =>
        [\A p \in PRIDs : db.prs[p] # Null =>
           /\ db'.prs[p] # Null
           /\ db'.prs[p].author = db.prs[p].author
           /\ db.prs[p].status = "MERGED" => db'.prs[p] = db.prs[p]]_vars
  BY MergedStaysStep DEF MergedRowsStay
<1> QED
  BY <1>1, TransactionInvariant, PTL DEF Spec, MergedStays

------------------------------------------------------------------------------
\* A transaction is bound by its own merge.

LEMMA OthersStay ==
  ASSUME Inv, MergedInv, NEW s \in Sessions, Working(s) \/ Finish(s)
  PROVE  \A x \in Sessions \ {s} : at'[x] = at[x] /\ call'[x] = call[x]
                                    /\ wrote'[x] = wrote[x] /\ answer'[x] = answer[x]
<1>0. TypeOK
  BY DEF Inv
<1>1. ControlStep(s)
  BY <1>0, WorkingStep, FinishStep DEF StepOf
<1>2. \A x \in Sessions \ {s} : wrote'[x] = wrote[x]
  <2>1. CASE Working(s)
    BY <1>0, <2>1, WorkingStep, WrittenType DEF StepOf, TypeOK
  <2>2. CASE Finish(s)
    BY <1>0, <2>2 DEF Finish, CommitTx, Rollback, End, Write, TypeOK
  <2> QED
    BY <2>1, <2>2
<1> QED
  BY <1>0, <1>1, <1>2 DEF ControlStep, TypeOK

LEMMA OwnMergeInit == Init => OwnMergeBinds
BY DEF Init, OwnMergeBinds

LEMMA OwnMergeStep ==
  ASSUME TxInv, OwnMergeBinds, [Next]_vars
  PROVE  OwnMergeBinds'
<1> DEFINE Bound(s) == at[s] \in {"assigned", "delete", "insert"} =>
                          LET row == wrote[s].prs[call[s].pr] IN row = Null \/ row.status = "OPEN"
<1>0. TypeOK /\ CallInv /\ MergedInv /\ Inv
  BY DEF TxInv, RowInv, Inv
<1>1. ASSUME NEW s \in Sessions, Working(s) PROVE Bound(s)'
  <2>0. CallOK(s) /\ Bound(s)
    BY <1>0 DEF CallInv, OwnMergeBinds
  <2>1. CASE ReplaceStatus(s)
    <3> DEFINE p == call[s].pr
    <3>1. p \in PRIDs
      BY <2>0, <2>1 DEF CallOK, Given, ReplaceStatus
    <3>2. View(s).prs[p] = IF wrote[s].prs[p] # Null THEN wrote[s].prs[p] ELSE db.prs[p]
      BY <3>1 DEF View, Over
    <3>3. wrote[s].prs[p] \in PRRow \cup {Null}
      BY <1>0, <3>1 DEF TypeOK, Writes
    <3>4. at'[s] = "assigned" => View(s).prs[p].status # "MERGED"
      BY <1>0, <2>1 DEF ReplaceStatus, Goto, TypeOK
    <3>5. at'[s] \in {"assigned", "ready"} /\ UNCHANGED <<wrote, call>>
      BY <1>0, <2>1 DEF ReplaceStatus, Goto, TypeOK
    <3>6. at'[s] = "assigned" => wrote[s].prs[p] = Null \/ wrote[s].prs[p].status = "OPEN"
      BY <3>2, <3>3, <3>4 DEF PRRow
    <3> QED
      BY <3>5, <3>6
  <2>2. CASE ReplaceAssigned(s)
    BY <1>0, <2>0, <2>2 DEF ReplaceAssigned, Goto, TypeOK
  <2>3. CASE ReplaceDelete(s)
    <3>1. wrote'[s].prs = wrote[s].prs
      <4>1. wrote[s] \in Writes
        BY <1>0 DEF TypeOK
      <4> QED
        BY <1>0, <2>3, <4>1 DEF ReplaceDelete, Write, TypeOK, Writes
    <3>2. at[s] = "delete" /\ call' = call
      BY <2>3 DEF ReplaceDelete
    <3> QED
      BY <2>0, <3>1, <3>2
  <2>4. CASE PRInsert(s) /\ ~Abort(s)
    <3> DEFINE p == call[s].pr
               row == [status |-> "OPEN", author |-> call[s].user, mergedAt |-> Null]
    <3>1. p \in PRIDs /\ wrote[s] \in Writes
      BY <1>0, <2>0, <2>4 DEF CallOK, Given, PRInsert, TypeOK
    <3>2. wrote'[s] = [wrote[s] EXCEPT !.prs[p] = row] /\ call' = call
      BY <1>0, <2>4 DEF PRInsert, Write, TypeOK
    <3>3. wrote'[s].prs[p] = row
      BY <3>1, <3>2 DEF Writes
    <3> QED
      BY <3>2, <3>3
  <2>5. CASE CallMethod(s)
    <3>1. \E c : at'[s] = FirstPlace(c) /\ c \in Call
      <4>1. PICK c \in Calls :
              LET there == {u \in c.ids : View(s).users[u] # Null}
                  d == IF c.method = "deactivate" THEN [c EXCEPT !.ids = there, !.on = c.ids]
                                                ELSE c
              IN Goto(s, FirstPlace(d))
        BY <2>5 DEF CallMethod
      <4> DEFINE there == {u \in c.ids : View(s).users[u] # Null}
      <4>2. c \in Call
        BY CallsType
      <4>3. [c EXCEPT !.ids = there, !.on = c.ids] \in Call
        BY <4>2 DEF Call
      <4> QED
        BY <1>0, <4>1, <4>2, <4>3 DEF Goto, TypeOK
    <3>2. \A c \in Call : FirstPlace(c) \notin {"assigned", "delete", "insert"}
      BY DEF FirstPlace, Call, Methods
    <3> QED
      BY <3>1, <3>2
  <2>6. CASE at'[s] \notin {"assigned", "delete", "insert"}
    BY <2>6
  <2>7. \/ ReplaceStatus(s) \/ ReplaceAssigned(s) \/ ReplaceDelete(s) \/ CallMethod(s)
        \/ PRInsert(s) /\ ~Abort(s)
        \/ at'[s] \notin {"assigned", "delete", "insert"}
    <3>1. CASE Begin(s) \/ Abort(s) \/ Refused(s)
      BY <1>0, <3>1 DEF Begin, Abort, Refused, Goto, TypeOK
    <3>2. CASE TeamExists(s) \/ TeamInsert(s) \/ TeamUpsert(s)
      BY <1>0, <3>2 DEF TeamExists, TeamInsert, TeamUpsert, Abort, Goto, TypeOK
    <3>3. CASE SetActive(s) \/ DeactivateRow(s)
      BY <1>0, <3>3 DEF SetActive, DeactivateRow, Refused, Goto, TypeOK
    <3>4. CASE PRExists(s) \/ InsertReviewers(s) \/ MergeStatus(s) \/ MergeUpdate(s)
      BY <1>0, <3>4 DEF PRExists, InsertReviewers, MergeStatus, MergeUpdate, Abort, Goto, TypeOK
    <3>5. CASE Read(s) \/ ReadMore(s)
      BY <1>0, <3>5 DEF Read, ReadMore, Goto, TypeOK
    <3> QED
      BY <1>1, <3>1, <3>2, <3>3, <3>4, <3>5
         DEF Working, Statement, StatementError, DeadlockAbort
  <2> QED
    BY <2>1, <2>2, <2>3, <2>4, <2>5, <2>6, <2>7
<1>2. ASSUME NEW s \in Sessions, Working(s) \/ Finish(s)
      PROVE  \A x \in Sessions \ {s} : at'[x] = at[x] /\ call'[x] = call[x]
                                        /\ wrote'[x] = wrote[x]
  BY <1>0, <1>2, OthersStay
<1>3. ASSUME NEW s \in Sessions, Finish(s) PROVE Bound(s)'
  BY <1>0, <1>3 DEF Finish, CommitTx, Rollback, End, Goto, TypeOK
<1>4. ASSUME Crash PROVE OwnMergeBinds'
  BY <1>0, <1>4 DEF Crash, Open, OwnMergeBinds
<1>5. ASSUME UNCHANGED vars PROVE OwnMergeBinds'
  BY <1>5 DEF vars, OwnMergeBinds
<1>6. ASSUME NEW s \in Sessions, Working(s) \/ Finish(s) PROVE OwnMergeBinds'
  <2>1. \A x \in Sessions \ {s} : Bound(x)'
    BY <1>2, <1>6 DEF OwnMergeBinds
  <2>2. Bound(s)'
    BY <1>1, <1>3, <1>6
  <2> QED
    BY <2>1, <2>2 DEF OwnMergeBinds
<1> QED
  BY <1>4, <1>5, <1>6, StepKinds

\* A transaction that has merged a PR does not change its reviewers any more.
THEOREM OwnMergeIsBinding == Spec => []OwnMergeBinds
<1>1. TxInv /\ OwnMergeBinds /\ [Next]_vars => OwnMergeBinds'
  BY OwnMergeStep
<1> QED
  BY <1>1, OwnMergeInit, TransactionInvariant, PTL DEF Spec

------------------------------------------------------------------------------
\* A transaction reads what it has written.

\* What the writes of s say of a row is what s sees of it.
LEMMA SeesItsWrites ==
  ASSUME TypeOK, NEW s \in Sessions
  PROVE  /\ \A p \in PRIDs : wrote[s].prs[p] # Null => View(s).prs[p] = wrote[s].prs[p]
         /\ \A u \in UserIDs : wrote[s].users[u] # Null => View(s).users[u] = wrote[s].users[u]
         /\ wrote[s].new \subseteq View(s).reviewers
         /\ \A row \in wrote[s].gone \ wrote[s].new : row \notin View(s).reviewers
BY DEF View, Over

LEMMA FirstQueryShows ==
  ASSUME TypeOK, NEW s \in Sessions, Given(call[s]), UNCHANGED <<wrote, call>>,
         answer'[s].first = FirstQuery(View(s), call[s])
  PROVE  FirstShows(s)'
<1> DEFINE c == call[s]
           w == wrote[s]
           v == View(s)
           got == answer'[s].first
<1>1. /\ \A p \in PRIDs : w.prs[p] # Null => v.prs[p] = w.prs[p]
      /\ \A u \in UserIDs : w.users[u] # Null => v.users[u] = w.users[u]
  BY SeesItsWrites
<1>2. c \in Call /\ Given(c)
  BY DEF TypeOK
<1>3. got = FirstQuery(v, c)
  OBVIOUS
<1> HIDE DEF c, w, v, got
<1>4. OfPR(c) /\ w.prs[c.pr] # Null => got = w.prs[c.pr]
  BY <1>1, <1>2, <1>3 DEF FirstQuery, OfPR, OfTeam, OfUser, Given
<1>5. OfUser(c) /\ w.users[c.user] # Null => got = w.users[c.user]
  BY <1>1, <1>2, <1>3 DEF FirstQuery, OfPR, OfTeam, OfUser, Given
<1>6. OfTeam(c) => \A u \in UserIDs : w.users[u] # Null =>
                     (<<u, w.users[u]>> \in got <=> w.users[u].team = c.team)
  <2> SUFFICES ASSUME OfTeam(c), NEW u \in UserIDs, w.users[u] # Null
               PROVE  <<u, w.users[u]>> \in got <=> w.users[u].team = c.team
    OBVIOUS
  <2>1. got = {<<x, v.users[x]>> : x \in MembersIn(v, c.team)}
    BY <1>3 DEF FirstQuery, OfTeam, OfUser, OfPR
  <2> QED
    BY <1>1, <2>1 DEF MembersIn
<1>7. c.method = "active_members" =>
        \A u \in got : w.users[u] # Null => w.users[u].active /\ w.users[u].team = c.team
  <2> SUFFICES ASSUME c.method = "active_members", NEW u \in got, w.users[u] # Null
               PROVE  w.users[u].active /\ w.users[u].team = c.team
    OBVIOUS
  <2>1. got = {x \in MembersIn(v, c.team) \ c.ids : v.users[x].active}
    BY <1>3 DEF FirstQuery, OfTeam, OfUser, OfPR
  <2>2. u \in UserIDs /\ v.users[u].active /\ v.users[u].team = c.team
    BY <2>1 DEF MembersIn
  <2> QED
    BY <1>1, <2>2
<1>8. c.method = "open_prs" =>
        \A u \in c.ids : \A p \in got[u] : w.prs[p] # Null => w.prs[p].status = "OPEN"
  <2> SUFFICES ASSUME c.method = "open_prs", NEW u \in c.ids, NEW p \in got[u], w.prs[p] # Null
               PROVE  w.prs[p].status = "OPEN"
    OBVIOUS
  <2>1. got = [x \in c.ids |-> OpenIn(v, ReviewsIn(v, x))]
    BY <1>3 DEF FirstQuery, OfTeam, OfUser, OfPR
  <2>2. p \in PRIDs /\ v.prs[p].status = "OPEN"
    BY <2>1 DEF OpenIn, ReviewsIn
  <2> QED
    BY <1>1, <2>2
<1>9. call'[s] = c /\ wrote'[s] = w /\ answer'[s].first = got
  BY DEF c, w, got
<1>10. /\ OfPR(call[s])' <=> OfPR(c)
       /\ OfUser(call[s])' <=> OfUser(c)
       /\ OfTeam(call[s])' <=> OfTeam(c)
  BY <1>9 DEF OfPR, OfUser, OfTeam
<1> QED
  BY <1>4, <1>5, <1>6, <1>7, <1>8, <1>9, <1>10 DEF FirstShows

LEMMA SecondQueryShows ==
  ASSUME TypeOK, NEW s \in Sessions, UNCHANGED <<wrote, call>>,
         answer'[s].second = SecondQuery(View(s), call[s])
  PROVE  SecondShows(s)'
<1>1. call'[s] = call[s] /\ wrote'[s] = wrote[s]
  OBVIOUS
<1>2. OfPR(call[s])' <=> OfPR(call[s])
  BY <1>1 DEF OfPR
<1>3. OfPR(call[s]) =>
        answer'[s].second = {u \in UserIDs : <<call[s].pr, u>> \in View(s).reviewers}
  BY DEF SecondQuery, OfPR, OfTeam
<1> QED
  BY <1>1, <1>2, <1>3, SeesItsWrites DEF SecondShows

\* What ReadsItsOwnWrites says of one transaction.
Shown(s) ==
  answer[s].first # Null =>
    /\ at[s] \in {"ready", "read_more"} => FirstShows(s)
    /\ at[s] = "ready" => SecondShows(s)

LEMMA ReadShows ==
  ASSUME TypeOK, NEW s \in Sessions, CallOK(s), Read(s)
  PROVE  Shown(s)'
<1> DEFINE found == FirstQuery(View(s), call[s])
           more  == \/ OfPR(call[s]) /\ found # Null
                    \/ OfTeam(call[s]) /\ found = {}
                    \/ call[s].method = "stats"
<1>1. /\ answer' = [answer EXCEPT ![s].first = found]
      /\ Goto(s, IF more THEN "read_more" ELSE "ready")
      /\ UNCHANGED <<wrote, call>>
  BY DEF Read
<1>2. answer'[s].first = found
  <2> HIDE DEF found, more
  <2>1. answer = [x \in Sessions |-> [first |-> answer[x].first, second |-> answer[x].second]]
    BY DEF TypeOK
  <2> QED
    BY <1>1, <2>1
<1>3. Given(call[s])
  BY DEF CallOK, Read
<1>4. FirstShows(s)'
  BY <1>1, <1>2, <1>3, FirstQueryShows
<1>5. at'[s] = "ready" => ~OfPR(call[s]) \/ found = Null
  BY <1>1 DEF Goto, TypeOK
<1>6. OfPR(call[s])' <=> OfPR(call[s])
  BY <1>1 DEF OfPR
<1> HIDE DEF found, more
<1>7. at'[s] = "ready" /\ answer'[s].first # Null => SecondShows(s)'
  BY <1>2, <1>5, <1>6 DEF SecondShows
<1> QED
  BY <1>4, <1>7 DEF Shown

LEMMA ReadMoreShows ==
  ASSUME TypeOK, NEW s \in Sessions, Shown(s), ReadMore(s)
  PROVE  Shown(s)'
<1> DEFINE found == SecondQuery(View(s), call[s])
<1>1. /\ answer' = [answer EXCEPT ![s].second = found]
      /\ at[s] = "read_more" /\ UNCHANGED <<wrote, call>>
  BY DEF ReadMore
<1>2. answer'[s].second = found /\ answer'[s].first = answer[s].first
  <2> HIDE DEF found
  <2>1. answer = [x \in Sessions |-> [first |-> answer[x].first, second |-> answer[x].second]]
    BY DEF TypeOK
  <2> QED
    BY <1>1, <2>1
<1>3. SecondShows(s)'
  BY <1>1, <1>2, SecondQueryShows
<1> HIDE DEF found
<1>4. answer'[s].first # Null => FirstShows(s)
  BY <1>1, <1>2 DEF Shown
<1>5. FirstShows(s) => FirstShows(s)'
  BY <1>1, <1>2 DEF FirstShows, OfPR, OfUser, OfTeam
<1> QED
  BY <1>3, <1>4, <1>5 DEF Shown

LEMMA OwnWritesStep ==
  ASSUME TxInv, ReadsItsOwnWrites, [Next]_vars
  PROVE  ReadsItsOwnWrites'
<1>0. TypeOK /\ CallInv /\ MergedInv /\ Inv
  BY DEF TxInv, RowInv, Inv
<1>1. ASSUME NEW s \in Sessions, Working(s) PROVE Shown(s)'
  <2>0. CallOK(s) /\ Shown(s)
    BY <1>0 DEF CallInv, ReadsItsOwnWrites, Shown
  <2>1. CASE Read(s)
    BY <1>0, <2>0, <2>1, ReadShows
  <2>2. CASE ReadMore(s)
    BY <1>0, <2>0, <2>2, ReadMoreShows
  <2>3. CASE Abort(s)
    BY <1>0, <2>3 DEF Abort, Goto, TypeOK, Shown
  <2>4. CASE CallMethod(s)
    BY <1>0, <2>4 DEF CallMethod, NoAnswer, TypeOK, Shown
  <2>5. CASE ~Read(s) /\ ~ReadMore(s) /\ ~Abort(s) /\ ~CallMethod(s)
    <3>1. at[s] \notin {"ready", "read_more", "aborted"} /\ answer' = answer
      <4>1. CASE Begin(s)
        BY <4>1 DEF Begin
      <4>2. CASE TeamExists(s) \/ TeamInsert(s) \/ TeamUpsert(s)
        BY <2>5, <4>2 DEF TeamExists, TeamInsert, TeamUpsert
      <4>3. CASE SetActive(s) \/ DeactivateRow(s)
        BY <2>5, <4>3 DEF SetActive, DeactivateRow, Refused
      <4>4. CASE PRExists(s) \/ PRInsert(s) \/ InsertReviewers(s) \/ MergeStatus(s)
                 \/ MergeUpdate(s)
        BY <2>5, <4>4 DEF PRExists, PRInsert, InsertReviewers, MergeStatus, MergeUpdate
      <4>5. CASE ReplaceStatus(s) \/ ReplaceAssigned(s) \/ ReplaceDelete(s)
        BY <2>5, <4>5 DEF ReplaceStatus, ReplaceAssigned, ReplaceDelete
      <4> QED
        BY <1>1, <2>5, <4>1, <4>2, <4>3, <4>4, <4>5
           DEF Working, Statement, StatementError, DeadlockAbort
    <3> QED
      BY <2>0, <3>1 DEF CallOK, Shown
  <2> QED
    BY <2>1, <2>2, <2>3, <2>4, <2>5
<1>2. ASSUME NEW s \in Sessions, Finish(s) PROVE Shown(s)'
  <2>1. answer'[s].first = Null
    BY <1>0, <1>2 DEF Finish, CommitTx, Rollback, End, NoAnswer, TypeOK
  <2> QED
    BY <2>1 DEF Shown
<1>3. ASSUME NEW s \in Sessions, Working(s) \/ Finish(s) PROVE ReadsItsOwnWrites'
  <2>1. ASSUME NEW x \in Sessions \ {s} PROVE Shown(x)'
    <3>1. at'[x] = at[x] /\ call'[x] = call[x] /\ wrote'[x] = wrote[x] /\ answer'[x] = answer[x]
      BY <1>0, <1>3, OthersStay
    <3>2. Shown(x)
      BY DEF ReadsItsOwnWrites, Shown
    <3> QED
      BY <3>1, <3>2 DEF Shown, FirstShows, SecondShows, OfPR, OfUser, OfTeam
  <2>2. Shown(s)'
    BY <1>1, <1>2, <1>3
  <2> QED
    BY <2>1, <2>2 DEF ReadsItsOwnWrites, Shown
<1>4. ASSUME Crash PROVE ReadsItsOwnWrites'
  <2>1. \A s \in Sessions : answer'[s].first = Null
    BY <1>4 DEF Crash, NoAnswer
  <2> QED
    BY <2>1 DEF ReadsItsOwnWrites
<1>5. ASSUME UNCHANGED vars PROVE ReadsItsOwnWrites'
  <2>1. UNCHANGED <<wrote, at, call, answer>>
    BY <1>5 DEF vars
  <2> QED
    BY <2>1 DEF ReadsItsOwnWrites, FirstShows, SecondShows, OfPR, OfUser, OfTeam
<1> QED
  BY <1>3, <1>4, <1>5, StepKinds

LEMMA OwnWritesInit == Init => ReadsItsOwnWrites
BY DEF Init, ReadsItsOwnWrites, NoAnswer

\* What a method answers agrees with what its transaction has written before, whatever
\* others commit meanwhile.
THEOREM OwnWritesAreRead == Spec => []ReadsItsOwnWrites
<1>1. TxInv /\ ReadsItsOwnWrites /\ [Next]_vars => ReadsItsOwnWrites'
  BY OwnWritesStep
<1> QED
  BY <1>1, OwnWritesInit, TransactionInvariant, PTL DEF Spec

==============================================================================
