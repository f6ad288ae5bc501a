----------------------------- MODULE ReportProofs -----------------------------
(***************************************************************************)
(* What the reports show stays true although their queries are not one     *)
(* transaction: proofs for any number of readers, requests, users and PRs. *)
(* The first part is about sums over finite sets: the folds of the         *)
(* community modules are recursive functions, and induction over the       *)
(* subsets of a finite set is the choice of a least counterexample.        *)
(***************************************************************************)
EXTENDS Reports, MergeProofs, FiniteSetTheorems

\* The element the folds of the community modules take first.
First(s) == CHOOSE x \in s : TRUE

\* g is the recursive function by which they sum up counts over the subsets of T.
Sums(counts, g, T) ==
  g = [s \in SUBSET T |-> IF s = {} THEN 0 ELSE counts[First(s)] + g[s \ {First(s)}]]

\* How tlapm sees the fold behind Total.
LEMMA Unfold == ASSUME NEW counts, NEW S
  PROVE Total(counts, S) = (CHOOSE g : Sums(counts, g, S))[S]
BY DEF Total, MapThenSumSet, MapThenFoldSet, Sums, First

LEMMA FirstIn == \A s : s # {} => First(s) \in s
BY DEF First

\* A non-empty set of subsets of a finite set has one no other one is a part of:
\* induction over finite sets, as the least counterexample.
LEMMA SmallestSubset ==
  ASSUME NEW S, IsFiniteSet(S), NEW Q, Q \subseteq SUBSET S, Q # {}
  PROVE  \E T \in Q : \A U \in SUBSET T : U # T => U \notin Q
<1>1. Q \subseteq FiniteSubsetsOf(S)
  BY FS_FiniteSubsetsOfFinite
<1>2. PICK T \in Q : \A U \in Q : <<U, T>> \notin StrictSubsetOrdering(S)
  BY <1>1, FS_StrictSubsetOrderingWellFounded, WFMin
<1>3. ASSUME NEW U \in SUBSET T, U # T PROVE U \notin Q
  BY <1>2, <1>3 DEF StrictSubsetOrdering
<1> QED
  BY <1>2, <1>3

\* Tables of sums over the subsets of S and of one of its subsets agree.
LEMMA SumsAgree ==
  ASSUME NEW counts, NEW S, IsFiniteSet(S), NEW g, Sums(counts, g, S),
         NEW T \in SUBSET S, NEW h, Sums(counts, h, T)
  PROVE  \A s \in SUBSET T : g[s] = h[s]
<1> DEFINE Q == {s \in SUBSET T : g[s] # h[s]}
<1>1. SUFFICES ASSUME Q # {} PROVE FALSE
  OBVIOUS
<1>a. IsFiniteSet(T) /\ Q \subseteq SUBSET T
  BY FS_Subset
<1>2. PICK s \in Q : \A U \in SUBSET s : U # s => U \notin Q
  <2> HIDE DEF Q
  <2> QED
    BY <1>a, <1>1, SmallestSubset
<1> HIDE DEF Q
<1>3. s \in SUBSET T /\ g[s] # h[s]
  BY DEF Q
<1>4. s # {}
  <2>1. {} \in SUBSET T
    OBVIOUS
  <2>2. {} \in SUBSET S
    OBVIOUS
  <2>3. g[{}] = 0 /\ h[{}] = 0
    BY <2>1, <2>2 DEF Sums
  <2> QED
    BY <1>3, <2>3
<1> DEFINE V == s \ {First(s)}
<1>5. V \in SUBSET s /\ V # s /\ V \in SUBSET T
  BY <1>3, <1>4, FirstIn
<1>6. g[V] = h[V]
  BY <1>2, <1>5 DEF Q
<1>7. g[s] = counts[First(s)] + g[V] /\ h[s] = counts[First(s)] + h[V]
  <2>1. s \in SUBSET S
    BY <1>3
  <2> QED
    BY <1>3, <1>4, <2>1 DEF Sums
<1> QED
  BY <1>3, <1>6, <1>7

\* There is such a table: it is put together from those of the smaller sets.
LEMMA SumsExist ==
  ASSUME NEW counts, NEW S, IsFiniteSet(S)
  PROVE  \E g : Sums(counts, g, S)
<1> DEFINE Q == {T \in SUBSET S : ~ \E g : Sums(counts, g, T)}
<1>1. SUFFICES ASSUME Q # {} PROVE FALSE
  OBVIOUS
<1>a. Q \subseteq SUBSET S
  OBVIOUS
<1>2. PICK T \in Q : \A U \in SUBSET T : U # T => U \notin Q
  <2> HIDE DEF Q
  <2> QED
    BY <1>a, <1>1, SmallestSubset
<1> DEFINE G == [U \in SUBSET T |-> CHOOSE g : Sums(counts, g, U)]
<1>3. ASSUME NEW U \in SUBSET T, U # T PROVE Sums(counts, G[U], U)
  <2>1. U \in SUBSET S /\ U \notin Q
    BY <1>2, <1>3
  <2>2. \E g : Sums(counts, g, U)
    BY <2>1
  <2>3. G[U] = CHOOSE g : Sums(counts, g, U)
    OBVIOUS
  <2> HIDE DEF G
  <2> QED
    BY <2>2, <2>3
<1> HIDE DEF G, Q
<1> DEFINE Rest(s) == s \ {First(s)}
           f == [s \in SUBSET T |-> IF s = {} THEN 0
                                    ELSE counts[First(s)] + G[Rest(s)][Rest(s)]]
<1>4. ASSUME NEW s \in SUBSET T, s # {} PROVE G[Rest(s)][Rest(s)] = f[Rest(s)]
  <2> DEFINE V == Rest(s)
  <2>1. V \in SUBSET T /\ V # T
    BY <1>4, FirstIn
  <2>2. Sums(counts, G[V], V)
    BY <1>3, <2>1
  <2>3. CASE V = {}
    <3>1. G[V][V] = 0
      BY <2>2, <2>3 DEF Sums
    <3>2. f[V] = 0
      BY <2>1, <2>3
    <3> QED
      BY <3>1, <3>2
  <2>4. CASE V # {}
    <3> DEFINE W == Rest(V)
    <3>1. W \in SUBSET V /\ W # V /\ W \in SUBSET T /\ W # T
      BY <2>1, <2>4, FirstIn
    <3>2. Sums(counts, G[W], W)
      BY <1>3, <3>1
    <3>3. IsFiniteSet(V)
      BY <2>1, <1>2, FS_Subset DEF Q
    <3>4. \A w \in SUBSET W : G[V][w] = G[W][w]
      <4>1. W \in SUBSET V
        BY <3>1
      <4> HIDE DEF V, W
      <4> QED
        BY <2>2, <4>1, <3>2, <3>3, SumsAgree
    <3>5. G[V][V] = counts[First(V)] + G[V][W]
      <4>1. V \in SUBSET V
        OBVIOUS
      <4> QED
        BY <2>2, <2>4, <4>1 DEF Sums
    <3>6. f[V] = counts[First(V)] + G[W][W]
      BY <2>1, <2>4
    <3>7. G[V][W] = G[W][W]
      BY <3>4
    <3> QED
      BY <3>5, <3>6, <3>7
  <2> QED
    BY <2>3, <2>4
<1>5. ASSUME NEW s \in SUBSET T
      PROVE f[s] = IF s = {} THEN 0 ELSE counts[First(s)] + f[s \ {First(s)}]
  BY <1>4
<1>6. f = [s \in SUBSET T |-> f[s]]
  OBVIOUS
<1>7. Sums(counts, f, T)
  <2> HIDE DEF f
  <2> QED
    BY <1>5, <1>6 DEF Sums
<1> QED
  BY <1>2, <1>7 DEF Q

LEMMA TotalIsSum ==
  ASSUME NEW counts, NEW S, IsFiniteSet(S)
  PROVE  \E g : Sums(counts, g, S) /\ Total(counts, S) = g[S]
BY SumsExist, Unfold

LEMMA TotalOfNone == ASSUME NEW counts PROVE Total(counts, {}) = 0
<1>1. PICK g : Sums(counts, g, {}) /\ Total(counts, {}) = g[{}]
  BY TotalIsSum, FS_EmptySet
<1> QED
  BY <1>1 DEF Sums

\* Total has the equations its name promises.
LEMMA TotalAdds ==
  ASSUME NEW counts, NEW S, IsFiniteSet(S), S # {}
  PROVE  Total(counts, S) = counts[First(S)] + Total(counts, S \ {First(S)})
<1> DEFINE V == S \ {First(S)}
<1>1. PICK g : Sums(counts, g, S) /\ Total(counts, S) = g[S]
  BY TotalIsSum
<1>2. IsFiniteSet(V)
  BY FS_Subset
<1>3. PICK h : Sums(counts, h, V) /\ Total(counts, V) = h[V]
  BY <1>2, TotalIsSum
<1>4. g[V] = h[V]
  BY <1>1, <1>3, SumsAgree
<1>5. g[S] = counts[First(S)] + g[V]
  BY <1>1 DEF Sums
<1> QED
  BY <1>1, <1>3, <1>4, <1>5

\* The sum of the sizes of disjoint sets is the size of their union.
LEMMA TotalOfSizes ==
  ASSUME NEW S, IsFiniteSet(S), NEW counts, NEW parts,
         \A x \in S : IsFiniteSet(parts[x]) /\ counts[x] = Cardinality(parts[x]),
         \A x, y \in S : x # y => parts[x] \cap parts[y] = {},
         NEW all, all = UNION {parts[x] : x \in S}
  PROVE  Total(counts, S) = Cardinality(all)
<1> DEFINE All(T) == UNION {parts[x] : x \in T}
           Right(T) == IsFiniteSet(All(T)) /\ Total(counts, T) = Cardinality(All(T))
           Q == {T \in SUBSET S : ~Right(T)}
<1>1. SUFFICES ASSUME Q # {} PROVE FALSE
  BY DEF Right
<1>2. PICK T \in Q : \A U \in SUBSET T : U # T => U \notin Q
  <2>1. Q \subseteq SUBSET S
    OBVIOUS
  <2> HIDE DEF Q
  <2> QED
    BY <1>1, <2>1, SmallestSubset
<1>3. T \in SUBSET S /\ ~Right(T) /\ IsFiniteSet(T)
  BY <1>2, FS_Subset
<1>4. T # {}
  <2>1. All({}) = {}
    OBVIOUS
  <2>2. Right({})
    BY <2>1, TotalOfNone, FS_EmptySet
  <2> HIDE DEF Right
  <2> QED
    BY <1>3, <2>2
<1> DEFINE x == First(T)
           V == T \ {x}
<1>5. x \in S /\ x \in T /\ V \in SUBSET T /\ V # T /\ x \notin V
  BY <1>3, <1>4, FirstIn
<1>6. Right(V)
  <2> HIDE DEF Right
  <2> QED
    BY <1>2, <1>3, <1>5
<1>7. All(T) = parts[x] \cup All(V)
  BY <1>5
<1>8. parts[x] \cap All(V) = {}
  BY <1>3, <1>5
<1>9. IsFiniteSet(parts[x]) /\ counts[x] = Cardinality(parts[x])
  BY <1>5
<1>10. Total(counts, T) = counts[x] + Total(counts, V)
  BY <1>3, <1>4, TotalAdds
<1>11. Cardinality(All(V)) \in Nat /\ Cardinality(parts[x]) \in Nat
  BY <1>6, <1>9, FS_CardinalityType
<1>12. Right(T)
  <2> HIDE DEF All, V, x
  <2>1. IsFiniteSet(All(V)) /\ Total(counts, V) = Cardinality(All(V))
    BY <1>6
  <2>2. IsFiniteSet(All(T))
    <3>1. IsFiniteSet(parts[x] \cup All(V))
      BY <1>9, <2>1, FS_Union
    <3> QED
      BY <3>1, <1>7
  <2>3. Cardinality(All(T)) = Cardinality(parts[x]) + Cardinality(All(V)) - Cardinality({})
    BY <1>7, <1>8, <1>9, <2>1, FS_Union
  <2>4. Cardinality(All(T)) = Cardinality(parts[x]) + Cardinality(All(V))
    BY <2>3, <1>11, FS_EmptySet
  <2> QED
    BY <2>1, <2>2, <2>4, <1>9, <1>10
<1> QED
  BY <1>3, <1>12

------------------------------------------------------------------------------

\* The fields of a view.
Fields == DOMAIN NoView

\* What reader v has read is still in the database, as far as it cannot change: the
\* PR and its author, the row of a MERGED one, the reviewers of a frozen one.
RowStillThere(v) ==
  LET w == view[v] IN
  w.row # Null =>
    /\ w.subject \in PRIDs
    /\ Exists(w.subject)
    /\ w.row.author = prs[w.subject].author
    /\ w.row.status \in {"OPEN", "MERGED"}
    /\ w.row.status = "MERGED" => w.row = prs[w.subject]
    /\ w.frozen => Frozen(w.subject) /\ w.row = prs[w.subject]
    /\ w.res = "OK" => w.row.author \notin w.shown
    /\ w.res = "OK" /\ w.frozen => w.shown = reviewers[w.subject]

ListStillTrue(v) ==
  \A p \in view[v].list : p \in PRIDs /\ Exists(p) /\ prs[p].author # view[v].subject

\* The query a reader is at belongs to the report it was asked for.
Stage(v) ==
  /\ view[v].kind = "pr" => view[v].row # Null
  /\ view[v].at = "pr_reviewers" => view[v].kind = "pr" /\ view[v].res = "none"
  /\ view[v].at = "review_list" => view[v].kind = "review"
  /\ view[v].at \in {"team_exists", "review_list", "stats_prs"} => view[v].row = Null
  /\ view[v].at = "team_exists" => view[v].kind = "team"
  /\ view[v].at = "stats_prs" => view[v].kind = "stats"
  /\ view[v].kind = "review" /\ view[v].at # "review_list" => view[v].at = "done"
  /\ view[v].kind = "review" => view[v].row = Null

ViewInv ==
  /\ DOMAIN view = Readers
  /\ \A v \in Readers :
       DOMAIN view[v] = Fields /\ RowStillThere(v) /\ ListStillTrue(v) /\ Stage(v)

\* The readers change nothing the service sees.
LEMMA ReadersOnlyRead == [ReportsNext]_rvars => [Next]_vars
BY DEF ReportsNext, Next, rvars, vars

\* Reports implements ReviewService (GetTeam, ListReviewAssignments,
\* FetchAssignmentStats and GetPullRequest only read): every theorem of the service
\* holds beside its readers.
THEOREM ServiceBeneath == ReportsSpec => Spec
BY ReadersOnlyRead, PTL DEF ReportsSpec, ReportsInit, Spec

LEMMA InitViewInv == ReportsInit => ViewInv
BY DEF ReportsInit, ViewInv, RowStillThere, ListStillTrue, Stage, Fields, NoView

\* Nothing the service does makes what was read untrue.
LEMMA ServiceKeepsViews ==
  ASSUME IInv, MergeInv, ViewInv, [Next]_vars,
         DOMAIN view' = Readers,
         \A v \in Readers :
           \/ DOMAIN view'[v] = Fields /\ \A x \in Fields \ {"moved"} : view'[v][x] = view[v][x]
           \/ view'[v] = NoView
  PROVE  ViewInv'
<1> SUFFICES ASSUME NEW v \in Readers
             PROVE  (DOMAIN view[v] = Fields /\ RowStillThere(v) /\ ListStillTrue(v) /\ Stage(v))'
  BY DEF ViewInv
<1>1. CASE view'[v] = NoView
  BY <1>1 DEF RowStillThere, ListStillTrue, Stage, Fields, NoView
<1>2. CASE DOMAIN view'[v] = Fields /\ \A x \in Fields \ {"moved"} : view'[v][x] = view[v][x]
  <2>1. /\ view'[v].kind = view[v].kind /\ view'[v].at = view[v].at
        /\ view'[v].subject = view[v].subject /\ view'[v].list = view[v].list
        /\ view'[v].row = view[v].row /\ view'[v].shown = view[v].shown
        /\ view'[v].res = view[v].res /\ view'[v].frozen = view[v].frozen
    BY <1>2 DEF Fields, NoView
  <2>2. KeepsMerged /\ KeepsFrozen
    BY NextKeepsMerged, NextKeepsFrozen
  <2>3. RowStillThere(v) /\ ListStillTrue(v) /\ Stage(v)
    BY DEF ViewInv
  <2>4. RowStillThere(v)'
    <3> SUFFICES ASSUME view[v].row # Null
                 PROVE  RowStillThere(v)'
      BY <2>1 DEF RowStillThere
    <3>1. PICK p \in PRIDs : p = view[v].subject
      BY <2>3 DEF RowStillThere
    <3>2. PICK w : w = view[v]
      OBVIOUS
    <3>3. /\ Exists(p) /\ w.row.author = prs[p].author
          /\ w.row.status \in {"OPEN", "MERGED"}
          /\ w.row.status = "MERGED" => w.row = prs[p]
          /\ w.frozen => Frozen(p) /\ w.row = prs[p]
          /\ w.res = "OK" => w.row.author \notin w.shown
          /\ w.res = "OK" /\ w.frozen => w.shown = reviewers[p]
      BY <2>3, <3>1, <3>2 DEF RowStillThere
    <3>4. Exists(p)' /\ prs'[p].author = prs[p].author
      BY <2>2, <3>3 DEF KeepsMerged
    <3>5. w.row.status = "MERGED" => prs'[p] = prs[p]
      BY <2>2, <3>3 DEF KeepsMerged, Merged
    <3>6. w.frozen => Frozen(p)' /\ reviewers'[p] = reviewers[p] /\ prs'[p] = prs[p]
      BY <2>2, <3>3 DEF KeepsFrozen, KeepsMerged, Frozen
    <3>7. /\ view'[v].subject = p /\ view'[v].row = w.row /\ view'[v].res = w.res
          /\ view'[v].shown = w.shown /\ view'[v].frozen = w.frozen
      BY <2>1, <3>1, <3>2
    <3> QED
      BY <3>3, <3>4, <3>5, <3>6, <3>7 DEF RowStillThere
  <2>5. ListStillTrue(v)'
    BY <2>1, <2>2, <2>3 DEF ListStillTrue, KeepsMerged, Exists
  <2>6. Stage(v)'
    BY <2>1, <2>3 DEF Stage
  <2> QED
    BY <1>2, <2>4, <2>5, <2>6
<1> QED
  BY <1>1, <1>2

\* Nor does a query.
LEMMA ReadKeepsViews ==
  ASSUME IInv, ViewInv, NEW v \in Readers, Read(v), UNCHANGED vars
  PROVE  ViewInv'
<1> DEFINE OK(x) == DOMAIN view[x] = Fields /\ RowStillThere(x) /\ ListStillTrue(x) /\ Stage(x)
<1>0. DOMAIN view = Readers /\ \A x \in Readers : OK(x)
  BY DEF ViewInv
<1>1. ASSUME NEW new, Shows(v, new)
      PROVE  /\ DOMAIN view' = Readers /\ view'[v] = new
             /\ \A x \in Readers \ {v} : view'[x] = view[x]
  BY <1>0, <1>1 DEF Shows
<1>2. UNCHANGED <<prs, reviewers, users, pc, job>>
  BY DEF vars
<1>3. ASSUME NEW x \in Readers, view'[x] = view[x] PROVE OK(x)'
  <2>1. OK(x)
    BY <1>0
  <2>2. RowStillThere(x)'
    BY <1>2, <1>3, <2>1 DEF RowStillThere, Exists, Frozen, Merged, Admitted
  <2>3. ListStillTrue(x)'
    BY <1>2, <1>3, <2>1 DEF ListStillTrue, Exists
  <2>4. Stage(x)'
    BY <1>2, <1>3, <2>1 DEF Stage
  <2> QED
    BY <1>3, <2>1, <2>2, <2>3, <2>4
<1>4. SUFFICES ASSUME NEW new, Shows(v, new) PROVE OK(v)'
  <2>1. \E new : Shows(v, new)
    BY DEF Read, TeamMembersQuery, TeamExistsQuery, UserQuery, ReviewListQuery,
           StatsUsersQuery, StatsPRsQuery, PRRowQuery, PRReviewersQuery, QueryError
  <2> HIDE DEF OK
  <2>2. PICK new : Shows(v, new)
    BY <2>1
  <2>3. \A x \in Readers : OK(x)'
    BY <1>1, <1>3, <1>4, <2>2
  <2> USE DEF OK
  <2> QED
    BY <1>1, <2>2, <2>3 DEF ViewInv
<1> DEFINE w == view[v]
<1>5. CASE TeamMembersQuery(v)
  BY <1>0, <1>5 DEF TeamMembersQuery, Shows, NoView, Fields, RowStillThere, ListStillTrue, Stage
<1>6. CASE UserQuery(v)
  BY <1>0, <1>6 DEF UserQuery, Shows, NoView, Fields, RowStillThere, ListStillTrue, Stage
<1>7. CASE StatsUsersQuery(v)
  BY <1>0, <1>7 DEF StatsUsersQuery, Shows, NoView, Fields, RowStillThere, ListStillTrue, Stage
<1>8. CASE PRRowQuery(v)
  <2>0. PICK p \in PRIDs : /\ Exists(p)
                           /\ Shows(v, [NoView EXCEPT !.kind = "pr", !.subject = p,
                                          !.at = "pr_reviewers", !.row = prs[p],
                                          !.frozen = Frozen(p)])
    BY <1>8 DEF PRRowQuery
  <2> DEFINE f == Frozen(p)
  <2>1. /\ Exists(p)
        /\ view'[v] = [NoView EXCEPT !.kind = "pr", !.subject = p,
                                     !.at = "pr_reviewers", !.row = prs[p], !.frozen = f]
    BY <1>1, <2>0
  <2> HIDE DEF f
  <2>2. /\ view'[v].kind = "pr" /\ view'[v].subject = p /\ view'[v].at = "pr_reviewers"
        /\ view'[v].row = prs[p] /\ view'[v].frozen = f
        /\ view'[v].res = "none" /\ view'[v].list = {}
        /\ DOMAIN view'[v] = Fields
    BY <2>1 DEF NoView, Fields
  <2> USE DEF f
  <2>3. prs[p] \in PRRow
    BY <2>1 DEF IInv, TypeOK, PRTable, Exists
  <2>4. Exists(p)' /\ (Frozen(p) <=> Frozen(p)')
    BY <1>2, <2>1 DEF Exists, Frozen, Merged, Admitted
  <2>5. RowStillThere(v)'
    BY <1>2, <2>1, <2>2, <2>3, <2>4 DEF RowStillThere, PRRow, Frozen, Merged, Exists, Admitted
  <2> QED
    BY <2>1, <2>2, <2>5 DEF ListStillTrue, Stage, Exists
<1>9. CASE TeamExistsQuery(v) \/ ReviewListQuery(v) \/ StatsPRsQuery(v) \/ QueryError(v)
           \/ PRReviewersQuery(v)
  <2>1. /\ DOMAIN w = Fields /\ DOMAIN view'[v] = Fields
        /\ view'[v].kind = w.kind /\ view'[v].subject = w.subject /\ view'[v].row = w.row
        /\ view'[v].frozen = w.frozen /\ view'[v].at = "done"
    <3> DEFINE Goes == /\ DOMAIN w = Fields /\ DOMAIN view'[v] = Fields
                       /\ view'[v].kind = w.kind /\ view'[v].subject = w.subject
                       /\ view'[v].row = w.row
                       /\ view'[v].frozen = w.frozen /\ view'[v].at = "done"
    <3>1. TeamExistsQuery(v) => Goes
      BY <1>0 DEF TeamExistsQuery, Shows, Fields, NoView
    <3>2. ReviewListQuery(v) => Goes
      BY <1>0 DEF ReviewListQuery, Shows, Fields, NoView
    <3>3. StatsPRsQuery(v) => Goes
      BY <1>0 DEF StatsPRsQuery, Shows, Fields, NoView
    <3>4. QueryError(v) => Goes
      BY <1>0 DEF QueryError, Shows, Fields, NoView
    <3>5. PRReviewersQuery(v) => Goes
      BY <1>0 DEF PRReviewersQuery, Shows, Fields, NoView
    <3> QED
      BY <1>9, <3>1, <3>2, <3>3, <3>4, <3>5
  <2>2. OK(v)
    BY <1>0
  <2>3. Stage(v)'
    BY <2>1, <2>2 DEF Stage
  <2>4. CASE PRReviewersQuery(v)
    <3>1. /\ view'[v].res = "OK" /\ view'[v].shown = reviewers[w.subject]
          /\ view'[v].list = w.list
      BY <1>0, <2>4 DEF PRReviewersQuery, Shows, Fields, NoView
    <3>2. w.row # Null
      BY <2>2, <2>4 DEF Stage, PRReviewersQuery
    <3>3. w.row.author \notin reviewers[w.subject]
      BY <2>2, <3>2 DEF RowStillThere, IInv, NoSelfReview
    <3>4. RowStillThere(v)'
      BY <1>2, <2>1, <2>2, <3>1, <3>2, <3>3
      DEF RowStillThere, Exists, Frozen, Merged, Admitted
    <3>5. ListStillTrue(v)'
      BY <1>2, <2>1, <2>2, <3>1 DEF ListStillTrue, Exists
    <3> QED
      BY <2>1, <2>3, <3>4, <3>5
  <2>5. CASE ReviewListQuery(v)
    <3>1. view'[v].list = {p \in PRIDs : Exists(p) /\ w.subject \in reviewers[p]}
      BY <1>0, <2>5 DEF ReviewListQuery, Shows, Fields, NoView
    <3>2. \A p \in view'[v].list : p \in PRIDs /\ Exists(p) /\ prs[p].author # w.subject
      BY <3>1 DEF IInv, NoSelfReview
    <3>3. w.row = Null
      BY <2>2, <2>5 DEF Stage, ReviewListQuery
    <3>4. ListStillTrue(v)'
      BY <1>2, <2>1, <3>2 DEF ListStillTrue, Exists
    <3> QED
      BY <2>1, <2>3, <3>3, <3>4 DEF RowStillThere
  <2>6. CASE TeamExistsQuery(v) \/ StatsPRsQuery(v)
    <3>1. view'[v].list = w.list /\ w.row = Null
      BY <1>0, <2>6 DEF TeamExistsQuery, StatsPRsQuery, Shows, Fields, NoView, Stage
    <3>2. ListStillTrue(v)'
      BY <1>2, <2>1, <2>2, <3>1 DEF ListStillTrue, Exists
    <3> QED
      BY <2>1, <2>3, <3>1, <3>2 DEF RowStillThere
  <2>7. CASE QueryError(v)
    <3>1. view'[v].list = w.list /\ view'[v].res = "INTERNAL_ERROR"
      BY <1>0, <2>7 DEF QueryError, Shows, Fields, NoView
    <3>2. ListStillTrue(v)'
      BY <1>2, <2>1, <2>2, <3>1 DEF ListStillTrue, Exists
    <3>3. RowStillThere(v)'
      BY <1>2, <2>1, <2>2, <3>1 DEF RowStillThere, Exists, Frozen, Merged, Admitted
    <3> QED
      BY <2>1, <2>3, <3>2, <3>3
  <2> QED
    BY <1>9, <2>4, <2>5, <2>6, <2>7
<1> QED
  BY <1>5, <1>6, <1>7, <1>8, <1>9 DEF Read

LEMMA ViewInvNext == ASSUME IInv, MergeInv, ViewInv, [ReportsNext]_rvars PROVE ViewInv'
<1>0. DOMAIN view = Readers /\ \A v \in Readers : DOMAIN view[v] = Fields
  BY DEF ViewInv
<1>1. [Next]_vars
  BY ReadersOnlyRead
<1>2. CASE Notice
  <2>1. DOMAIN view' = Readers
    BY <1>2 DEF Notice
  <2>2. ASSUME NEW v \in Readers
        PROVE  DOMAIN view'[v] = Fields /\ \A x \in Fields \ {"moved"} : view'[v][x] = view[v][x]
    BY <1>0, <1>2, <2>2 DEF Notice
  <2> QED
    BY <1>1, <2>1, <2>2, ServiceKeepsViews
<1>3. CASE Forget
  <2>1. DOMAIN view' = Readers
    BY <1>3 DEF Forget
  <2>2. \A v \in Readers : view'[v] = view[v] \/ view'[v] = NoView
    BY <1>3 DEF Forget
  <2> QED
    BY <1>0, <1>1, <2>1, <2>2, ServiceKeepsViews
<1>4. CASE UNCHANGED view
  BY <1>0, <1>1, <1>4, ServiceKeepsViews
<1>5. CASE \E v \in Readers : Read(v) /\ UNCHANGED vars
  BY <1>5, ReadKeepsViews
<1> QED
  BY <1>2, <1>3, <1>4, <1>5 DEF ReportsNext, rvars

LEMMA ViewInvariant == ReportsSpec => [](IInv /\ MergeInv /\ ViewInv)
<1>1. ReportsSpec => [](IInv /\ MergeInv)
  BY ServiceBeneath, MergeInvariant, PTL
<1>2. IInv /\ MergeInv /\ ViewInv /\ [ReportsNext]_rvars => ViewInv'
  BY ViewInvNext
<1> QED
  BY <1>1, <1>2, InitViewInv, PTL DEF ReportsSpec

------------------------------------------------------------------------------

\* No reply and no list shows a user as a reviewer of his own PR, whatever commits
\* between the two queries of GetPullRequest or before ListReviewAssignments.
THEOREM NobodyIsShownReviewingHimself == ReportsSpec => []NobodyShownReviewingHimself
<1>1. ViewInv => NobodyShownReviewingHimself
  BY DEF ViewInv, RowStillThere, ListStillTrue, Stage, NobodyShownReviewingHimself, Shown
<1> QED
  BY <1>1, ViewInvariant, PTL

\* What GetPullRequest returns of a PR that is merged, with no replacement past its
\* check, is what the tables say for good.
THEOREM FrozenViewsNeverStale == ReportsSpec => []FrozenViewsStayTrue
<1>1. ViewInv => FrozenViewsStayTrue
  BY DEF ViewInv, RowStillThere, Stage, FrozenViewsStayTrue, Shown
<1> QED
  BY <1>1, ViewInvariant, PTL

\* The body of MergedNeverShownOpenLater.
OpenAfterMerge ==
  \A v \in Readers :
    view'[v] # view[v] /\ Shown(v, "review")' =>
      \A p \in view'[v].open, w \in Readers :
        view[w].subject = p /\ view[w].row # Null => view[w].row.status = "OPEN"

\* Two readers see the merge in the same order: ListReviewAssignments never lists as
\* open a PR that GetPullRequest has already shown MERGED.
THEOREM MergeSeenInOrder == ReportsSpec => MergedNeverShownOpenLater
<1>1. ASSUME IInv, MergeInv, ViewInv, ReportsNext PROVE OpenAfterMerge
  <2> SUFFICES ASSUME NEW v \in Readers, view'[v] # view[v], Shown(v, "review")',
                      NEW p \in view'[v].open, NEW x \in Readers,
                      view[x].subject = p, view[x].row # Null
               PROVE  view[x].row.status = "OPEN"
    BY DEF OpenAfterMerge
  <2>0. DOMAIN view = Readers /\ DOMAIN view[v] = Fields /\ RowStillThere(x) /\ Stage(v)
    BY <1>1 DEF ViewInv
  <2>1. ASSUME Notice PROVE FALSE
    <3>1. /\ view'[v] = [view[v] EXCEPT !.moved = TRUE]
          /\ view[v].at = "stats_prs"
      BY <2>0, <2>1 DEF Notice
    <3>2. view'[v].kind = view[v].kind
      BY <2>0, <3>1 DEF Fields, NoView
    <3> QED
      BY <2>0, <3>1, <3>2 DEF Stage, Shown
  <2>2. ~Forget
    BY <2>0 DEF Forget, NoView, Shown
  <2>3. PICK y \in Readers : Read(y) /\ UNCHANGED vars
    BY <1>1, <2>1, <2>2 DEF ReportsNext
  <2>4. y = v
    BY <2>0, <2>3
    DEF Read, TeamMembersQuery, TeamExistsQuery, UserQuery, ReviewListQuery,
        StatsUsersQuery, StatsPRsQuery, PRRowQuery, PRReviewersQuery, QueryError, Shows
  <2>5. ReviewListQuery(v)
    <3>1. view'[v].kind = "review" /\ view'[v].res = "OK"
      BY DEF Shown
    <3>2. ~TeamMembersQuery(v)
      <4>1. TeamMembersQuery(v) => view'[v].kind = "team"
        BY <2>0 DEF TeamMembersQuery, Shows, NoView
      <4> QED
        BY <3>1, <4>1
    <3>7. ~UserQuery(v)
      <4>1. UserQuery(v) => view'[v].res \in {"none", "NOT_FOUND"}
        BY <2>0 DEF UserQuery, Shows, NoView
      <4> QED
        BY <3>1, <4>1
    <3>3. ~StatsUsersQuery(v) /\ ~PRRowQuery(v)
      BY <2>0, <3>1 DEF StatsUsersQuery, PRRowQuery, Shows, NoView
    <3>4. ~TeamExistsQuery(v)
      <4>1. TeamExistsQuery(v) => view'[v].kind = view[v].kind
        BY <2>0 DEF TeamExistsQuery, Shows, NoView, Fields
      <4> QED
        BY <2>0, <3>1, <4>1 DEF TeamExistsQuery, Stage
    <3>6. ~StatsPRsQuery(v)
      <4>1. StatsPRsQuery(v) => view'[v].kind = view[v].kind
        BY <2>0 DEF StatsPRsQuery, Shows, NoView, Fields
      <4> QED
        BY <2>0, <3>1, <4>1 DEF StatsPRsQuery, Stage
    <3>5. ~PRReviewersQuery(v) /\ ~QueryError(v)
      BY <2>0, <3>1 DEF PRReviewersQuery, QueryError, Shows, NoView, Fields, Stage
    <3> QED
      BY <2>3, <2>4, <3>2, <3>3, <3>4, <3>5, <3>6, <3>7 DEF Read
  <2>6. Exists(p) /\ prs[p].status = "OPEN"
    BY <2>0, <2>5 DEF ReviewListQuery, Shows, Fields, NoView
  <2> QED
    BY <2>0, <2>6 DEF RowStillThere
<1>2. IInv /\ MergeInv /\ ViewInv /\ [ReportsNext]_rvars => [OpenAfterMerge]_rvars
  BY <1>1
<1>3. [][OpenAfterMerge]_rvars => MergedNeverShownOpenLater
  BY PTL DEF MergedNeverShownOpenLater, OpenAfterMerge
<1> QED
  BY <1>2, <1>3, ViewInvariant, PTL DEF ReportsSpec

------------------------------------------------------------------------------
\* The statistics.

\* A set has as many elements as the pairs that have them on one side.
LEMMA PairedLeft ==
  ASSUME NEW A, IsFiniteSet(A), NEW b
  PROVE  IsFiniteSet(A \X {b}) /\ Cardinality(A) = Cardinality(A \X {b})
<1> DEFINE f == [a \in A |-> <<a, b>>]
<1>1. f \in Bijection(A, A \X {b})
  BY DEF Bijection, Injection, Surjection, IsInjective
<1> QED
  BY <1>1, FS_Bijection DEF ExistsBijection

LEMMA PairedRight ==
  ASSUME NEW A, IsFiniteSet(A), NEW b
  PROVE  IsFiniteSet({b} \X A) /\ Cardinality(A) = Cardinality({b} \X A)
<1> DEFINE f == [a \in A |-> <<b, a>>]
<1>1. f \in Bijection(A, {b} \X A)
  BY DEF Bijection, Injection, Surjection, IsInjective
<1> QED
  BY <1>1, FS_Bijection DEF ExistsBijection

\* Both left joins of FetchAssignmentStats count the rows of pull_request_reviewers.
LEMMA RowsByUser ==
  ASSUME IsFiniteSet(UserIDs), IsFiniteSet(PRIDs), TypeOK, ForeignKeysHold
  PROVE  Total([u \in UserIDs |-> Cardinality(ReviewsOf(u))], UserIDs) = ReviewerRows
<1> DEFINE rows == UNION {{p} \X reviewers[p] : p \in PRIDs}
           byUser == [u \in UserIDs |-> ReviewsOf(u) \X {u}]
           byPR   == [p \in PRIDs |-> {p} \X reviewers[p]]
           perUser == [u \in UserIDs |-> Cardinality(ReviewsOf(u))]
           perPR   == [p \in PRIDs |-> Cardinality(reviewers[p])]
<1>1. \A p \in PRIDs : reviewers[p] \in SUBSET UserIDs
  BY DEF TypeOK, ReviewerTable
<1>2. rows = UNION {byUser[u] : u \in UserIDs} /\ rows = UNION {byPR[p] : p \in PRIDs}
  BY <1>1 DEF ReviewsOf, ForeignKeysHold, Known
<1>3. \A u \in UserIDs : IsFiniteSet(byUser[u]) /\ perUser[u] = Cardinality(byUser[u])
  <2> TAKE u \in UserIDs
  <2>1. IsFiniteSet(ReviewsOf(u))
    BY FS_Subset DEF ReviewsOf
  <2> QED
    BY <2>1, PairedLeft
<1>4. \A p \in PRIDs : IsFiniteSet(byPR[p]) /\ perPR[p] = Cardinality(byPR[p])
  <2> TAKE p \in PRIDs
  <2>1. IsFiniteSet(reviewers[p])
    BY <1>1, FS_Subset
  <2> QED
    BY <2>1, PairedRight
<1>5. ASSUME NEW x \in UserIDs, NEW y \in UserIDs, x # y PROVE byUser[x] \cap byUser[y] = {}
  <2>1. byUser[x] = ReviewsOf(x) \X {x} /\ byUser[y] = ReviewsOf(y) \X {y}
    OBVIOUS
  <2> HIDE DEF byUser
  <2> QED
    BY <1>5, <2>1
<1>6. ASSUME NEW x \in PRIDs, NEW y \in PRIDs, x # y PROVE byPR[x] \cap byPR[y] = {}
  <2>1. byPR[x] = {x} \X reviewers[x] /\ byPR[y] = {y} \X reviewers[y]
    OBVIOUS
  <2> HIDE DEF byPR
  <2> QED
    BY <1>6, <2>1
<1> HIDE DEF rows, byUser, byPR, perUser, perPR
<1>7. Total(perUser, UserIDs) = Cardinality(rows)
  <2>1. \A x, y \in UserIDs : x # y => byUser[x] \cap byUser[y] = {}
    BY <1>5
  <2>2. rows = UNION {byUser[u] : u \in UserIDs}
    BY <1>2
  <2> QED
    BY ONLY IsFiniteSet(UserIDs), <1>3, <2>1, <2>2, TotalOfSizes
<1>8. Total(perPR, PRIDs) = Cardinality(rows)
  BY <1>2, <1>4, <1>6, TotalOfSizes
<1> QED
  BY <1>7, <1>8 DEF perUser, perPR, ReviewerRows

\* A PR that is not there has no rows.
LEMMA RowsByPR ==
  ASSUME TypeOK, ForeignKeysHold
  PROVE  Total([p \in PRIDs |-> IF Exists(p) THEN Cardinality(reviewers[p]) ELSE 0], PRIDs)
           = ReviewerRows
<1>1. \A p \in PRIDs : ~Exists(p) => Cardinality(reviewers[p]) = 0
  BY FS_EmptySet DEF ForeignKeysHold
<1>2. [p \in PRIDs |-> IF Exists(p) THEN Cardinality(reviewers[p]) ELSE 0]
        = [p \in PRIDs |-> Cardinality(reviewers[p])]
  BY <1>1
<1> QED
  BY <1>2 DEF ReviewerRows

\* What the statistics have counted so far is what there is, unless it has changed.
StatsOK(v) ==
  /\ view[v].at = "stats_prs" =>
       /\ view[v].res = "none"
       /\ ~view[v].moved => Total(view[v].perUser, UserIDs) = ReviewerRows
  /\ Shown(v, "stats") /\ ~view[v].moved =>
       Total(view[v].perUser, UserIDs) = Total(view[v].perPR, PRIDs)

StatsInv == \A v \in Readers : StatsOK(v)

LEMMA InitStats == ReportsInit => StatsInv
BY DEF ReportsInit, NoView, StatsInv, StatsOK, Shown

\* The queries of a report count what is there; those of the others do not count.
LEMMA ReadKeepsStats ==
  ASSUME IsFiniteSet(UserIDs), IsFiniteSet(PRIDs), IInv, ViewInv, StatsInv,
         NEW v \in Readers, Read(v), UNCHANGED vars
  PROVE  StatsInv'
<1>1. /\ DOMAIN view = Readers /\ DOMAIN view[v] = Fields /\ Stage(v)
      /\ \A x \in Readers : StatsOK(x)
  BY DEF ViewInv, StatsInv
<1>2. ReviewerRows' = ReviewerRows
  BY DEF vars, ReviewerRows
<1>3. \A x \in Readers \ {v} : view'[x] = view[x]
  BY <1>1 DEF Read, TeamMembersQuery, TeamExistsQuery, UserQuery, ReviewListQuery,
         StatsUsersQuery, StatsPRsQuery, PRRowQuery, PRReviewersQuery, QueryError, Shows
<1>4. SUFFICES StatsOK(v)'
  BY <1>1, <1>2, <1>3 DEF StatsInv, StatsOK, Shown
<1>5. TypeOK /\ ForeignKeysHold
  BY DEF IInv
<1>6. CASE StatsUsersQuery(v)
  <2>1. /\ view'[v].at = "stats_prs" /\ view'[v].res = "none"
        /\ view'[v].perUser = [u \in UserIDs |-> Cardinality(ReviewsOf(u))]
    BY <1>1, <1>6 DEF StatsUsersQuery, Shows, NoView
  <2> QED
    BY <1>2, <1>5, <2>1, RowsByUser DEF StatsOK, Shown
<1>7. CASE StatsPRsQuery(v)
  <2>1. /\ view[v].at = "stats_prs"
        /\ view'[v].at = "done" /\ view'[v].moved = view[v].moved
        /\ view'[v].perUser = view[v].perUser
        /\ view'[v].perPR = [p \in PRIDs |-> IF Exists(p) THEN Cardinality(reviewers[p]) ELSE 0]
    BY <1>1, <1>7 DEF StatsPRsQuery, Shows, Fields, NoView
  <2> QED
    BY <1>1, <1>5, <2>1, RowsByPR DEF StatsOK
<1>8. ASSUME view'[v].at # "stats_prs", view'[v].kind # "stats" \/ view'[v].res # "OK"
      PROVE  StatsOK(v)'
  BY <1>8 DEF StatsOK, Shown
<1>9. CASE TeamMembersQuery(v)
  BY <1>1, <1>8, <1>9 DEF TeamMembersQuery, Shows, NoView
<1>10. CASE UserQuery(v)
  BY <1>1, <1>8, <1>10 DEF UserQuery, Shows, NoView
<1>11. CASE PRRowQuery(v)
  BY <1>1, <1>8, <1>11 DEF PRRowQuery, Shows, NoView
<1>12. CASE TeamExistsQuery(v)
  BY <1>1, <1>8, <1>12 DEF TeamExistsQuery, Shows, Fields, NoView, Stage
<1>13. CASE ReviewListQuery(v)
  BY <1>1, <1>8, <1>13 DEF ReviewListQuery, Shows, Fields, NoView, Stage
<1>14. CASE PRReviewersQuery(v)
  BY <1>1, <1>8, <1>14 DEF PRReviewersQuery, Shows, Fields, NoView, Stage
<1>15. CASE QueryError(v)
  BY <1>1, <1>8, <1>15 DEF QueryError, Shows, Fields, NoView
<1> QED
  BY <1>6, <1>7, <1>9, <1>10, <1>11, <1>12, <1>13, <1>14, <1>15 DEF Read

\* A commit that changes the number of rows is noticed.
LEMMA StatsInvNext ==
  ASSUME IsFiniteSet(UserIDs), IsFiniteSet(PRIDs), IInv, ViewInv, StatsInv,
         [ReportsNext]_rvars
  PROVE  StatsInv'
<1>1. \A v \in Readers : DOMAIN view[v] = Fields /\ StatsOK(v)
  BY DEF ViewInv, StatsInv
<1>2. CASE Notice
  <2> SUFFICES ASSUME NEW v \in Readers PROVE StatsOK(v)'
    BY DEF StatsInv
  <2>1. CASE view[v].at = "stats_prs" /\ ReviewerRows' # ReviewerRows
    <3>1. /\ view'[v].at = view[v].at /\ view'[v].res = view[v].res
          /\ view'[v].moved = TRUE
      BY <1>1, <1>2, <2>1 DEF Notice, Fields, NoView
    <3> QED
      BY <1>1, <2>1, <3>1 DEF StatsOK
  <2>2. CASE ~(view[v].at = "stats_prs" /\ ReviewerRows' # ReviewerRows)
    <3>1. view'[v] = view[v]
      BY <1>2, <2>2 DEF Notice
    <3> QED
      BY <1>1, <2>2, <3>1 DEF StatsOK, Shown
  <2> QED
    BY <2>1, <2>2
<1>3. CASE Forget
  <2>1. \A v \in Readers : (view'[v] = view[v] /\ view[v].at = "done") \/ view'[v] = NoView
    BY <1>3 DEF Forget
  <2> QED
    BY <1>1, <2>1 DEF StatsInv, StatsOK, Shown, NoView
<1>4. CASE UNCHANGED vars /\ UNCHANGED view
  <2>1. ReviewerRows' = ReviewerRows
    BY <1>4 DEF vars, ReviewerRows
  <2> QED
    BY <1>1, <1>4, <2>1 DEF StatsInv, StatsOK, Shown
<1>5. CASE \E v \in Readers : Read(v) /\ UNCHANGED vars
  BY <1>5, ReadKeepsStats
<1> QED
  BY <1>2, <1>3, <1>4, <1>5 DEF ReportsNext, Terminating, rvars, vars

------------------------------------------------------------------------------
\* The types of the views.

\* The parts of a view that are shown as parts of others.
PartsOK(w) ==
  /\ w \in View
  /\ w.inactive \subseteq w.members
  /\ w.open \subseteq w.list
  /\ \A u \in UserIDs : w.active[u] <= w.perUser[u]

\* Nothing read is consistent.
LEMMA NoViewOK == PartsOK(NoView)
BY DEF NoView, View, PartsOK, Nobody, Nowhere

\* How many there are of a part of a finite table.
LEMMA Counted ==
  ASSUME NEW S, IsFiniteSet(S), NEW T, T \subseteq S
  PROVE  IsFiniteSet(T) /\ Cardinality(T) \in Nat
BY FS_Subset, FS_CardinalityType

\* The fields a query changes keep their types.
LEMMA LastQuery ==
  ASSUME NEW w, PartsOK(w), NEW res \in {"OK", "NOT_FOUND", "INTERNAL_ERROR"}
  PROVE  PartsOK([w EXCEPT !.at = "done", !.res = res])
BY DEF PartsOK, View

LEMMA MembersRead ==
  ASSUME NEW w, PartsOK(w), NEW t \in TeamNames, NEW found \in SUBSET UserIDs,
         NEW off \in SUBSET found, NEW at \in {"team_exists", "done"},
         NEW res \in {"none", "OK"}
  PROVE  PartsOK([w EXCEPT !.kind = "team", !.subject = t, !.members = found,
                           !.inactive = off, !.at = at, !.res = res])
BY DEF PartsOK, View

LEMMA UserRead ==
  ASSUME NEW w, PartsOK(w), NEW u \in UserIDs, NEW at \in {"review_list", "done"},
         NEW res \in {"none", "NOT_FOUND"}
  PROVE  PartsOK([w EXCEPT !.kind = "review", !.subject = u, !.at = at, !.res = res])
BY DEF PartsOK, View

LEMMA ListRead ==
  ASSUME NEW w, PartsOK(w), NEW found \in SUBSET PRIDs, NEW open \in SUBSET found
  PROVE  PartsOK([w EXCEPT !.at = "done", !.res = "OK", !.list = found, !.open = open])
BY DEF PartsOK, View

LEMMA UsersCounted ==
  ASSUME NEW w, PartsOK(w), NEW perUser \in [UserIDs -> Nat],
         NEW active \in [UserIDs -> Nat], \A u \in UserIDs : active[u] <= perUser[u]
  PROVE  PartsOK([w EXCEPT !.kind = "stats", !.at = "stats_prs",
                           !.perUser = perUser, !.active = active])
BY DEF PartsOK, View

LEMMA PRsCounted ==
  ASSUME NEW w, PartsOK(w), NEW perPR \in [PRIDs -> Nat]
  PROVE  PartsOK([w EXCEPT !.at = "done", !.res = "OK", !.perPR = perPR])
BY DEF PartsOK, View

LEMMA RowRead ==
  ASSUME NEW w, PartsOK(w), NEW p \in PRIDs, NEW row \in PRRow, NEW f \in BOOLEAN
  PROVE  PartsOK([w EXCEPT !.kind = "pr", !.subject = p, !.at = "pr_reviewers",
                           !.row = row, !.frozen = f])
BY DEF PartsOK, View

LEMMA ReviewersRead ==
  ASSUME NEW w, PartsOK(w), NEW shown \in SUBSET UserIDs
  PROVE  PartsOK([w EXCEPT !.at = "done", !.res = "OK", !.shown = shown])
BY DEF PartsOK, View

\* Each query leaves a consistent view.
LEMMA ReadKeepsParts ==
  ASSUME IsFiniteSet(UserIDs), IsFiniteSet(PRIDs), TypeOK, ViewInv, ViewTypeOK,
         NEW v \in Readers, Read(v)
  PROVE  ViewTypeOK'
<1> DEFINE w == view[v]
<1>1. view \in [Readers -> View] /\ PartsOK(w)
  BY DEF ViewTypeOK, PartsOK
<1>2. ASSUME NEW new, Shows(v, new), PartsOK(new) PROVE ViewTypeOK'
  BY <1>1, <1>2 DEF Shows, ViewTypeOK, PartsOK
<1>3. CASE TeamMembersQuery(v)
  <2>1. PICK t \in TeamNames :
          LET found == TeamMembers(t, {}) IN
          Shows(v, [NoView EXCEPT !.kind = "team", !.subject = t, !.members = found,
                      !.inactive = {u \in found : ~users[u].active},
                      !.at = IF found = {} THEN "team_exists" ELSE "done",
                      !.res = IF found = {} THEN "none" ELSE "OK"])
    BY <1>3 DEF TeamMembersQuery
  <2> DEFINE found == TeamMembers(t, {})
             off == {u \in found : ~users[u].active}
             at  == IF found = {} THEN "team_exists" ELSE "done"
             res == IF found = {} THEN "none" ELSE "OK"
  <2>2. /\ found \in SUBSET UserIDs /\ off \in SUBSET found
        /\ at \in {"team_exists", "done"} /\ res \in {"none", "OK"}
    BY DEF TeamMembers
  <2> HIDE DEF found, off, at, res
  <2>3. PartsOK([NoView EXCEPT !.kind = "team", !.subject = t, !.members = found,
                               !.inactive = off, !.at = at, !.res = res])
    BY <2>2, NoViewOK, MembersRead
  <2> QED
    BY <1>2, <2>1, <2>3 DEF found, off, at, res
<1>4. CASE UserQuery(v)
  <2>1. PICK u \in UserIDs :
          Shows(v, [NoView EXCEPT !.kind = "review", !.subject = u,
                      !.at = IF users[u] = Null THEN "done" ELSE "review_list",
                      !.res = IF users[u] = Null THEN "NOT_FOUND" ELSE "none"])
    BY <1>4 DEF UserQuery
  <2> DEFINE at  == IF users[u] = Null THEN "done" ELSE "review_list"
             res == IF users[u] = Null THEN "NOT_FOUND" ELSE "none"
  <2>2. at \in {"review_list", "done"} /\ res \in {"none", "NOT_FOUND"}
    OBVIOUS
  <2> HIDE DEF at, res
  <2>3. PartsOK([NoView EXCEPT !.kind = "review", !.subject = u, !.at = at, !.res = res])
    BY <2>2, NoViewOK, UserRead
  <2> QED
    BY <1>2, <2>1, <2>3 DEF at, res
<1>5. CASE StatsUsersQuery(v)
  <2> DEFINE Open(u) == {p \in ReviewsOf(u) : Exists(p) /\ prs[p].status = "OPEN"}
             perUser == [u \in UserIDs |-> Cardinality(ReviewsOf(u))]
             active  == [u \in UserIDs |-> Cardinality(Open(u))]
  <2>1. Shows(v, [NoView EXCEPT !.kind = "stats", !.at = "stats_prs",
                                !.perUser = perUser, !.active = active])
    BY <1>5 DEF StatsUsersQuery
  <2>2. ASSUME NEW u \in UserIDs
        PROVE  perUser[u] \in Nat /\ active[u] \in Nat /\ active[u] <= perUser[u]
    <3>1. ReviewsOf(u) \subseteq PRIDs /\ Open(u) \subseteq ReviewsOf(u)
      BY DEF ReviewsOf
    <3>2. IsFiniteSet(ReviewsOf(u)) /\ Cardinality(ReviewsOf(u)) \in Nat
      BY <3>1, Counted
    <3> HIDE DEF Open
    <3>3. Cardinality(Open(u)) \in Nat /\ Cardinality(Open(u)) <= Cardinality(ReviewsOf(u))
      BY <3>1, <3>2, FS_Subset, FS_CardinalityType
    <3> QED
      BY <3>2, <3>3
  <2>3. perUser \in [UserIDs -> Nat] /\ active \in [UserIDs -> Nat]
    BY <2>2
  <2> HIDE DEF perUser, active
  <2>4. PartsOK([NoView EXCEPT !.kind = "stats", !.at = "stats_prs",
                               !.perUser = perUser, !.active = active])
    BY <2>2, <2>3, NoViewOK, UsersCounted
  <2> QED
    BY <1>2, <2>1, <2>4
<1>6. CASE StatsPRsQuery(v)
  <2> DEFINE perPR == [p \in PRIDs |-> IF Exists(p) THEN Cardinality(reviewers[p]) ELSE 0]
  <2>1. Shows(v, [w EXCEPT !.at = "done", !.res = "OK", !.perPR = perPR])
    BY <1>6 DEF StatsPRsQuery
  <2>2. perPR \in [PRIDs -> Nat]
    <3>1. \A p \in PRIDs : Cardinality(reviewers[p]) \in Nat
      BY Counted DEF TypeOK, ReviewerTable
    <3> QED
      BY <3>1
  <2> HIDE DEF perPR
  <2>3. PartsOK([w EXCEPT !.at = "done", !.res = "OK", !.perPR = perPR])
    BY <1>1, <2>2, PRsCounted
  <2> QED
    BY <1>2, <2>1, <2>3
<1>7. CASE PRRowQuery(v)
  <2>1. PICK p \in PRIDs :
          /\ Exists(p)
          /\ Shows(v, [NoView EXCEPT !.kind = "pr", !.subject = p, !.at = "pr_reviewers",
                                     !.row = prs[p], !.frozen = Frozen(p)])
    BY <1>7 DEF PRRowQuery
  <2> DEFINE row == prs[p]
             f == Frozen(p)
  <2>2. row \in PRRow /\ f \in BOOLEAN
    BY <2>1 DEF TypeOK, PRTable, Exists, Frozen, Merged
  <2> HIDE DEF row, f
  <2>3. PartsOK([NoView EXCEPT !.kind = "pr", !.subject = p, !.at = "pr_reviewers",
                               !.row = row, !.frozen = f])
    BY <2>2, NoViewOK, RowRead
  <2> QED
    BY <1>2, <2>1, <2>3 DEF row, f
<1>8. CASE TeamExistsQuery(v)
  <2> DEFINE res == IF w.subject \in teams THEN "OK" ELSE "NOT_FOUND"
  <2>1. Shows(v, [w EXCEPT !.at = "done", !.res = res])
    BY <1>8 DEF TeamExistsQuery
  <2>2. res \in {"OK", "NOT_FOUND"}
    OBVIOUS
  <2> HIDE DEF res
  <2> QED
    BY <1>1, <1>2, <2>1, <2>2, LastQuery
<1>9. CASE ReviewListQuery(v)
  <2> DEFINE found == {p \in PRIDs : Exists(p) /\ w.subject \in reviewers[p]}
             open  == {p \in found : prs[p].status = "OPEN"}
  <2>1. Shows(v, [w EXCEPT !.at = "done", !.res = "OK", !.list = found, !.open = open])
    BY <1>9 DEF ReviewListQuery
  <2>2. found \in SUBSET PRIDs /\ open \in SUBSET found
    OBVIOUS
  <2> HIDE DEF found, open
  <2> QED
    BY <1>1, <1>2, <2>1, <2>2, ListRead
<1>10. CASE PRReviewersQuery(v)
  <2> DEFINE shown == reviewers[w.subject]
  <2>1. Shows(v, [w EXCEPT !.at = "done", !.res = "OK", !.shown = shown])
    BY <1>10 DEF PRReviewersQuery
  <2>2. w.subject \in PRIDs
    BY <1>10 DEF PRReviewersQuery, ViewInv, Stage, RowStillThere
  <2>3. shown \in SUBSET UserIDs
    BY <2>2 DEF TypeOK, ReviewerTable
  <2> HIDE DEF shown
  <2> QED
    BY <1>1, <1>2, <2>1, <2>3, ReviewersRead
<1>11. CASE QueryError(v)
  <2>1. Shows(v, [w EXCEPT !.at = "done", !.res = "INTERNAL_ERROR"])
    BY <1>11 DEF QueryError
  <2> QED
    BY <1>1, <1>2, <2>1, LastQuery
<1> QED
  BY <1>3, <1>4, <1>5, <1>6, <1>7, <1>8, <1>9, <1>10, <1>11 DEF Read

LEMMA ViewTypeNext ==
  ASSUME IsFiniteSet(UserIDs), IsFiniteSet(PRIDs), TypeOK, ViewInv, ViewTypeOK,
         [ReportsNext]_rvars
  PROVE  ViewTypeOK'
<1>1. view \in [Readers -> View] /\ \A v \in Readers : PartsOK(view[v])
  BY DEF ViewTypeOK, PartsOK
<1>2. ASSUME view' = [v \in Readers |-> view'[v]], \A v \in Readers : PartsOK(view'[v])
      PROVE  ViewTypeOK'
  BY <1>2 DEF ViewTypeOK, PartsOK
<1>3. CASE Notice
  <2>1. ASSUME NEW w, PartsOK(w) PROVE PartsOK([w EXCEPT !.moved = TRUE])
    BY <2>1 DEF PartsOK, View
  <2> QED
    BY <1>1, <1>2, <1>3, <2>1 DEF Notice
<1>4. CASE Forget
  BY <1>1, <1>2, <1>4, NoViewOK DEF Forget
<1>5. CASE UNCHANGED view
  BY <1>5 DEF ViewTypeOK
<1>6. CASE \E v \in Readers : Read(v) /\ UNCHANGED vars
  BY <1>6, ReadKeepsParts
<1> QED
  BY <1>3, <1>4, <1>5, <1>6 DEF ReportsNext, rvars

------------------------------------------------------------------------------

\* The two queries of FetchAssignmentStats, left joins that start from the users and
\* from the PRs, count the same rows of pull_request_reviewers: the totals differ only
\* when the number of rows has changed in between.
THEOREM StatisticsAgree ==
  ASSUME IsFiniteSet(UserIDs), IsFiniteSet(PRIDs)
  PROVE  ReportsSpec => []StatsAgree
<1>1. IInv /\ MergeInv /\ ViewInv /\ StatsInv /\ [ReportsNext]_rvars => StatsInv'
  BY StatsInvNext
<1>2. StatsInv => StatsAgree
  BY DEF StatsInv, StatsOK, StatsAgree
<1> QED
  BY <1>1, <1>2, InitStats, ViewInvariant, PTL DEF ReportsSpec

\* The views have their types, and what a report shows as a part is no more than the
\* whole: inactive members, open PRs of a list, and reviews of open PRs.
THEOREM ViewsConsistent ==
  ASSUME IsFiniteSet(UserIDs), IsFiniteSet(PRIDs)
  PROVE  ReportsSpec => []ViewTypeOK
<1>1. ReportsInit => ViewTypeOK
  BY NoViewOK DEF ReportsInit, ViewTypeOK, PartsOK
<1>2. IInv /\ MergeInv /\ ViewInv /\ ViewTypeOK /\ [ReportsNext]_rvars => ViewTypeOK'
  BY ViewTypeNext DEF IInv
<1> QED
  BY <1>1, <1>2, ViewInvariant, PTL DEF ReportsSpec
==============================================================================
