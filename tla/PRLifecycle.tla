----------------------------- MODULE PRLifecycle -----------------------------
(***************************************************************************)
(* What the service promises of pull requests, however its requests are    *)
(* interleaved and whatever fails: a PR is opened once, merged once, and   *)
(* its reviewers change by replacements that were admitted while it was    *)
(* open, one change for one admission.  ReviewService implements it        *)
(* (ReviewProperties!ImplementsLifecycle).                                  *)
(***************************************************************************)
EXTENDS Naturals, FiniteSets

CONSTANTS UserIDs, PRIDs, Requests, Null,
          InitialRows, InitialReviewers

VARIABLES
  rows,       \* the row of each PR, Null as long as there is none
  reviewers,  \* its reviewers
  admitted    \* the requests that may still replace one of them

lvars == <<rows, reviewers, admitted>>

Init ==
  /\ rows = InitialRows
  /\ reviewers = InitialReviewers
  /\ admitted = [p \in PRIDs |-> {}]

\* A PR appears, open, with at most two reviewers other than its author.
Open(p) ==
  /\ rows[p] = Null
  /\ \E author \in UserIDs, S \in SUBSET UserIDs :
       /\ author \notin S
       /\ Cardinality(S) <= 2
       /\ rows' = [rows EXCEPT ![p] = [status |-> "OPEN", author |-> author, mergedAt |-> 0]]
       /\ reviewers' = [reviewers EXCEPT ![p] = S]
  /\ UNCHANGED admitted

\* An open PR is merged, at a time left open (any but 0).
Merge(p) ==
  /\ rows[p] # Null
  /\ rows[p].status = "OPEN"
  /\ rows'[p].mergedAt # 0
  /\ rows' = [rows EXCEPT ![p] = [@ EXCEPT !.status = "MERGED",
                                           !.mergedAt = rows'[p].mergedAt]]
  /\ UNCHANGED <<reviewers, admitted>>

\* A request may replace a reviewer of an open PR.
Admit(p, r) ==
  /\ rows[p] # Null
  /\ rows[p].status = "OPEN"
  /\ admitted' = [admitted EXCEPT ![p] = @ \cup {r}]
  /\ UNCHANGED <<rows, reviewers>>

\* It does, once, even if the PR is MERGED by then.  The reviewer it was to
\* replace may be gone (nobody leaves), there may be no candidate (nobody joins).
Replace(p, r) ==
  /\ r \in admitted[p]
  /\ admitted' = [admitted EXCEPT ![p] = @ \ {r}]
  /\ \E leaves \in {{}} \cup {{u} : u \in reviewers[p]},
        joins \in SUBSET (UserIDs \ ({rows[p].author} \cup reviewers[p])) :
       /\ Cardinality(joins) <= 1
       /\ reviewers' = [reviewers EXCEPT ![p] = (@ \ leaves) \cup joins]
  /\ UNCHANGED rows

\* Requests fail, one, or all of them when the process dies.
Withdraw ==
  /\ admitted' \in [PRIDs -> SUBSET Requests]
  /\ \A p \in PRIDs : admitted'[p] \subseteq admitted[p]
  /\ UNCHANGED <<rows, reviewers>>

Next ==
  \/ \E p \in PRIDs : Open(p) \/ Merge(p)
  \/ \E p \in PRIDs, r \in Requests : Admit(p, r) \/ Replace(p, r)
  \/ Withdraw

Spec == Init /\ [][Next]_lvars
==============================================================================
