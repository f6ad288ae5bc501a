------------------------------ MODULE MCReports ------------------------------
(***************************************************************************)
(* An instance of Reports for TLC.                                         *)
(***************************************************************************)
EXTENDS MCReviewService, Reports

CONSTANTS v1, v2

\* One goroutine merges, the other reassigns.
TrafficForReports == [r \in Requests |-> IF r = r1 THEN {"merge"} ELSE {"reassign"}]

SymmetricReaders == Permutations(Readers)
==============================================================================
