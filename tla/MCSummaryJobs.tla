--------------------------- MODULE MCSummaryJobs ----------------------------
(***************************************************************************)
(* SummaryJobs on small instances.  Workers are interchangeable, which the *)
(* runs that check no liveness make use of.                                *)
(***************************************************************************)
EXTENDS SummaryJobs, TLC

Symmetry == Permutations(Workers)

=============================================================================
