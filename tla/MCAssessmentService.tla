------------------------- MODULE MCAssessmentService -------------------------
(***************************************************************************)
(* Small instances of AssessmentService for TLC: two calls that may share  *)
(* an id or not, one result that needs review and one that does not.       *)
(***************************************************************************)
EXTENDS AssessmentService, TLC

Calls == Permutations(Call)
=============================================================================
