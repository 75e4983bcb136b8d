------------------------------ MODULE MCNarration ------------------------------
(***************************************************************************)
(* Small instances of Narration for TLC: two families, measurements of     *)
(* either sign, bodies that mention one with its sign and one with the     *)
(* other, and tenants with and without digits.                             *)
(***************************************************************************)
EXTENDS Narration, TLC

MCMeasurements == {{5, -2}}
MCTenantFigures == {{}, {7}}
MCHeadlines == {{97}}
MCBodies == {{1}, {-2}, {-5}, {5, 97}}
Families == Permutations(Family)
=============================================================================
