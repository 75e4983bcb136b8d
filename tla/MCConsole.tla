------------------------------- MODULE MCConsole -------------------------------
(***************************************************************************)
(* A small instance of Console for TLC: personas of two tenants, a page,    *)
(* and other surfaces on the same store.                                   *)
(***************************************************************************)
EXTENDS Console, TLC

CONSTANTS bankA, bankB, analyst, other

MCPersonaTenant == analyst :> bankA @@ other :> bankB
=============================================================================
