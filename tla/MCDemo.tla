-------------------------------- MODULE MCDemo --------------------------------
(***************************************************************************)
(* A small instance of Demo for TLC: two runs, two clicks on the page, two *)
(* steps that raise, and a presenter who types the first step, one in the  *)
(* middle or one beyond the last.                                          *)
(***************************************************************************)
EXTENDS Demo

MCNumbers == {1, 5, 9}
=============================================================================
