------------------------------ MODULE MCPanel ------------------------------
(***************************************************************************)
(* The tabs of an instance of Panel are alike.                             *)
(***************************************************************************)
EXTENDS Panel, TLC

TabSymmetry == Permutations(Tabs)
=============================================================================
