---------------------------- MODULE MCAdminForms ----------------------------
(***************************************************************************)
(* Instances of AdminForms for TLC: the bounds are the program's, and the  *)
(* number fields hold a plain value or the first one out of bounds.        *)
(***************************************************************************)
EXTENDS AdminForms, TLC

TheFirst == [daily |-> 10, youtube |-> TRUE]

TheSettings == {TheFirst, [daily |-> 20, youtube |-> FALSE], [daily |-> 0, youtube |-> TRUE]}

RequestSymmetry == Permutations(Requests) \cup Permutations(Edits)
=============================================================================
