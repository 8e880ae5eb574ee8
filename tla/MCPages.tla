------------------------------ MODULE MCPages ------------------------------
(***************************************************************************)
(* An instance of Pages for TLC: two days of one month and one of the next.*)
(***************************************************************************)
EXTENDS Pages

TheMonth == <<1, 1, 2>>
=============================================================================
