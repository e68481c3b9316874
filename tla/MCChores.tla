------------------------------ MODULE MCChores ------------------------------
(* More persons than chores, so that a row of one roller can lie beyond    *)
(* the other.                                                              *)
EXTENDS Chores
=============================================================================
