--------------------------- MODULE MCToDoManager ---------------------------
(* A small instance: two items, two dates, one title and one comment.      *)
EXTENDS ToDoManager, TLC

CONSTANTS i1, i2

TwoItems == {i1, i2}
ItemSymmetry == Permutations(TwoItems)
============================================================================
