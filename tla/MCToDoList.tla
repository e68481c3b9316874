----------------------------- MODULE MCToDoList -----------------------------
(* Three items make every order of two rows around a third one possible.   *)
EXTENDS ToDoList

CONSTANTS i1, i2, i3

ThreeItems == {i1, i2, i3}
ItemSymmetry == Permutations(ThreeItems)
=============================================================================
