---------------------------- MODULE DurableItems ----------------------------
(***************************************************************************)
(* What the ToDoManager app promises about its disk, with no screen, no    *)
(* field and no context: complete items are put one at a time, an item     *)
(* thrown away is gone for good, and nothing else happens, in whatever     *)
(* order the user, the callbacks and the crashes come.                     *)
(***************************************************************************)
CONSTANTS Items, Complete, Absent

VARIABLES rows, gone

vars == <<rows, gone>>

Init ==
  /\ rows = [i \in Items |-> Absent]
  /\ gone = {}

Put(i, row) ==
  /\ i \notin gone
  /\ rows' = [rows EXCEPT ![i] = row]
  /\ UNCHANGED gone

Discard(i) ==
  /\ i \notin gone
  /\ rows' = [rows EXCEPT ![i] = Absent]
  /\ gone' = gone \cup {i}

Next == \E i \in Items : Discard(i) \/ \E row \in Complete : Put(i, row)

Spec == Init /\ [][Next]_vars
=============================================================================
