----------------------------- MODULE SortTable -----------------------------
(***************************************************************************)
(* The TableViewDemo app: a mutable array of strings and the table that    *)
(* shows it.  Add appends a string and inserts its row; Sort exchanges     *)
(* neighbours in place, each exchange with a row move of its own, inside   *)
(* one handler on the main thread.  Positions start at 1, where the code's *)
(* start at 0.                                                             *)
(***************************************************************************)
EXTENDS Naturals, SequencesExt

CONSTANTS
  Strings,       \* strings, as numbers in the order of compare:
  FirstStrings,  \* the two strings of viewDidLoad
  MaxRows        \* bound: Add is not tapped on a longer table

ASSUME StringsAssumption ==
  /\ Strings \subseteq Nat
  /\ FirstStrings \in Seq(Strings) /\ Len(FirstStrings) = 2
  /\ MaxRows \in Nat

VARIABLES
  ourStrings,
  cells,     \* what the rows of the table show
  i, j,      \* the variables of the two loops, i = 0 outside the handler
  given      \* history: the array when Sort was tapped, if nothing was
             \* added since

vars == <<ourStrings, cells, i, j, given>>

Sorting == i > 0
LastPair == Len(ourStrings) - 1

TypeOK ==
  /\ ourStrings \in Seq(Strings)
  /\ cells \in Seq(Strings)
  /\ i \in 0..LastPair
  /\ Sorting => j \in i..LastPair
  /\ given \in Seq(Strings)

Init ==
  /\ ourStrings = FirstStrings
  /\ cells = FirstStrings
  /\ i = 0 /\ j = 0
  /\ given = <<>>

(* Mutant: the row is inserted before the last one. *)
InsertBeforeLast(row) == InsertAt(cells, row - 1, ourStrings'[row])

(* insertRowsAtIndexPaths: the table asks for the one new cell.            *)
InsertRow(row) == InsertAt(cells, row, ourStrings'[row])

AddButtonTapped(s) ==
  /\ ~Sorting
  /\ Len(ourStrings) < MaxRows
  /\ ourStrings' = Append(ourStrings, s)
  /\ cells' = InsertRow(Len(ourStrings'))
  /\ given' = <<>>
  /\ UNCHANGED <<i, j>>

(* Mutant: the outer loop starts one position too low. *)
SortFromThirdLast ==
  /\ ~Sorting
  /\ i' = LastPair - 1 /\ j' = LastPair - 1
  /\ given' = ourStrings
  /\ UNCHANGED <<ourStrings, cells>>

(* sortButtonTapped up to its first comparison: i starts at count - 2.     *)
SortButtonTapped ==
  /\ ~Sorting
  /\ i' = LastPair /\ j' = LastPair
  /\ given' = ourStrings
  /\ UNCHANGED <<ourStrings, cells>>

(* The two loops: the inner one ends with j at count - 2.  Mutants: it     *)
(* goes on to count - 1, or starts over without the outer one's i--.       *)
AdvanceTooFar ==
  IF j < LastPair + 1 THEN j' = j + 1 /\ UNCHANGED i ELSE i' = i - 1 /\ j' = i - 1
AdvanceInnerOnly ==
  IF j < LastPair THEN j' = j + 1 /\ UNCHANGED i ELSE j' = i /\ UNCHANGED i
Advance ==
  IF j < LastPair THEN j' = j + 1 /\ UNCHANGED i ELSE i' = i - 1 /\ j' = i - 1

Exchanged == [ourStrings EXCEPT ![j] = ourStrings[j + 1], ![j + 1] = ourStrings[j]]

(* moveRowAtIndexPath moves the cell, its text unchanged.                  *)
MoveRow(from, to) == InsertAt(RemoveAt(cells, from), to, cells[from])

(* One turn of the inner loop.                                             *)
ComparePair ==
  /\ Sorting
  /\ IF ourStrings[j] > ourStrings[j + 1]
     THEN ourStrings' = Exchanged /\ cells' = MoveRow(j, j + 1)
     ELSE UNCHANGED <<ourStrings, cells>>
  /\ Advance
  /\ UNCHANGED given

Next ==
  \/ \E s \in Strings : AddButtonTapped(s)
  \/ SortButtonTapped
  \/ ComparePair

(* The handler runs to its end on the main thread.                         *)
Spec == Init /\ [][Next]_vars /\ WF_vars(ComparePair)

----------------------------------------------------------------------------
SortedOn(S) == \A p, q \in S : p < q => ourStrings[p] <= ourStrings[q]

(* When the handler of Sort is done, the whole array is in order and it is *)
(* the array Sort was given, nothing lost and nothing doubled: the loops,  *)
(* whose outer one runs down, reach every pair they have to.               *)
SortSorts ==
  ~Sorting /\ given # <<>> =>
    SortedOn(DOMAIN ourStrings) /\ ToBag(ourStrings) = ToBag(given)

(* Row by row the table shows the array, between any two of the edits too: *)
(* the single inserts and moves are never out of step with the data source.*)
RowsShowStrings == cells = ourStrings

(* The two loops end, on every array: the main thread is not lost.         *)
SortEnds == Sorting ~> ~Sorting
=============================================================================
