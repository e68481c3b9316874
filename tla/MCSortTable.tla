---------------------------- MODULE MCSortTable ----------------------------
(* Tables of up to five rows over four strings, with equal ones.           *)
EXTENDS SortTable
MCFirstStrings == <<1, 2>>   \* "The first row", "The second row"
=============================================================================
