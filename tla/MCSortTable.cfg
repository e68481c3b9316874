SPECIFICATION Spec
CONSTANTS
  Strings = {0, 1, 2, 3}
  FirstStrings <- MCFirstStrings
  MaxRows = 5
INVARIANTS
  TypeOK
  SortSorts
  RowsShowStrings
PROPERTIES
  SortEnds
