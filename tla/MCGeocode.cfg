SPECIFICATION LookUpSpec
CONSTANTS
  MaxChanges = 8
INVARIANTS
  FlagTellsLookUp
PROPERTIES
  LabelNeverGoesBack
