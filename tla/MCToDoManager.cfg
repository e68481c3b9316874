SPECIFICATION Spec
CONSTANTS
  i1 = i1
  i2 = i2
  Items <- TwoItems
  Titles = {t1, t2}
  Texts = {c1}
  Dates = {1, 2}
  PickerDefault = 1
  Blank = Blank
  Absent = Absent
  NoItem = NoItem
SYMMETRY ItemSymmetry
INVARIANTS
  TypeOK
  OnlyInsertPending
  TrashedStayGone
  LeavingIsSaved
  FieldsFollowEntity
PROPERTIES
  CrashNeedsBlankTitle
  ImplementsDurableItems
