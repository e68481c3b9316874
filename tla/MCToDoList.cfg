SPECIFICATION ListSpec
CONSTANTS
  i1 = i1
  i2 = i2
  i3 = i3
  Items <- ThreeItems
  Titles = {t1, t2}
  Texts = {}
  Dates = {1, 2, 3}
  PickerDefault = 1
  Blank = Blank
  Absent = Absent
  NoItem = NoItem
SYMMETRY ItemSymmetry
INVARIANTS
  ListTypeOK
  RowsMirrorContext
PROPERTIES
  TapOpensWhatIsShown
