SPECIFICATION ChoresSpec
CONSTANTS
  Chores = {c1, c2}
  Persons = {p1, p2, p3}
INVARIANTS
  RollersMirrorDisk
PROPERTIES
  PersonsGoLast
