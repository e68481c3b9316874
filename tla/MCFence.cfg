SPECIFICATION Spec
CONSTANTS
  Places = {p1, p2}
  NullIsland = NullIsland
INVARIANTS
  GrantEnables
  OnlyLeftBehind
  MapFollowsFix
