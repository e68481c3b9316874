SPECIFICATION Spec
CONSTANTS
  MaxSamples = 3
INVARIANTS
  LostOnlyIfRaced
  NumbersNoOlderThanImage
PROPERTIES
  ScreenCatchesUp
