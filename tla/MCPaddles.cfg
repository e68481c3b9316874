SPECIFICATION Spec
CONSTANTS
  Fingers = {f1, f2}
  None = None
  MaxY = 2
  MaxDoublings = 2
INVARIANTS
  OneFingerOnePaddle
  HeadsForFinger
PROPERTIES
  ReachesFinger
