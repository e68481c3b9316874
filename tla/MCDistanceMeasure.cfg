SPECIFICATION Spec
CONSTANTS
  Slots = {end1, end2, end3}
  Requests = {r1, r2}
  Distances = {near, far}
  Unknown = Unknown
  Untouched = Untouched
  NoRequest = NoRequest
INVARIANTS
  TypeOK
  OneRequestInFlight
PROPERTIES
  AnswersAreComplete
  ImplementsCalculation
