SPECIFICATION Spec
CONSTANTS
  Requests = {r1, r2}
  Amounts = {a1, a2}
  Currencies = {Dollar, JPY, GBP, ISK}
  Snapshot = {Dollar, JPY, GBP}
  USD = Dollar
  OnScreen = {JPY, GBP}
  Nothing = Nothing
INVARIANT FakedIfItFails
