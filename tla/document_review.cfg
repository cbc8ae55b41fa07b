SPECIFICATION Spec
CONSTANTS
  Readings <- MCReadings
  Levels = {700, 900}
  MaxFields = 2
  NaN = NaN
  None = None
INVARIANTS TypeOK ValidatedIsSound ReviewHasReason CopiesDifferOnlyThere
