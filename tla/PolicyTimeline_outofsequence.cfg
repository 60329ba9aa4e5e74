SPECIFICATION Spec
CONSTANTS
  limit = limit
  deductible = deductible
  Field = {limit, deductible}
  Value = {0, 1}
  Premium <- Premiums
  FirstPayload <- AsWritten
  Term = 3
  Earliest <- DayBefore
  MaxVersions = 4
INVARIANTS SegmentsCoverTheTerm LaterDateGoverns AdjustmentsAddUp
PROPERTY PastIsUntouched
CHECK_DEADLOCK FALSE
