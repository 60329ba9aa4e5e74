SPECIFICATION Spec
CONSTANTS
  limit = limit
  deductible = deductible
  Field = {limit, deductible}
  Value = {0, 1}
  Premium <- Premiums
  FirstPayload <- AsWritten
  Term = 3
  Earliest = 0
  MaxVersions = 3
INVARIANT ChangesGovern
CHECK_DEADLOCK FALSE
