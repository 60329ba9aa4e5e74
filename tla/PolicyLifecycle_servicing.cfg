SPECIFICATION FairSpec
CONSTANTS
  Client = {c1, c2}
  NoClient = NoClient
  MaxRequests = 3
INVARIANTS TypeOK TimelineIsDense HistoryIsLinear IssuedOnce
PROPERTIES AcceptedVersionIsCurrent ImplementsLedger RequestsEnd
CHECK_DEADLOCK FALSE
