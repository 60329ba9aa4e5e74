SPECIFICATION FairSpec
CONSTANTS
  Product = {p1, p2}
  Value = {v1}
  Blank = Blank
  MaxReads = 2
  MaxFaults = 1
INVARIANTS QuoteAsConfirmed
PROPERTIES NoDecisionLost ClosedForGood ReadingEnds
CHECK_DEADLOCK FALSE
