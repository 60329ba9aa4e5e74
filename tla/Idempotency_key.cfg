SPECIFICATION FairSpec
CONSTANTS
  Attempt = {a1, a2, a3}
  NoAttempt = NoAttempt
  Body = {"b1", "b2"}
  MaxFaults = 2
INVARIANTS ExecutedOnce OneAnswer
PROPERTIES KeyIsReleased
CHECK_DEADLOCK FALSE
