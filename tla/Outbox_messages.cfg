SPECIFICATION FairSpec
CONSTANTS
  Dispatcher = {d1, d2}
  NoMessage = NoMessage
  Messages = 2
  MaxAttempts = 2
  BatchSize = 2
  MaxFaults = 2
INVARIANTS NeverLost RepeatsAccounted
PROPERTIES OutcomeIsFinal MessagesEnd
CHECK_DEADLOCK FALSE
