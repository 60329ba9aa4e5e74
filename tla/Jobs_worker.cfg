SPECIFICATION JobsSpec
CONSTANTS
  a = a
  b = b
  c = c
  d = d
  Worker = {w1, w2}
  Run = {r1, r2, r3}
  NoRun = NoRun
  Unhandled = {r3}
  MaxAttempts = 2
  BatchSize = 2
  MaxFaults = 2
  Process = {w1, w2}
  Schedule = {a, b, c, d}
  Interval <- Intervals
  FirstRun <- FirstRuns
  Limit = 2
  MaxDate = 20
  MaxTime = 6
  MaxAborts = 1
INVARIANTS OneExecutor NoLimbo AttemptsKept RecordedIsFinal OccurrencesKept
PROPERTIES RunsEnd MovesPastTheTick ServedUnlessHeld
CHECK_DEADLOCK FALSE
