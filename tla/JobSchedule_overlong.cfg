SPECIFICATION SchedSpec
CONSTANTS
  a = a
  b = b
  c = c
  d = d
  Process = {x, y}
  Schedule = {a, b, c, d}
  Interval <- Intervals
  FirstRun <- FirstRuns
  Limit = 2
  MaxDate = 20
  MaxTime = 6
  MaxAborts = 1
PROPERTY DueIsServed
