SPECIFICATION Spec
CONSTANTS
  m = m
  x = x
  y = y
  User = {m, x, y}
  Release = {r1}
  Session = {s1, s2}
  Nobody = Nobody
  Tech = Tech
  Automation = Automation
  InitialRoles <- RolesAtFirst
  Lifetime = 1
  Cooldown = 1
  MaxClock = 1
  MaxSaves = 1
  MaxReceipts = 3
  MaxLists = 1
SYMMETRY Reviewers
INVARIANTS FourEyes StoppedDoesNotRun
PROPERTIES StoppedForGood
