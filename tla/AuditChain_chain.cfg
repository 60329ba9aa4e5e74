SPECIFICATION ChainSpec
CONSTANTS
  Writer = {w1, w2, w3}
  Carrier = {k1, k2}
  Nobody = Nobody
  MaxInserts = 4
  MaxClock = 2
SYMMETRY Interchangeable
INVARIANTS ChainIntact TrailIsChronological
