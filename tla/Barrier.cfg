CONSTANTS
  s1 = s1  s2 = s2  t1 = t1  t2 = t2  b1 = b1  b2 = b2
  Order <- TwoShards
  Catalog = catalog
  None = None
  Runs = {b1, b2}
  Txns = {t1, t2}
  Plans <- Writing
  Claimable = {}
SPECIFICATION Spec
SYMMETRY AnyRun
INVARIANTS ConsistentCut CertifiedRestorable
CHECK_DEADLOCK FALSE
