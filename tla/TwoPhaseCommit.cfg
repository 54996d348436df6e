CONSTANTS
  t1 = t1  s1 = s1  s2 = s2  loop = loop  other = other
  Txns = {t1}
  Shards = {s1, s2}
  Writers <- Writers2
  Lead <- LeadS1
  Resolvers = {loop, other}
  Scope <- SetPass
  MaxFaults = 1
SPECIFICATION FairSpec
INVARIANTS Atomic CommitRowOutlivesHolders
PROPERTIES ImplementsAtomicCommit Settles
