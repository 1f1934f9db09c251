\* One node that starts in one of two environments, twice; two faults.
SPECIFICATION FairRegistrySpec
CONSTANTS
  n1 = n1
  e1 = e1
  e2 = e2
  t1 = t1
  Nodes = {n1}
  Envs = {e1, e2}
  InboundTags = {t1}
  MaxStarts = 2
  MaxFaults = 2
INVARIANT CacheWithinRows
INVARIANT RegisteredRow
PROPERTY EventuallyRegistered
PROPERTY CacheSettles
