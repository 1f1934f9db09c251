\* An HTTP deletion beside the background tasks, no fault.
SPECIFICATION Spec
CONSTANTS
  c1 = c1
  c2 = c2
  s1 = s1
  Conns = {c1}
  Subs = {s1}
  NoSub = NoSub
  SubOf <- MCSubOf
  Expiring = {}
  HttpDeleters = {h1}
  ConnCleaner = cleanConns
  SubCleaner = cleanSubs
  RestoreTask = restorer
  Extenders = {}
  MaxFaults = 0
INVARIANT RevokedStaysDeleted
