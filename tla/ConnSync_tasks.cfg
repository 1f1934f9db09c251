\* The background tasks with, in turn, an own expiry, an HTTP deletion, a call
\* of add_days and a second connection beside them; one fault.
SPECIFICATION Spec
CONSTANTS
  c1 = c1
  c2 = c2
  s1 = s1
  Conns = {c1, c2}
  Subs = {s1}
  NoSub = NoSub
  SubOf <- MCSubOf
  Expiring = {c1}
  HttpDeleters = {h1}
  ConnCleaner = cleanConns
  SubCleaner = cleanSubs
  RestoreTask = restorer
  Extenders = {e1}
  MaxFaults = 1
CONSTRAINT MCOneBeside
INVARIANT NothingWithoutRow
INVARIANT NoOrphanInCache
PROPERTY ZombieOrigin
