\* Liveness: one connection, the background tasks, calls of add_days or one fault.
SPECIFICATION MCLiveSpec
CONSTANTS
  c1 = c1
  c2 = c2
  s1 = s1
  Conns = {c1}
  Subs = {s1}
  NoSub = NoSub
  SubOf <- MCSubOf
  Expiring = {}
  HttpDeleters = {}
  ConnCleaner = cleanConns
  SubCleaner = cleanSubs
  RestoreTask = restorer
  Extenders = {ext}
  MaxFaults = 1
PROPERTY ExpiredSubCutOff
PROPERTY ActiveSubServed
