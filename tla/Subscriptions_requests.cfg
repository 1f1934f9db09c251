\* Two workers, a key, two subscriptions, one fault.
SPECIFICATION SubsSpec
CONSTANTS
  r1 = r1
  r2 = r2
  s1 = s1
  s2 = s2
  c1 = c1
  user = user
  web = web
  NoCode = NoCode
  NoKey = NoKey
  NoSub = NoSub
  Subs = {s1, s2}
  Callers = {r1, r2}
  Keys = {c1}
  DaysOf <- MCDaysOf
  Codes = {user, web}
  System = {web}
  CodeOf <- MCCodeOf
  Bonus = 1
  Grants = {0, 1}
  Shifts <- MCShifts
  MaxNow = 2
  MaxDate = 3
  MaxFaults = 1
CONSTRAINT MCBudget
SYMMETRY MCSymmetry
INVARIANT RowMatchesLedger
INVARIANT CacheMatchesRow
INVARIANT KeyOnce
INVARIANT UsedMeansPaid
INVARIANT OwnerStays
INVARIANT BonusLedger
