\* Two nodes report one series, and two collections may overlap.
SPECIFICATION FairSpec
CONSTANTS
  n1 = n1
  n2 = n2
  s1 = s1
  t1 = t1
  t2 = t2
  Senders = {n1, n2}
  Series = {s1}
  Tags = {t1, t2}
  TagsOf <- MCTagsOf
  Collectors = {g1, g2}
  MaxPoints = 1
  Retention = 1
  MaxLag = 0
INVARIANT TypeOK
INVARIANT PointsFindable
PROPERTY Forgotten
