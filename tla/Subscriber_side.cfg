\* What a subscriber with two connections is shown of two nodes in two environments.
\* Trials: two requests at a time, for an email address and a user name.  At the end
\* nobody asks any more, and the API is idle.
CHECK_DEADLOCK FALSE
SPECIFICATION MCSpec
CONSTANTS
  c1 = c1
  c2 = c2
  n1 = n1
  n2 = n2
  e1 = e1
  e2 = e2
  NoLink = NoLink
  Absent = Absent
  Conns = {c1, c2}
  MaxInbounds = 1
  Nodes = {n1, n2}
  Envs = {e1, e2}
  TagsInUse <- MCTags
  Inbounds <- MCInbounds
  p1 = p1
  p2 = p2
  r1 = r1
  r2 = r2
  Nobody = Nobody
  People = {p1, p2}
  Emails = {p1}
  Requests = {r1, r2}
  Slots = 2
  MaxAsked = 5
  MaxFaults = 3
SYMMETRY MCSymmetry
INVARIANT PageMatchesLinks
INVARIANT ClashAgrees
INVARIANT OneTrial
INVARIANT RefusedMeansGranted
INVARIANT Remembered
PROPERTY AdditionsKeepLinks
