\* Overlapping operations on one token; two tokens that share messages and the snapshot.
SPECIFICATION MCSpec
CONSTANTS
  c1 = c1
  c2 = c2
  w1 = w1
  w2 = w2
  Conns = {c1, c2}
  Workers = {w1, w2}
  MaxQueue = 2
PROPERTY MissedOrigin
PROPERTY LingersOrigin
PROPERTY ImplementsRegister
PROPERTY EventuallyAccepted
