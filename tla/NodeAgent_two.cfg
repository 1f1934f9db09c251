\* A WireGuard and an Xray connection, one fault.
SPECIFICATION MCSpec
CONSTANTS
  w1 = w1
  x1 = x1
  WgConns = {w1}
  XrayConns = {x1}
  MaxQueue = 1
  MaxFaults = 1
INVARIANT ServedOrOwed
PROPERTY StaleOrigin
PROPERTY EventuallyServed
