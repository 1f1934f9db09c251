\* A heartbeat, an inbound, a user and a WireGuard peer; every counter is measured twice.
SPECIFICATION MCSpec
CONSTANTS
  System <- MCSystem
  Inbounds = {i1}
  Users = {u1}
  Peers = {w1}
  MaxTraffic = 1
  MaxWritten = 6
  MaxMishaps = 1
INVARIANT OnceInOrder
INVARIANT FallsExplained
PROPERTY EventuallyOut
