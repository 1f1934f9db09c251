\* Typed key codes, forms of connections, and WireGuard addresses of 4 bits.
SPECIFICATION MCSpec
CONSTANTS
  Invalid = Invalid
  Randoms <- MCRandoms
  Days <- MCDays
  Distributors <- MCDistributors
  Sign <- MCSign
  Slips <- MCSlips
  MaxSlips = 1
  Builtin = {"dev", "experimental"}
  Default = "experimental"
  LowerOf <- MCLowerOf
  Texts <- MCTexts
  NodeTexts <- MCTexts
  c1 = c1
  c2 = c2
  c3 = c3
  Conns = {c1, c2, c3}
  Width = 4
  MaxFaults = 1
SYMMETRY MCSymmetry
INVARIANT CodeExact
INVARIANT HandlersAgree
INVARIANT RowIsFaithful
INVARIANT ServedByItsEnv
INVARIANT UniqueAddr
INVARIANT PeerRange
