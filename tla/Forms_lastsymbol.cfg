\* The instance of Forms_values.cfg, which has a key whose code ends in U.
SPECIFICATION MCSpec
CONSTANTS
  Invalid = Invalid
  Randoms <- MCRandoms
  Days <- MCDays
  Distributors <- MCDistributors
  Sign <- MCSign
  Slips <- MCSlips
  MaxSlips = 1
  Builtin = {"dev", "experimental"}
  Default = "experimental"
  LowerOf <- MCLowerOf
  Texts <- MCTexts
  NodeTexts <- MCTexts
  c1 = c1
  c2 = c2
  c3 = c3
  Conns = {c1, c2, c3}
  Width = 4
  MaxFaults = 1
SYMMETRY MCSymmetry
INVARIANT TamperedFails
