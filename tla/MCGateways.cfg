CONSTANTS
  g = g  a = a  b = b  Null = Null  Stray = Stray
  Node = {g, a, b}
  Gateway = {g, b}
  Link <- Links
  Cost <- Costs
  Least <- Leasts
  Limit = 4
  NetDiameter = 4
  MaxId <- Numbers
  MaxRestarts = 1
SPECIFICATION Spec
INVARIANTS NoneComesBack FloodFindsLeast DefaultListed
CHECK_DEADLOCK FALSE
