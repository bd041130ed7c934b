CONSTANTS
  Delay = {230}
  Default = 2000
  EttRange = 50
  ProbesMin = 3
  ProbesMax = 4
  Cycle = 2
  Times <- Arrivals
  Second = 2000
  Width = 20000
SPECIFICATION Spec
INVARIANTS VectorFits
PROPERTIES DelayMeasured RateGivenUp ProbesGoOn
