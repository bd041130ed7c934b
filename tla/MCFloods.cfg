CONSTANTS
  a = a  b = b  c = c  d = d  t1 = t1
  Node = {a, b, c, d}
  Tos = {t1}
  Flow <- FlowAD
  Link <- DeafKite
  Flaky <- NoLink
  NetDiameter = 3
  MaxSeq = 3
  Lossy = TRUE
  Ageing = TRUE
  NoNode = NoNode
  NeighEntry = NeighEntry
SPECIFICATION Spec
INVARIANTS LoopFree NextHopFresher MetricPositive
PROPERTY NoOlderRoute
CHECK_DEADLOCK FALSE
