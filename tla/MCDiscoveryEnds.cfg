CONSTANTS
  a = a  b = b  c = c  d = d  t1 = t1
  Node = {a, b, c, d}
  Tos = {t1}
  Flow <- FlowAD
  Link <- Diamond
  Flaky <- NoLink
  NetDiameter = 2
  MaxSeq = 3
  Lossy = FALSE
  Ageing = FALSE
  NoNode = NoNode
  NeighEntry = NeighEntry
SPECIFICATION FairSpec
PROPERTIES DiscoveryEnds
CHECK_DEADLOCK FALSE
