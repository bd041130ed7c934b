CONSTANTS
  a = a  b = b  c = c  d = d  t1 = t1
  Node = {a, b, c}
  Tos = {t1}
  Flow <- ToC
  Link <- Line
  Flaky <- BHearsBoth
  NetDiameter = 2
  MaxSeq = 2
  Lossy = TRUE
  Ageing = TRUE
  NoNode = NoNode
  NeighEntry = NeighEntry
SPECIFICATION Spec
INVARIANTS TypeOK IdNamesRoute IndInv
CHECK_DEADLOCK FALSE
