CONSTANTS
  Me = Me  s1 = s1  s2 = s2  d1 = d1  h1 = h1  h2 = h2
  t1 = t1  Null = Null
  Key <- Flows
  Offer <- Offers
  Neigh <- Neighs
  Busy <- BusyFlows
  Dtn <- DtnFlows
  MaxTables = 2
SPECIFICATION Spec
INVARIANTS TypeOK SrcCounted RulesFollowList RepliedInstalled
PROPERTIES LeftBehind
CHECK_DEADLOCK FALSE
