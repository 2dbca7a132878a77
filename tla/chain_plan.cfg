SPECIFICATION PlanSpec
CONSTANTS
  n1 = n1  n2 = n2  n3 = n3  n4 = n4
  Nodes = {n1, n2, n3, n4}
  Graphs <- AllGraphs
  Editable <- Backward
  Listings <- TwoOrders
  MaxEdits = 2
  Widths = {2}
  MaxNesting = 2
INVARIANTS ChainStaysAcyclic ParentsComeFirst FanOutsAreWired
CHECK_DEADLOCK FALSE
