SPECIFICATION PlanSpec
CONSTANTS
  resize = resize  calc = calc  tint = tint
  combine = combine  publish = publish  cleanup = cleanup
  Nodes = {resize, calc, tint, combine, publish, cleanup}
  Graphs <- Warhol
  Editable = {}
  Listings <- SeedOrder
  MaxEdits = 0
  Widths = {2}
  MaxNesting = 1
INVARIANTS EveryNodeBehindIsCreated
CHECK_DEADLOCK FALSE
