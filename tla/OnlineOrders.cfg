SPECIFICATION Spec
CONSTANTS
  Requests = {r1, r2}
  Lines = {l1, l2}
  Prices = {1, 2}
  Capacity = 1
  MaxCalls = 2
  Deliveries = {2}
  MaxStock = 4
INVARIANTS OrderTellsOneStory ChargedAsQuoted IngredientsAccounted
SYMMETRY Symmetry
CONSTRAINT Bounds
CHECK_DEADLOCK FALSE
