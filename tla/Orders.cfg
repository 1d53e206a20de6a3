SPECIFICATION Spec
CONSTANTS
  Tables = {t1, t2}
  Sessions = {s1, s2, s3}
  Items = {i1, i2}
  Invoices = {v1, v2}
  NoTable = NoTable
  NoSession = NoSession
  NoInvoice = NoInvoice
  MaxQuantity = 2
  Recipes = {0, 1}
  MaxStock = 2
INVARIANTS TableMatchesSessions SessionsEndClean BillsMatchLines StockBalances KitchenKeepsPromise
SYMMETRY Symmetry
CONSTRAINT Bounds
CHECK_DEADLOCK FALSE
