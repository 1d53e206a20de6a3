SPECIFICATION Spec
CONSTANTS
  Employees = {e1, e2}
  Funds = {f1, f2}
  Shifts = {s1, s2}
  Invoices = {i1}
  Requests = {}
  Handovers = {h1}
  Entries = {}
  References = {r1}
  FundTypes = {"CASH"}
  Amounts = {1, 2}
  MaxCash = 2
  MaxCount = 1
  NoEmployee = NoEmployee
  NoFund = NoFund
  NoShift = NoShift
  NoHandover = NoHandover
  NoReference = NoReference
INVARIANT DrawerMatchesBooks
PROPERTY ClosedShiftFinal
SYMMETRY Symmetry
CHECK_DEADLOCK FALSE
