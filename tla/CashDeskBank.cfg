SPECIFICATION Spec
CONSTANTS
  Employees = {e1, e2}
  Funds = {f1, f2}
  Shifts = {s1}
  Invoices = {}
  Requests = {q1}
  Handovers = {h1}
  Entries = {x1, x2}
  References = {r1}
  FundTypes = {"CASH", "BANK"}
  Amounts = {1}
  MaxCash = 2
  MaxCount = 2
  NoEmployee = NoEmployee
  NoFund = NoFund
  NoShift = NoShift
  NoHandover = NoHandover
  NoReference = NoReference
INVARIANT MoneyConserved
INVARIANT StatementsMatchSettlements
SYMMETRY Symmetry
CHECK_DEADLOCK FALSE
