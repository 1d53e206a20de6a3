SPECIFICATION Spec
CONSTANTS
  Invoices = {i1}
  Attempts = {a1}
  a1 = a1
  a2 = a2
  t1 = t1
  t2 = t2
  sched = sched
  manual = manual
  webhook = webhook
  Reconcilers = {sched, manual}
  Source <- MCSource
  Txns = {t1}
  NoTxn = NoTxn
  NoInvoice = NoInvoice
  NoAttempt = NoAttempt
  Providers = {"VNPAY"}
  MAX_QUERY_ATTEMPTS = 2
  LateCapture = TRUE
  MaxNotices = 1
  MaxFaults = 0
  MaxClosed = 1
INVARIANT ReviewIsVisible
PROPERTY SettlementFinal
CHECK_DEADLOCK FALSE
