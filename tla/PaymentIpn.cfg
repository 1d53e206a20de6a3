SPECIFICATION Spec
CONSTANTS
  Invoices = {i1}
  Attempts = {a1, a2}
  a1 = a1
  a2 = a2
  t1 = t1
  t2 = t2
  sched = sched
  manual = manual
  webhook = webhook
  Reconcilers = {}
  Source <- MCSource
  Txns = {t1, t2}
  NoTxn = NoTxn
  NoInvoice = NoInvoice
  NoAttempt = NoAttempt
  Providers = {"VNPAY", "MOMO"}
  MAX_QUERY_ATTEMPTS = 2
  LateCapture = TRUE
  MaxNotices = 2
  MaxFaults = 0
  MaxClosed = 1
INVARIANT TransferMatchesCapture
INVARIANT ReportedCaptureAccounted
SYMMETRY Symmetry
CHECK_DEADLOCK FALSE
