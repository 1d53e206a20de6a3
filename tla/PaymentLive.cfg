SPECIFICATION FairSpec
CONSTANTS
  Invoices = {i1}
  Attempts = {a1}
  a1 = a1
  a2 = a2
  t1 = t1
  t2 = t2
  sched = sched
  manual = manual
  webhook = webhook
  Reconcilers = {sched, webhook}
  Source <- MCSource
  Txns = {t1}
  NoTxn = NoTxn
  NoInvoice = NoInvoice
  NoAttempt = NoAttempt
  Providers = {"VNPAY", "PAYOS"}
  MAX_QUERY_ATTEMPTS = 2
  LateCapture = FALSE
  MaxNotices = 2
  MaxFaults = 2
  MaxClosed = 0
PROPERTY AttemptSettles
PROPERTY CaptureNoticed
CHECK_DEADLOCK FALSE
